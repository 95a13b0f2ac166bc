----------------------------- MODULE FtpControlProofs -----------------------------
(***************************************************************************)
(* Proofs about FtpControl, for files of any length, any calls and any     *)
(* number of them: what a call that returns success has done, although the *)
(* client may read the replies to commands of earlier calls.               *)
(*                                                                         *)
(* The argument follows the PASV commands.  A call sends one, the server   *)
(* answers in order and listens at the address it gave last.  So a client  *)
(* that takes the reply to an earlier PASV for its own connects to an      *)
(* address at which its transfer is not served any more; and one that gets *)
(* its own reply has read everything before it.                            *)
(***************************************************************************)
EXTENDS FtpControl, SequenceTheorems, TLAPS

-------------------------------------------------------------------------------
(* The inductive invariant.                                                *)

Transferring == pc \in {"preliminary", "data", "close", "final"}

\* The address is that of the call under way.
Own == address = calls

\* The operation has to send commands yet.
Busy == pc \in {"send", "reply"} \cup {"preliminary", "data", "close", "final"}

Quitting == todo = <<"QUIT">> /\ call.name = "Connect"

\* Nothing has been done before Connect.
Untouched ==
  pc = "start" =>
    call.name = "Connect" /\ ~strayed /\ ~up /\ listening = -1 /\ commands = <<>> /\ replies = <<>>

\* What is to be sent is the end of the operation's script.
Following ==
  /\ pc # "undefined" /\ todo # <<>> =>
       \/ Quitting
       \/ /\ Len(todo) <= Len(Script(call))
          /\ \A j \in 1..Len(todo) : todo[j] = Script(call)[Len(Script(call)) - Len(todo) + j]
  /\ Transferring => Expecting \in Transfers /\ ~Quitting
  /\ pc = "reply" => Expecting \notin Transfers
  /\ call.name = "Connect" <=> calls = 0
  /\ pc # "idle" =>
       /\ call.name \in {"Get", "GetRange", "Put"} => offset = call.at
       /\ call.name = "ListDir" => offset = 0

IsPasv(q, i) == q[i].cmd = "PASV"

OwnPasv(q, i) == q[i].cmd = "PASV" /\ q[i].call = calls

\* The PASV of this call has not been sent.
PasvAhead == \E j \in 1..Len(todo) : todo[j] = "PASV" /\ (j > 1 \/ pc = "send")

\* ... or it has, and its transfer command has not.
PasvSent ==
  \/ pc = "reply" /\ Expecting = "PASV"
  \/ pc \in {"send", "reply"} /\ Expecting \in Transfers \cup {"REST"}

\* The commands and replies under way are numbered in order.
Numbers ==
  /\ address <= calls /\ listening <= calls /\ listening # 0
  /\ \A i \in 1..Len(commands) : commands[i].call <= calls
  /\ \A i \in 1..Len(replies) : replies[i].call <= calls
  /\ \A i \in 1..Len(commands) : IsPasv(commands, i) => commands[i].call > 0 /\ commands[i].call > listening
  /\ \A i, j \in 1..Len(commands) :
       i < j /\ IsPasv(commands, i) /\ IsPasv(commands, j) => commands[i].call < commands[j].call

\* The PASV of this call is sent once, and nothing behind it before it is answered.
PasvOnce ==
  /\ PasvAhead =>
       /\ \A i \in 1..Len(commands) : ~OwnPasv(commands, i)
       /\ \A i \in 1..Len(replies) : ~OwnPasv(replies, i)
       /\ listening # calls
  /\ pc = "reply" /\ Expecting = "PASV" =>
       /\ \A i \in 1..Len(commands) : OwnPasv(commands, i) => i = Len(commands)
       /\ \A i \in 1..Len(replies) :
            OwnPasv(replies, i) /\ up =>
              /\ commands = <<>> /\ i = Len(replies)
              /\ replies[i].code = 2 => listening = calls /\ rest = 0
  /\ PasvSent /\ up =>
       \/ \E i \in 1..Len(commands) : OwnPasv(commands, i)
       \/ listening \in {-1, calls} /\ \A i \in 1..Len(commands) : ~IsPasv(commands, i)

\* A transfer command whose address is not that of its own call will not find the
\* server there.
Doomed ==
  \A i \in 1..Len(commands) :
    commands[i].cmd \in Transfers /\ commands[i].data # 0 =>
      \/ pc = "preliminary" /\ Own
      \/ /\ \A j \in 1..Len(commands) : IsPasv(commands, j) => commands[j].call > commands[i].data
         /\ commands[i].data < commands[i].call
         /\ \/ listening # commands[i].data
            \/ \E j \in 1..Len(commands) : j < i /\ IsPasv(commands, j)

\* The transfer of this call has begun: its first reply is there, or read.
Begun == pc = "preliminary" => commands = <<>> /\ Len(replies) > 0 /\ replies[1].code = 1

\* The server is at a transfer only while the client waits for it.
Jobs ==
  /\ job # "none" => up /\ Transferring /\ Own /\ job = Expecting /\ commands = <<>> /\ Begun
  /\ wire > 0 => Transferring
  /\ pc \in {"start", "send", "reply", "preliminary"} => moved = 0

\* Nobody reads commands when the server is gone; QUIT is the last one.
Hung ==
  /\ ~up => commands = <<>>
  /\ \A i \in 1..Len(commands) :
       commands[i].cmd = "QUIT" => i = Len(commands) /\ pc = "reply" /\ Expecting = "QUIT"

\* A reply that announces a transfer and is not that of this call is followed by its end.
Announced ==
  \A i \in 1..Len(replies) :
    replies[i].code = 1 =>
      \/ i < Len(replies) /\ replies[i + 1].code = 4
      \/ pc = "preliminary" /\ Own /\ i = 1

\* With its own address, the client has read all replies of earlier calls.
OwnBefore ==
  /\ pc = "send" /\ Expecting \in Transfers \cup {"REST"} /\ Own /\ up =>
       /\ commands = <<>> /\ replies = <<>> /\ listening = calls
       /\ Expecting \in Transfers => rest = offset
  /\ pc = "reply" /\ Expecting = "REST" /\ Own /\ up =>
       /\ listening = calls
       /\ \/ /\ replies = <<>> /\ Len(commands) = 1
             /\ commands[1].cmd = "REST" /\ commands[1].at = offset
          \/ /\ commands = <<>> /\ Len(replies) = 1
             /\ replies[1].code = 3 => rest = offset

\* The place of the transfer's final reply.
Final == IF pc = "preliminary" THEN 2 ELSE 1

OwnTransfer ==
  Transferring /\ Own =>
    /\ calls > 0
    /\ commands # <<>> =>
         /\ pc = "preliminary" /\ Len(commands) = 1
         /\ commands[1].cmd = Expecting /\ commands[1].call = calls /\ commands[1].data = calls
         /\ replies = <<>> /\ listening = calls /\ rest = offset /\ up
    /\ ~Begun => wire = 0
    /\ pc = "preliminary" => moved = 0
    /\ Begun => from = offset
    /\ Begun /\ job # "none" => Len(replies) = Final - 1
    /\ \A i \in 1..Len(replies) :
         i > Final \/ (pc = "preliminary" /\ ~Begun /\ i > 1) => replies[i].code = 4 /\ ~up
    /\ Begun /\ Len(replies) >= Final /\ replies[Final].code = 2 =>
         /\ replies[Final].call = calls /\ replies[Final].cmd = Expecting
         /\ Expecting \in carried
         /\ IF Reading THEN at_server = Length ELSE pc = "final" /\ at_server = from + moved

\* With another one, it will be told that the transfer has failed.
OtherTransfer ==
  Transferring /\ ~Own =>
    /\ pc # "preliminary" => Len(replies) > 0 /\ replies[1].code = 4
    /\ Reading \/ pc = "preliminary" => moved = 0 /\ wire = 0

\* The pieces under way, and those that have been moved.
Pieces ==
  Transferring =>
    /\ Reading => moved + wire <= at_server - from
    /\ ~Reading => wire <= moved /\ moved <= Length - offset
    /\ Own /\ Begun /\ Reading /\ pc \in {"preliminary", "data"} /\ cut = "no" =>
         moved + wire = at_server - from
    /\ Own /\ call.name = "Get" /\ pc \in {"close", "final"} /\ cut = "no" =>
         job = "none" /\ moved = at_server - from
    /\ job = "STOR" => at_server - from = moved - wire
    /\ pc = "final" /\ job # "STOR" => wire = 0
    /\ Own /\ ~Reading /\ pc \in {"close", "final"} /\ cut = "no" =>
         \/ moved = Length - offset
         \/ job = "none" /\ ~(Len(replies) > 0 /\ replies[1].code = 2)

\* While no transfer command was left alone, each reply is that to the last command.
InStep ==
  ~strayed =>
    /\ pc \in {"start", "idle", "send"} =>
         commands = <<>> /\ \A i \in 1..Len(replies) : replies[i].code = 4 /\ ~up
    /\ pc = "reply" =>
         /\ \/ commands = <<>>
            \/ /\ Len(commands) = 1 /\ replies = <<>>
               /\ commands[1].cmd = Expecting /\ commands[1].call = calls
         /\ \A i \in 1..Len(replies) :
              \/ replies[i].code = 4 /\ ~up
              \/ /\ i = 1 /\ commands = <<>>
                 /\ replies[1].cmd = Expecting /\ replies[1].call = calls
                 /\ replies[1].code \in {2, 3} => Expecting \in carried \cup {"HELLO"}
    /\ PasvSent /\ Expecting # "PASV" => Own
    /\ Transferring => Own

\* The operations that return 1 when each of their commands is answered as expected.
Strict == {"Delete", "Rename", "Size", "Get", "Put", "GetRange"}

\* What has been answered, has been carried out.
Done ==
  ~strayed /\ call.name \in Strict /\ Busy =>
    \A i \in 1..Len(Script(call)) : i <= Len(Script(call)) - Len(todo) => Script(call)[i] \in carried

\* A transfer that has succeeded has left no command behind.
Settled == Returned /\ call.name \in {"Get", "Put"} /\ cut = "no" => commands = <<>>

FtpInv ==
  /\ TypeOK
  /\ Untouched /\ Following /\ Numbers /\ PasvOnce /\ Doomed /\ Jobs /\ Hung
  /\ Announced
  /\ OwnBefore /\ OwnTransfer /\ OtherTransfer /\ Pieces
  /\ InStep /\ Done /\ Settled /\ SuccessIsReal /\ WholeFileMoved

-------------------------------------------------------------------------------
(* The operators.                                                          *)

\* What is left of a sequence without its first element.
LEMMA TailIs ==
  ASSUME NEW S, NEW q \in Seq(S), q # <<>>
  PROVE  /\ Tail(q) \in Seq(S) /\ Len(Tail(q)) = Len(q) - 1 /\ Len(q) \in Nat \ {0}
         /\ \A i \in 1..Len(Tail(q)) : Tail(q)[i] = q[i + 1]
         /\ Head(q) = q[1] /\ q[1] \in S
<1>1. Len(q) \in Nat \ {0}
  BY EmptySeq
<1>2. Head(q) = q[1]
  BY <1>1
<1> QED
  BY <1>1, <1>2, HeadTailProperties

\* The empty sequence is the one without elements.
LEMMA EmptyIs ==
  ASSUME NEW S, NEW q \in Seq(S)
  PROVE  /\ Len(q) \in Nat /\ (q = <<>> <=> Len(q) = 0)
         /\ \A i \in 1..Len(q) : q[i] \in S
BY EmptySeq, ElementOfSeq, LenProperties

\* A sequence with something behind it.
LEMMA AppendIs ==
  ASSUME NEW S, NEW q \in Seq(S), NEW e \in S
  PROVE  /\ Append(q, e) \in Seq(S) /\ Len(Append(q, e)) = Len(q) + 1
         /\ \A i \in 1..Len(q) : Append(q, e)[i] = q[i]
         /\ Append(q, e)[Len(q) + 1] = e
BY AppendProperties

\* The same with a sequence of one.
LEMMA BehindIs ==
  ASSUME NEW S, NEW q \in Seq(S), NEW e \in S, NEW t \in Seq(S), Len(t) = Len(q) + 1,
         \A i \in 1..Len(q) : t[i] = q[i], t[Len(q) + 1] = e
  PROVE  q \o <<e>> = t
<1> DEFINE one == <<e>>
<1>1. one \in Seq(S) /\ Len(one) = 1 /\ one[1] = e
  OBVIOUS
<1> HIDE DEF one
<1>2. /\ q \o one \in Seq(S) /\ Len(q \o one) = Len(q) + Len(one)
      /\ \A i \in 1..Len(q) + Len(one) :
           (q \o one)[i] = IF i <= Len(q) THEN q[i] ELSE one[i - Len(q)]
  BY <1>1, ConcatProperties
<1>3. Len(q) \in Nat
  BY LenProperties
<1>4. ASSUME NEW i \in 1..Len(t) PROVE (q \o one)[i] = t[i]
  <2>1. i \in 1..Len(q) + Len(one) /\ (i \in 1..Len(q) \/ (i = Len(q) + 1 /\ i - Len(q) = 1))
    BY <1>1, <1>3
  <2> QED
    BY <1>1, <1>2, <1>3, <2>1
<1>5. Len(q \o one) = Len(t)
  BY <1>1, <1>2
<1>6. q \o one = t
  BY <1>2, <1>4, <1>5, SeqEqual
<1> QED
  BY <1>6 DEF one

\* The commands of a transfer.
LEMMA AccessIs ==
  ASSUME NEW request, NEW command \in Transfers
  PROVE  Access(request, command) =
           IF request.at # 0 THEN <<"TYPE", "PASV", "REST", command>>
                             ELSE <<"TYPE", "PASV", command>>
<1>1. "REST" \in Commands /\ command \in Commands
  BY DEF Commands
<1>2. CASE request.at # 0
  <2> DEFINE q == <<"TYPE", "PASV">>
             s == <<"TYPE", "PASV", "REST">>
             t == <<"TYPE", "PASV", "REST", command>>
  <2>1. /\ q \in Seq(Commands) /\ s \in Seq(Commands) /\ t \in Seq(Commands)
        /\ Len(s) = Len(q) + 1 /\ Len(t) = Len(s) + 1
    BY <1>1 DEF Commands
  <2>2. /\ \A i \in 1..Len(q) : s[i] = q[i]
        /\ \A i \in 1..Len(s) : t[i] = s[i]
        /\ s[Len(q) + 1] = "REST" /\ t[Len(s) + 1] = command
    OBVIOUS
  <2>3. Access(request, command) = (q \o <<"REST">>) \o <<command>> /\ t = <<"TYPE", "PASV", "REST", command>>
    BY <1>2 DEF Access
  <2> HIDE DEF q, s, t
  <2>4. q \o <<"REST">> = s
    BY <1>1, <2>1, <2>2, BehindIs, Zenon
  <2>5. s \o <<command>> = t
    BY <1>1, <2>1, <2>2, BehindIs, Zenon
  <2> QED
    BY <1>2, <2>3, <2>4, <2>5
<1>3. CASE request.at = 0
  <2> DEFINE q == <<"TYPE", "PASV">>
             t == <<"TYPE", "PASV", command>>
  <2>1. q \in Seq(Commands) /\ t \in Seq(Commands) /\ Len(t) = Len(q) + 1
    BY <1>1 DEF Commands
  <2>2. (\A i \in 1..Len(q) : t[i] = q[i]) /\ t[Len(q) + 1] = command
    OBVIOUS
  <2>3. Access(request, command) = (q \o <<>>) \o <<command>> /\ t = <<"TYPE", "PASV", command>>
    BY <1>3 DEF Access
  <2> HIDE DEF q, t
  <2>4. q \o <<>> = q
    BY <2>1, ConcatEmptySeq
  <2>5. q \o <<command>> = t
    BY <1>1, <2>1, <2>2, BehindIs, Zenon
  <2> QED
    BY <1>3, <2>3, <2>4, <2>5
<1> QED
  BY <1>2, <1>3

Accessing == {"Get", "GetRange", "Put"}

\* The scripts: PASV comes once, before the transfer command that ends the script, with
\* a REST between if there is an offset.
LEMMA ScriptIs ==
  ASSUME NEW r \in [name : Names \cup {"Connect"}, at : 0..Length]
  PROVE  /\ Script(r) \in Seq(Commands) /\ Len(Script(r)) \in 1..4
         /\ \A i \in 1..Len(Script(r)) :
              /\ Script(r)[i] = "PASV" =>
                   /\ r.name \in Accessing \cup {"ListDir"} /\ i < Len(Script(r))
                   /\ Script(r)[i + 1] \in Transfers \cup {"REST"}
                   /\ Script(r)[i + 1] \in Transfers => r.name = "ListDir" \/ r.at = 0
                   /\ \A j \in 1..Len(Script(r)) : Script(r)[j] = "PASV" => j = i
              /\ Script(r)[i] = "REST" =>
                   /\ r.name \in Accessing /\ i < Len(Script(r)) /\ i > 1
                   /\ Script(r)[i - 1] = "PASV" /\ Script(r)[i + 1] \in Transfers
              /\ Script(r)[i] \in Transfers =>
                   /\ i = Len(Script(r)) /\ i > 1 /\ Script(r)[i - 1] \in {"PASV", "REST"}
                   /\ \/ r.name \in {"Get", "GetRange"} /\ Script(r)[i] = "RETR"
                      \/ r.name = "Put" /\ Script(r)[i] = "STOR"
                      \/ r.name = "ListDir" /\ Script(r)[i] = "LIST"
              /\ Script(r)[i] \in {"HELLO", "USER", "PASS"} <=> r.name = "Connect"
              /\ Script(r)[i] = "HELLO" => i = 1
              /\ Script(r)[i] = "QUIT" <=> r.name = "Quit"
              /\ Script(r)[i] = "NOOP" <=> r.name = "Noop"
              /\ Script(r)[i] = "CWD" => r.name = "ListDir"
         /\ r.name \in Accessing \cup {"ListDir"} <=> Script(r)[Len(Script(r))] \in Transfers
<1> USE DEF Transfers, Accessing
<1> DEFINE s == Script(r)
<1>1. CASE r.name = "Noop"
  <2>1. s = <<"NOOP">>
    BY <1>1 DEF Script
  <2> QED
    BY <1>1, <2>1 DEF Commands
<1>2. CASE r.name = "Delete"
  <2>1. s = <<"DELE">>
    BY <1>2 DEF Script
  <2> QED
    BY <1>2, <2>1 DEF Commands
<1>3. CASE r.name = "Rename"
  <2>1. s = <<"RNFR", "RNTO">>
    BY <1>3 DEF Script
  <2> QED
    BY <1>3, <2>1 DEF Commands
<1>4. CASE r.name = "Size"
  <2>1. s = <<"TYPE", "SIZE">>
    BY <1>4 DEF Script
  <2> QED
    BY <1>4, <2>1 DEF Commands
<1>5. CASE r.name = "Quit"
  <2>1. s = <<"QUIT">>
    BY <1>5 DEF Script
  <2> QED
    BY <1>5, <2>1 DEF Commands
<1>6. CASE r.name = "Connect"
  <2>1. s = <<"HELLO", "USER", "PASS">>
    BY <1>6 DEF Script
  <2> QED
    BY <1>6, <2>1 DEF Commands
<1>7. CASE r.name = "ListDir"
  <2>1. s = <<"CWD", "TYPE", "PASV", "LIST">>
    BY <1>7 DEF Script
  <2> QED
    BY <1>7, <2>1 DEF Commands
<1>8. CASE r.name \in Accessing
  <2> DEFINE t == IF r.name = "Put" THEN "STOR" ELSE "RETR"
  <2>1. s = Access(r, t)
    BY <1>8 DEF Script
  <2>2. CASE r.at # 0
    <3>2. t \in {"STOR", "RETR"} /\ (r.name = "Put" <=> t = "STOR")
      OBVIOUS
    <3>1. s = <<"TYPE", "PASV", "REST", t>>
      BY <2>1, <2>2, <3>2, AccessIs
    <3> HIDE DEF t
    <3> QED
      BY <1>8, <2>2, <3>1, <3>2 DEF Commands
  <2>3. CASE r.at = 0
    <3>2. t \in {"STOR", "RETR"} /\ (r.name = "Put" <=> t = "STOR")
      OBVIOUS
    <3>1. s = <<"TYPE", "PASV", t>>
      BY <2>1, <2>3, <3>2, AccessIs
    <3> HIDE DEF t
    <3> QED
      BY <1>8, <2>3, <3>1, <3>2 DEF Commands
  <2> QED
    BY <2>2, <2>3
<1> QED
  BY <1>1, <1>2, <1>3, <1>4, <1>5, <1>6, <1>7, <1>8 DEF Names

Command == [cmd : Commands, call : 0..MaxCalls, at : 0..Length, data : 0..MaxCalls]

\* The variables' values, as the provers need them.
LEMMA Shapes ==
  ASSUME TypeOK
  PROVE  /\ calls \in Nat /\ address \in Nat /\ offset \in Nat /\ moved \in Nat /\ wire \in Nat
         /\ from \in Nat /\ at_server \in Nat /\ from <= at_server /\ at_server <= Length
         /\ rest \in Nat /\ listening \in Int /\ Length \in Nat /\ MaxCalls \in Nat
         /\ calls <= MaxCalls /\ address <= MaxCalls /\ listening <= MaxCalls /\ offset <= Length
         /\ rest <= Length
         /\ call.at \in 0..Length /\ call.name \in Names \cup {"Connect"}
         /\ todo \in Seq(Commands) /\ commands \in Seq(Command) /\ replies \in Seq(Reply)
         /\ Len(todo) \in Nat /\ Len(commands) \in Nat /\ Len(replies) \in Nat
         /\ (todo = <<>> <=> Len(todo) = 0) /\ (commands = <<>> <=> Len(commands) = 0)
         /\ (replies = <<>> <=> Len(replies) = 0)
         /\ \A i \in 1..Len(commands) :
              commands[i] \in Command /\ commands[i].call \in Nat /\ commands[i].data \in Nat
         /\ \A i \in 1..Len(replies) :
              replies[i] \in Reply /\ replies[i].code \in 0..5 /\ replies[i].call \in Nat
<1> USE FtpAssumption
<1>1. /\ calls \in Nat /\ address \in Nat /\ offset \in Nat /\ moved \in Nat /\ wire \in Nat
      /\ from \in Nat /\ at_server \in Nat /\ from <= at_server /\ at_server <= Length
      /\ rest \in Nat /\ listening \in Int /\ Length \in Nat /\ MaxCalls \in Nat
      /\ calls <= MaxCalls /\ address <= MaxCalls /\ listening <= MaxCalls /\ offset <= Length
      /\ rest <= Length
      /\ call.at \in 0..Length /\ call.name \in Names \cup {"Connect"}
  BY DEF TypeOK
<1>2. todo \in Seq(Commands) /\ commands \in Seq(Command) /\ replies \in Seq(Reply)
  BY DEF TypeOK, Command
<1>3. /\ Len(todo) \in Nat /\ Len(commands) \in Nat /\ Len(replies) \in Nat
      /\ (todo = <<>> <=> Len(todo) = 0) /\ (commands = <<>> <=> Len(commands) = 0)
      /\ (replies = <<>> <=> Len(replies) = 0)
      /\ \A i \in 1..Len(commands) : commands[i] \in Command
      /\ \A i \in 1..Len(replies) : replies[i] \in Reply
  BY <1>2, EmptyIs
<1>4. ASSUME NEW i \in 1..Len(commands) PROVE commands[i].call \in Nat /\ commands[i].data \in Nat
  BY <1>3 DEF Command
<1>5. ASSUME NEW i \in 1..Len(replies) PROVE replies[i].code \in 0..5 /\ replies[i].call \in Nat
  BY <1>3 DEF Reply
<1> QED
  BY <1>1, <1>2, <1>3, <1>4, <1>5

\* Where an operation is in its script.
LEMMA Position ==
  ASSUME TypeOK, Following, todo # <<>>, pc # "undefined"
  PROVE  /\ Expecting = todo[1] /\ Expecting \in Commands /\ Len(todo) \in 1..4
         /\ Expecting \in Transfers =>
              /\ Len(todo) = 1 /\ calls > 0
              /\ \/ call.name \in {"Get", "GetRange"} /\ Expecting = "RETR"
                 \/ call.name = "Put" /\ Expecting = "STOR"
                 \/ call.name = "ListDir" /\ Expecting = "LIST"
         /\ Expecting = "PASV" =>
              /\ Len(todo) > 1 /\ todo[2] \in Transfers \cup {"REST"} /\ calls > 0
              /\ todo[2] \in Transfers => offset = 0
              /\ \A j \in 2..Len(todo) : todo[j] # "PASV"
         /\ Expecting = "REST" => Len(todo) > 1 /\ todo[2] \in Transfers /\ calls > 0
         /\ Expecting \in {"REST"} \cup Transfers => \A j \in 1..Len(todo) : todo[j] # "PASV"
         /\ Expecting \in {"HELLO", "USER", "PASS"} => call.name = "Connect" /\ ~Quitting
         /\ Expecting = "QUIT" => Len(todo) = 1 /\ (Quitting \/ call.name = "Quit")
         /\ Expecting = "NOOP" => call.name = "Noop"
         /\ Expecting = "CWD" => call.name = "ListDir"
         /\ Len(todo) = 1 /\ ~Quitting /\ Expecting \notin Transfers =>
              call.name \notin Accessing \cup {"ListDir"}
         /\ \A j \in 1..Len(todo) : todo[j] = "PASV" => calls > 0
<1>1. call \in [name : Names \cup {"Connect"}, at : 0..Length] /\ pc # "idle" /\ calls \in Nat
  BY Shapes DEF TypeOK
<1>2. todo \in Seq(Commands) /\ Len(todo) \in Nat \ {0} /\ todo[1] \in Commands /\ Expecting = todo[1]
  BY TailIs DEF TypeOK, Expecting
<1>3. CASE Quitting
  BY <1>1, <1>2, <1>3 DEF Quitting, Following, Transfers
<1>4. CASE ~Quitting
  <2> DEFINE s == Script(call)
             n == Len(s)
             p == n - Len(todo) + 1
  <2>1. n \in 1..4 /\ Len(todo) <= n /\ \A j \in 1..Len(todo) : todo[j] = s[n - Len(todo) + j]
    BY <1>1, <1>4, ScriptIs DEF Following
  <2>2. p \in 1..n /\ todo[1] = s[p] /\ Len(todo) = n - p + 1
    BY <1>2, <2>1
  <2>3. /\ p < n => Len(todo) > 1 /\ todo[2] = s[p + 1]
        /\ \A j \in 2..Len(todo) : p + j - 1 \in 1..n /\ p + j - 1 # p /\ todo[j] = s[p + j - 1]
    BY <1>2, <2>1, <2>2
  <2>4. calls > 0 <=> call.name # "Connect"
    BY <1>1 DEF Following
  <2>5. /\ call.name \in Accessing => offset = call.at
        /\ call.name = "ListDir" => offset = 0
    BY <1>1 DEF Following, Accessing
  <2> HIDE DEF n, p
  <2>6. CASE todo[1] = "PASV"
    <3>1. /\ call.name \in Accessing \cup {"ListDir"} /\ p < n
          /\ s[p + 1] \in Transfers \cup {"REST"}
          /\ s[p + 1] \in Transfers => call.name = "ListDir" \/ call.at = 0
          /\ \A j \in 1..n : s[j] = "PASV" => j = p
      <4>1. s[p] = "PASV" /\ p \in 1..Len(s)
        BY <2>2, <2>6 DEF n
      <4>2. /\ s[p] = "PASV" =>
                   /\ call.name \in Accessing \cup {"ListDir"} /\ p < Len(s)
                   /\ s[p + 1] \in Transfers \cup {"REST"}
                   /\ s[p + 1] \in Transfers => call.name = "ListDir" \/ call.at = 0
                   /\ \A j \in 1..Len(s) : s[j] = "PASV" => j = p
        BY <1>1, <4>1, ScriptIs, Zenon
      <4> QED
        BY <4>1, <4>2 DEF n
    <3>2. \A j \in 2..Len(todo) : todo[j] # "PASV"
      BY <2>3, <3>1
    <3> QED
      BY <1>2, <1>4, <2>1, <2>2, <2>3, <2>4, <2>5, <2>6, <3>1, <3>2 DEF Accessing, Transfers
  <2>7. CASE todo[1] = "REST"
    <3>1. /\ call.name \in Accessing /\ p < n /\ p > 1 /\ s[p - 1] = "PASV" /\ s[p + 1] \in Transfers
      <4>1. s[p] = "REST" /\ p \in 1..Len(s)
        BY <2>2, <2>7 DEF n
      <4>2. s[p] = "REST" =>
              /\ call.name \in Accessing /\ p < Len(s) /\ p > 1
              /\ s[p - 1] = "PASV" /\ s[p + 1] \in Transfers
        BY <1>1, <4>1, ScriptIs, Zenon
      <4> QED
        BY <4>1, <4>2 DEF n
    <3>2. p - 1 \in 1..n
      BY <2>1, <2>2, <3>1
    <3>3. \A j \in 1..n : s[j] = "PASV" => j = p - 1
      BY <1>1, <3>1, <3>2, ScriptIs DEF n
    <3>4. \A j \in 1..Len(todo) : todo[j] # "PASV"
      BY <2>1, <2>2, <2>3, <2>7, <3>3
    <3> QED
      BY <1>2, <1>4, <2>1, <2>2, <2>3, <2>4, <2>7, <3>1, <3>4 DEF Accessing, Transfers
  <2>8. CASE todo[1] \in Transfers
    <3>1. /\ p = n
          /\ \/ call.name \in {"Get", "GetRange"} /\ todo[1] = "RETR"
             \/ call.name = "Put" /\ todo[1] = "STOR"
             \/ call.name = "ListDir" /\ todo[1] = "LIST"
      BY <1>1, <2>2, <2>8, ScriptIs DEF n
    <3> QED
      BY <1>2, <1>4, <2>1, <2>2, <2>4, <2>8, <3>1 DEF Accessing, Transfers
  <2>9. CASE todo[1] \notin Transfers \cup {"PASV", "REST"}
    <3>1. /\ s[p] \in {"HELLO", "USER", "PASS"} <=> call.name = "Connect"
          /\ s[p] = "QUIT" <=> call.name = "Quit"
          /\ s[p] = "NOOP" <=> call.name = "Noop"
          /\ s[p] = "CWD" => call.name = "ListDir"
          /\ call.name \in Accessing \cup {"ListDir"} <=> s[n] \in Transfers
      BY <1>1, <2>2, ScriptIs DEF n
    <3>2. call.name = "Quit" => n = 1
      BY <1>1 DEF n, Script
    <3>3. Len(todo) = 1 => p = n
      BY <1>2, <2>1 DEF p
    <3>4. ASSUME NEW j \in 1..Len(todo), todo[j] = "PASV" PROVE calls > 0
      <4>1. \E i \in 1..n : s[i] = "PASV"
        BY <2>2, <2>3, <2>9, <3>4
      <4>2. call.name # "Connect"
        BY <1>1, <4>1, ScriptIs DEF n, Accessing
      <4> QED
        BY <2>4, <4>2
    <3> QED
      BY <1>2, <1>4, <2>1, <2>2, <2>4, <2>9, <3>1, <3>2, <3>3, <3>4 DEF Transfers
  <2> QED
    BY <2>6, <2>7, <2>8, <2>9
<1> QED
  BY <1>3, <1>4


\* What is sent next.
LEMMA NextPosition ==
  ASSUME TypeOK, Following, Len(todo) > 1, pc # "undefined"
  PROVE  /\ ~Quitting
         /\ Len(todo) <= Len(Script(call)) /\ Len(Script(call)) \in 1..4
         /\ todo[2] \in Transfers => Expecting \in {"PASV", "REST"}
         /\ todo[2] = "REST" => Expecting = "PASV"
         /\ \A j \in 1..Len(todo) - 1 : Tail(todo)[j] = todo[j + 1]
         /\ Tail(todo) \in Seq(Commands) /\ Len(Tail(todo)) = Len(todo) - 1
         /\ Tail(todo) # <<>> /\ Head(Tail(todo)) = todo[2] /\ todo[2] \in Commands
         /\ Script(call)[Len(Script(call)) - Len(todo) + 1] = Expecting
         /\ \A j \in 1..Len(todo) - 1 :
              Tail(todo)[j] = Script(call)[Len(Script(call)) - (Len(todo) - 1) + j]
<1>1. call \in [name : Names \cup {"Connect"}, at : 0..Length] /\ todo \in Seq(Commands)
  BY DEF TypeOK
<1>2. todo # <<>> /\ Len(todo) \in Nat
  BY <1>1, EmptyIs
<1>3. ~Quitting
  <2> SUFFICES ASSUME Quitting PROVE FALSE
    OBVIOUS
  <2>1. Len(<<"QUIT">>) = 1
    OBVIOUS
  <2>2. Len(todo) = 1
    BY <2>1, Zenon DEF Quitting
  <2>3. 1 > 1
    BY <2>2, Zenon
  <2> QED
    BY <2>3
<1>4. /\ Len(todo) <= Len(Script(call)) /\ Len(Script(call)) \in 1..4
      /\ \A j \in 1..Len(todo) : todo[j] = Script(call)[Len(Script(call)) - Len(todo) + j]
  BY <1>1, <1>2, <1>3, ScriptIs DEF Following
<1>5. /\ Tail(todo) \in Seq(Commands) /\ Len(Tail(todo)) = Len(todo) - 1
      /\ \A j \in 1..Len(Tail(todo)) : Tail(todo)[j] = todo[j + 1]
      /\ Expecting = todo[1]
  BY <1>1, <1>2, TailIs, Zenon DEF Expecting
<1>6. Tail(todo) # <<>> /\ Head(Tail(todo)) = todo[2] /\ todo[2] \in Commands
  <2>1. Len(Tail(todo)) > 0 /\ 1 \in 1..Len(Tail(todo)) /\ 1 + 1 = 2
    BY <1>2, <1>5
  <2>2. Tail(todo) # <<>>
    <3>1. Len(Tail(todo)) # 0
      BY <1>2, <1>5, <2>1
    <3> QED
      BY <1>5, <3>1, EmptyIs, Zenon
  <2>3. Head(Tail(todo)) = Tail(todo)[1] /\ Tail(todo)[1] \in Commands
    BY <1>5, <2>2, TailIs, Zenon
  <2> QED
    BY <1>5, <2>1, <2>2, <2>3
<1> DEFINE s == Script(call)
           p == Len(s) - Len(todo) + 2
<1>7. p \in 1..Len(s) /\ todo[2] = s[p] /\ p - 1 \in 1..Len(s) /\ todo[1] = s[p - 1]
  BY <1>2, <1>4
<1> HIDE DEF p
<1>8. /\ s[p] = "REST" => s[p - 1] = "PASV"
      /\ s[p] \in Transfers => s[p - 1] \in {"PASV", "REST"}
  BY <1>1, <1>7, ScriptIs, Zenon
<1>9. \A j \in 1..Len(todo) - 1 :
         Tail(todo)[j] = Script(call)[Len(Script(call)) - (Len(todo) - 1) + j]
  <2> SUFFICES ASSUME NEW j \in 1..Len(todo) - 1
               PROVE  Tail(todo)[j] = Script(call)[Len(Script(call)) - (Len(todo) - 1) + j]
    OBVIOUS
  <2>1. j + 1 \in 1..Len(todo) /\ j \in 1..Len(Tail(todo))
    BY <1>2, <1>5
  <2>2. Len(s) - Len(todo) + (j + 1) = Len(s) - (Len(todo) - 1) + j
    BY <1>2, <1>4
  <2> QED
    BY <1>4, <1>5, <2>1, <2>2
<1>10. Script(call)[Len(Script(call)) - Len(todo) + 1] = Expecting
  BY <1>2, <1>4, <1>5
<1> QED
  BY <1>2, <1>3, <1>4, <1>5, <1>6, <1>7, <1>8, <1>9, <1>10

-------------------------------------------------------------------------------
(* The steps of the data loops and of the data connection.                 *)

\* The script, as long as the operation stays where it is in it.
LEMMA FollowingKept ==
  ASSUME Following, UNCHANGED <<todo, call, calls, offset>>,
         pc' = pc \/ pc \notin {"idle", "undefined"}, Transferring' => Transferring,
         pc' = "reply" => pc = "reply" \/ Expecting \notin Transfers
  PROVE  Following'
<1>1. Script(call)' = Script(call)
  BY DEF Script, Access
<1>2. Expecting' = Expecting /\ Quitting' = Quitting
  BY DEF Expecting, Quitting
<1>3. todo' = todo /\ call' = call /\ calls' = calls /\ offset' = offset
  OBVIOUS
<1>4. /\ pc' # "undefined" => pc # "undefined" \/ pc' = pc
      /\ pc' # "idle" => pc # "idle"
  OBVIOUS
<1> QED
  BY <1>1, <1>2, <1>3, <1>4 DEF Following

\* What neither they nor the server's work at a transfer disturb.
LEMMA DataFrame ==
  ASSUME FtpInv, Transferring, Transferring', pc = "preliminary" <=> pc' = "preliminary",
         UNCHANGED <<handle, is_connected, offset, response, call, todo, address, result, commands,
                     replies, up, logged_in, listening, rest, job, from, calls, carried, strayed>>
  PROVE  /\ Untouched' /\ Following' /\ Numbers' /\ PasvOnce' /\ Doomed' /\ Announced'
         /\ OwnBefore' /\ InStep' /\ Done' /\ Hung' /\ Settled' /\ SuccessIsReal' /\ WholeFileMoved'
<1> USE DEF Transferring
<1>0. /\ Untouched /\ Following /\ Numbers /\ PasvOnce /\ Doomed /\ Announced
      /\ OwnBefore /\ InStep /\ Done /\ Hung
  BY DEF FtpInv
<1>1. Untouched' /\ Numbers'
  BY <1>0 DEF Untouched, Numbers, IsPasv
<1>2. Following'
  BY <1>0, FollowingKept
<1>3. PasvOnce'
  BY <1>0 DEF PasvOnce, PasvAhead, PasvSent, OwnPasv, IsPasv, Expecting
<1>4. Doomed' /\ Announced'
  BY <1>0 DEF Doomed, Announced, Own, IsPasv
<1>5. OwnBefore'
  BY DEF OwnBefore
<1>6. InStep' /\ Done'
  BY <1>0 DEF InStep, Done, Busy, PasvSent, Own, Expecting
<1>7. Settled' /\ SuccessIsReal' /\ WholeFileMoved'
  BY DEF Settled, SuccessIsReal, WholeFileMoved, Returned
<1>8. Hung'
  BY <1>0 DEF Hung, Expecting
<1> QED
  BY <1>1, <1>2, <1>3, <1>4, <1>5, <1>6, <1>7, <1>8

\* The types, in a step of the data loops or of the server's work at a transfer.
LEMMA DataTypes ==
  ASSUME TypeOK, Transferring, Transferring', nData' = (pc' \in {"preliminary", "data", "close"}),
         wire' \in 0..Length, moved' \in 0..Length, at_server' \in from..Length,
         cut' = cut \/ cut' \in {"disk", "reset"},
         UNCHANGED <<handle, is_connected, offset, response, call, todo, address, result, commands,
                     replies, up, logged_in, listening, rest, job, from, calls, carried, strayed>>
  PROVE  TypeOK'
<1>1. todo' # <<>> /\ pc' \notin {"start", "idle"}
  BY DEF TypeOK, Transferring
<1>2. (pc' \in {"start", "idle"}) = (todo' = <<>>)
  BY <1>1
<1>3. pc' \in {"start", "idle", "send", "reply", "preliminary", "data", "close", "final", "undefined"}
  BY DEF Transferring
<1>4. cut' \in {"no", "disk", "reset"}
  BY DEF TypeOK
<1>5. /\ handle' \in {"none", "open", "closed"} /\ is_connected' \in BOOLEAN /\ offset' \in 0..Length
      /\ response' \in Reply /\ call' \in [name : Names \cup {"Connect"}, at : 0..Length]
      /\ todo' \in Seq(Commands)
  BY Zenon DEF TypeOK
<1>6. /\ address' \in 0..MaxCalls /\ result' \in {"none", "ok", "failed", "list"}
      /\ commands' \in Seq(Command) /\ replies' \in Seq(Reply)
  BY Zenon DEF TypeOK, Command
<1>7. /\ up' \in BOOLEAN /\ logged_in' \in BOOLEAN /\ listening' \in -1..MaxCalls /\ rest' \in 0..Length
      /\ job' \in Transfers \cup {"none"}
  BY Zenon DEF TypeOK
<1>8. /\ from' \in 0..Length /\ at_server' \in from'..Length
      /\ calls' \in 0..MaxCalls /\ carried' \subseteq Commands /\ strayed' \in BOOLEAN
  BY Zenon DEF TypeOK
<1> QED
  BY <1>2, <1>3, <1>4, <1>5, <1>6, <1>7, <1>8, Zenon DEF TypeOK, Command

\* The transfer of the invariant, and the values it needs.
LEMMA DataFacts ==
  ASSUME FtpInv, Transferring
  PROVE  /\ TypeOK /\ Following /\ Jobs /\ OwnTransfer /\ OtherTransfer /\ Pieces
         /\ Expecting \in Transfers /\ todo # <<>> /\ calls > 0
         /\ Expecting = "STOR" => call.name = "Put" /\ offset = call.at
         /\ call.name \in {"Get", "GetRange"} => Reading /\ offset = call.at
         /\ Reading <=> Expecting # "STOR"
         /\ Length \in Nat /\ moved \in Nat /\ wire \in Nat /\ offset \in 0..Length
         /\ from \in Nat /\ at_server \in Nat /\ from <= at_server /\ at_server <= Length
         /\ call.at \in Nat
<1>1. TypeOK /\ Following /\ Jobs /\ OwnTransfer /\ OtherTransfer /\ Pieces
  BY DEF FtpInv
<1>2. Expecting \in Transfers /\ todo # <<>> /\ pc # "undefined"
  BY <1>1 DEF Following, Transferring, TypeOK
<1>3. call.name \in {"Get", "GetRange", "Put"} => offset = call.at
  BY <1>1 DEF Following, Transferring
<1>4. /\ calls > 0
      /\ \/ call.name \in {"Get", "GetRange"} /\ Expecting = "RETR"
         \/ call.name = "Put" /\ Expecting = "STOR"
         \/ call.name = "ListDir" /\ Expecting = "LIST"
  BY <1>1, <1>2, Position
<1>5. /\ Length \in Nat /\ moved \in Nat /\ wire \in Nat /\ offset \in 0..Length
      /\ from \in Nat /\ at_server \in Nat /\ from <= at_server /\ at_server <= Length
      /\ call.at \in Nat
  BY <1>1, Shapes DEF TypeOK
<1> QED
  BY <1>1, <1>2, <1>3, <1>4, <1>5 DEF Reading

\* A piece is read: moved and wire go on together.
LEMMA ReadPieceStep == ASSUME FtpInv, ReadPiece PROVE FtpInv'
<1> USE DEF Transferring
<1>1. /\ Transferring /\ Transferring' /\ pc = "data" /\ pc' \in {"data", "close"}
      /\ Reading /\ wire > 0 /\ wire' = wire - 1 /\ moved' = moved + 1
      /\ cut' = cut \/ (cut' = "disk" /\ call.name = "Get")
      /\ call.name = "Get" => pc' = "data" \/ cut' = "disk"
      /\ UNCHANGED <<handle, is_connected, offset, response, call, todo, nData, address, result,
                     commands, replies, up, logged_in, listening, rest, job, from, at_server,
                     calls, carried, strayed>>
  BY DEF ReadPiece, server
<1>2. /\ Untouched' /\ Following' /\ Numbers' /\ PasvOnce' /\ Doomed' /\ Announced'
      /\ OwnBefore' /\ InStep' /\ Done' /\ Hung' /\ Settled' /\ SuccessIsReal' /\ WholeFileMoved'
  BY <1>1, DataFrame
<1>0. /\ TypeOK /\ Following /\ Jobs /\ OwnTransfer /\ OtherTransfer /\ Pieces
      /\ Expecting \in Transfers /\ todo # <<>> /\ (Reading <=> Expecting # "STOR")
      /\ Length \in Nat /\ moved \in Nat /\ wire \in Nat /\ offset \in 0..Length
      /\ from \in Nat /\ at_server \in Nat /\ from <= at_server /\ at_server <= Length
  BY <1>1, DataFacts, Zenon
<1>3. moved + wire <= at_server - from
  BY <1>0, <1>1 DEF Pieces
<1>4. TypeOK'
  <2>0. /\ nData = (pc \in {"preliminary", "data", "close"})
        /\ moved \in 0..Length /\ wire \in 0..Length
    BY <1>0, Zenon DEF TypeOK
  <2>1. nData' = (pc' \in {"preliminary", "data", "close"})
    BY <1>1, <2>0
  <2>2. wire' \in 0..Length /\ moved' \in 0..Length /\ at_server' \in from..Length
    BY <1>0, <1>1, <1>3, <2>0
  <2> QED
    BY <1>0, <1>1, <2>1, <2>2, DataTypes
<1>5. Jobs' /\ OwnTransfer'
  BY <1>0, <1>1 DEF Jobs, OwnTransfer, Begun, Final, Own, Expecting, Reading
<1>6. OtherTransfer'
  BY <1>0, <1>1 DEF OtherTransfer, Own, Expecting, Reading
<1>7. Pieces'
  BY <1>0, <1>1, <1>3 DEF Pieces, Own, Expecting, Reading, Begun, Jobs
<1> QED
  BY <1>2, <1>4, <1>5, <1>6, <1>7 DEF FtpInv

\* The loop ends; the pieces on the wire are lost only with a mishap.
LEMMA ReadEndStep == ASSUME FtpInv, ReadEnd PROVE FtpInv'
<1> USE DEF Transferring
<1>1. /\ Transferring /\ Transferring' /\ pc = "data" /\ pc' = "close" /\ Reading /\ wire' = 0 /\ nData' = nData
      /\ cut' = "reset" \/ (cut' = cut /\ wire = 0 /\ job = "none")
      /\ UNCHANGED <<handle, is_connected, offset, response, call, todo, address, result,
                     commands, replies, up, logged_in, listening, rest, job, from,
                     calls, carried, strayed, moved, at_server>>
  BY DEF ReadEnd, server
<1>2. /\ Untouched' /\ Following' /\ Numbers' /\ PasvOnce' /\ Doomed' /\ Announced'
      /\ OwnBefore' /\ InStep' /\ Done' /\ Hung' /\ Settled' /\ SuccessIsReal' /\ WholeFileMoved'
  BY <1>1, DataFrame
<1>0. /\ TypeOK /\ Following /\ Jobs /\ OwnTransfer /\ OtherTransfer /\ Pieces
      /\ Expecting \in Transfers /\ todo # <<>> /\ (Reading <=> Expecting # "STOR")
      /\ (Expecting = "STOR" => call.name = "Put" /\ offset = call.at)
      /\ (call.name \in {"Get", "GetRange"} => Reading /\ offset = call.at)
      /\ Length \in Nat /\ moved \in Nat /\ wire \in Nat /\ offset \in 0..Length
      /\ from \in Nat /\ at_server \in Nat /\ from <= at_server /\ at_server <= Length
  BY <1>1, DataFacts, Zenon
<1>3. wire' + moved' <= at_server - from
  BY <1>0, <1>1 DEF Pieces
<1>4. TypeOK'
  <2>0. /\ nData = (pc \in {"preliminary", "data", "close"})
        /\ moved \in 0..Length /\ wire \in 0..Length
    BY <1>0, Zenon DEF TypeOK
  <2>1. nData' = (pc' \in {"preliminary", "data", "close"})
    BY <1>1, <2>0
  <2>2. wire' \in 0..Length /\ moved' \in 0..Length /\ at_server' \in from..Length
    BY <1>0, <1>1, <1>3, <2>0
  <2> QED
    BY <1>0, <1>1, <2>1, <2>2, DataTypes
<1>5. Jobs' /\ OwnTransfer'
  BY <1>0, <1>1, <1>3 DEF Jobs, OwnTransfer, Begun, Final, Own, Expecting, Reading
<1>6. OtherTransfer'
  BY <1>0, <1>1 DEF OtherTransfer, Own, Expecting, Reading, Jobs
<1>7. Pieces'
  BY <1>0, <1>1, <1>3 DEF Pieces, Own, Expecting, Reading, Begun, Jobs
<1> QED
  BY <1>2, <1>4, <1>5, <1>6, <1>7 DEF FtpInv

\* A piece is written: not more of them than the local file has.
LEMMA WritePieceStep == ASSUME FtpInv, WritePiece PROVE FtpInv'
<1> USE DEF Transferring
<1>1. /\ Transferring /\ Transferring' /\ pc = "data" /\ pc' = "data" /\ ~Reading
      /\ Expecting = "STOR" /\ moved < Length - call.at
      /\ wire' = wire + 1 /\ moved' = moved + 1
      /\ UNCHANGED <<handle, is_connected, offset, response, call, todo, address, result,
                     commands, replies, up, logged_in, listening, rest, job, from,
                     calls, carried, strayed, nData, at_server, cut>>
  BY DEF WritePiece, server, history, Reading
<1>2. /\ Untouched' /\ Following' /\ Numbers' /\ PasvOnce' /\ Doomed' /\ Announced'
      /\ OwnBefore' /\ InStep' /\ Done' /\ Hung' /\ Settled' /\ SuccessIsReal' /\ WholeFileMoved'
  BY <1>1, DataFrame
<1>0. /\ TypeOK /\ Following /\ Jobs /\ OwnTransfer /\ OtherTransfer /\ Pieces
      /\ Expecting \in Transfers /\ todo # <<>> /\ (Reading <=> Expecting # "STOR")
      /\ (Expecting = "STOR" => call.name = "Put" /\ offset = call.at)
      /\ (call.name \in {"Get", "GetRange"} => Reading /\ offset = call.at)
      /\ Length \in Nat /\ moved \in Nat /\ wire \in Nat /\ offset \in 0..Length
      /\ from \in Nat /\ at_server \in Nat /\ from <= at_server /\ at_server <= Length
  BY <1>1, DataFacts, Zenon
<1>3. wire <= moved /\ moved < Length - offset
  BY <1>0, <1>1 DEF Pieces
<1>4. TypeOK'
  <2>0. /\ nData = (pc \in {"preliminary", "data", "close"})
        /\ moved \in 0..Length /\ wire \in 0..Length
    BY <1>0, Zenon DEF TypeOK
  <2>1. nData' = (pc' \in {"preliminary", "data", "close"})
    BY <1>1, <2>0
  <2>2. wire' \in 0..Length /\ moved' \in 0..Length /\ at_server' \in from..Length
    BY <1>0, <1>1, <1>3, <2>0
  <2> QED
    BY <1>0, <1>1, <2>1, <2>2, DataTypes
<1>5. Jobs' /\ OwnTransfer'
  BY <1>0, <1>1, <1>3 DEF Jobs, OwnTransfer, Begun, Final, Own, Expecting, Reading
<1>6. OtherTransfer'
  BY <1>0, <1>1 DEF OtherTransfer, Own, Expecting, Reading, Jobs
<1>7. Pieces'
  BY <1>0, <1>1, <1>3 DEF Pieces, Own, Expecting, Reading, Begun, Jobs
<1> QED
  BY <1>2, <1>4, <1>5, <1>6, <1>7 DEF FtpInv

\* The loop ends at the end of the file, with a mishap, or because the server gave up.
LEMMA WriteEndStep == ASSUME FtpInv, WriteEnd PROVE FtpInv'
<1> USE DEF Transferring
<1>1. /\ Transferring /\ Transferring' /\ pc = "data" /\ pc' = "close" /\ ~Reading
      /\ Expecting = "STOR"
      /\ \/ cut' = "disk"
         \/ cut' = cut /\ (moved = Length - call.at \/ (job # "STOR" /\ commands = <<>>))
      /\ UNCHANGED <<handle, is_connected, offset, response, call, todo, address, result,
                     commands, replies, up, logged_in, listening, rest, job, from,
                     calls, carried, strayed, nData, moved, wire, at_server>>
  <2>1. Expecting = "STOR" /\ pc = "data" /\ pc' = "close"
    BY DEF WriteEnd
  <2> QED
    BY <2>1 DEF WriteEnd, server, Reading
<1>2. /\ Untouched' /\ Following' /\ Numbers' /\ PasvOnce' /\ Doomed' /\ Announced'
      /\ OwnBefore' /\ InStep' /\ Done' /\ Hung' /\ Settled' /\ SuccessIsReal' /\ WholeFileMoved'
  BY <1>1, DataFrame
<1>0. /\ TypeOK /\ Following /\ Jobs /\ OwnTransfer /\ OtherTransfer /\ Pieces
      /\ Expecting \in Transfers /\ todo # <<>> /\ (Reading <=> Expecting # "STOR")
      /\ (Expecting = "STOR" => call.name = "Put" /\ offset = call.at)
      /\ (call.name \in {"Get", "GetRange"} => Reading /\ offset = call.at)
      /\ Length \in Nat /\ moved \in Nat /\ wire \in Nat /\ offset \in 0..Length
      /\ from \in Nat /\ at_server \in Nat /\ from <= at_server /\ at_server <= Length
  BY <1>1, DataFacts, Zenon
<1>3. wire <= moved /\ moved <= Length - offset
  BY <1>0, <1>1 DEF Pieces
<1>4. TypeOK'
  <2>0. /\ nData = (pc \in {"preliminary", "data", "close"})
        /\ moved \in 0..Length /\ wire \in 0..Length
    BY <1>0, Zenon DEF TypeOK
  <2>1. nData' = (pc' \in {"preliminary", "data", "close"})
    BY <1>1, <2>0
  <2>2. wire' \in 0..Length /\ moved' \in 0..Length /\ at_server' \in from..Length
    BY <1>0, <1>1, <1>3, <2>0
  <2> QED
    BY <1>0, <1>1, <2>1, <2>2, DataTypes
<1>5. Jobs' /\ OwnTransfer'
  BY <1>0, <1>1, <1>3 DEF Jobs, OwnTransfer, Begun, Final, Own, Expecting, Reading
<1>6. OtherTransfer'
  BY <1>0, <1>1 DEF OtherTransfer, Own, Expecting, Reading, Jobs
<1>7. Pieces'
  <2>1. Own /\ job # "STOR" => job = "none" /\ ~(Len(replies) > 0 /\ replies[1].code = 2)
    <3>1. pc = "data" /\ ~Reading
      BY <1>1
    <3>2. Own => ~(Len(replies) >= 1 /\ replies[1].code = 2)
      BY <1>0, <3>1 DEF OwnTransfer, Begun, Final
    <3>3. job # "STOR" => job = "none"
      BY <1>0, <1>1 DEF Jobs
    <3>4. Len(replies) \in Nat
      BY <1>0, Shapes
    <3> QED
      BY <3>2, <3>3, <3>4
  <2> QED
    BY <1>0, <1>1, <1>3, <2>1 DEF Pieces, Own, Expecting, Reading
<1> QED
  BY <1>2, <1>4, <1>5, <1>6, <1>7 DEF FtpInv

\* The data connection is closed: what a reader has not read is gone.
LEMMA CloseDataStep == ASSUME FtpInv, CloseData PROVE FtpInv'
<1> USE DEF Transferring
<1>1. /\ Transferring /\ Transferring' /\ pc = "close" /\ pc' = "final" /\ nData' = FALSE
      /\ wire' = IF job = "STOR" THEN wire ELSE 0
      /\ UNCHANGED <<handle, is_connected, offset, response, call, todo, address, result,
                     commands, replies, up, logged_in, listening, rest, job, from,
                     calls, carried, strayed, moved, at_server, cut>>
  BY DEF CloseData, server, history
<1>2. /\ Untouched' /\ Following' /\ Numbers' /\ PasvOnce' /\ Doomed' /\ Announced'
      /\ OwnBefore' /\ InStep' /\ Done' /\ Hung' /\ Settled' /\ SuccessIsReal' /\ WholeFileMoved'
  BY <1>1, DataFrame
<1>0. /\ TypeOK /\ Following /\ Jobs /\ OwnTransfer /\ OtherTransfer /\ Pieces
      /\ Expecting \in Transfers /\ todo # <<>> /\ (Reading <=> Expecting # "STOR")
      /\ (Expecting = "STOR" => call.name = "Put" /\ offset = call.at)
      /\ (call.name \in {"Get", "GetRange"} => Reading /\ offset = call.at)
      /\ Length \in Nat /\ moved \in Nat /\ wire \in Nat /\ offset \in 0..Length
      /\ from \in Nat /\ at_server \in Nat /\ from <= at_server /\ at_server <= Length
  BY <1>1, DataFacts, Zenon
<1>3. wire' <= wire /\ wire' \in Nat /\ (job = "STOR" => wire' = wire) /\ (job # "STOR" => wire' = 0)
  BY <1>0, <1>1
<1>4. TypeOK'
  <2>0. /\ nData = (pc \in {"preliminary", "data", "close"})
        /\ moved \in 0..Length /\ wire \in 0..Length
    BY <1>0, Zenon DEF TypeOK
  <2>1. nData' = (pc' \in {"preliminary", "data", "close"})
    <3>1. (pc' \in {"preliminary", "data", "close"}) = FALSE
      BY <1>1
    <3> QED
      BY <1>1, <3>1, Zenon
  <2>2. wire' \in 0..Length /\ moved' \in 0..Length /\ at_server' \in from..Length
    BY <1>0, <1>1, <1>3, <2>0
  <2> QED
    BY <1>0, <1>1, <2>1, <2>2, DataTypes
<1>5. Jobs' /\ OwnTransfer'
  BY <1>0, <1>1, <1>3 DEF Jobs, OwnTransfer, Begun, Final, Own, Expecting, Reading
<1>6. OtherTransfer'
  BY <1>0, <1>1 DEF OtherTransfer, Own, Expecting, Reading, Jobs
<1>7. Pieces'
  <2>1. /\ pc = "close" /\ pc' = "final"
        /\ UNCHANGED <<todo, job, call, offset, cut, moved, at_server, from, replies, address, calls>>
    BY <1>1
  <2> QED
    <3>1. /\ Own' = Own /\ Expecting' = Expecting /\ Reading' = Reading /\ Transferring' /\ Transferring
      BY <1>1, <2>1 DEF Own, Expecting, Reading
    <3>2. /\ Reading => moved + wire <= at_server - from
          /\ ~Reading => wire <= moved /\ moved <= Length - offset
      BY <1>0, <2>1 DEF Pieces
    <3>0. moved \in Int /\ wire \in Int /\ wire' \in Int /\ at_server - from \in Int /\ wire' <= wire
      BY <1>0, <1>3
    <3>3. Reading => moved + wire' <= at_server - from
      BY <3>0, <3>2
    <3>4. ~Reading => wire' <= moved /\ moved <= Length - offset
      BY <3>0, <3>2
    <3>5. Own /\ call.name = "Get" /\ cut = "no" => job = "none" /\ moved = at_server - from
      BY <1>0, <2>1 DEF Pieces
    <3>6. job = "STOR" => at_server - from = moved - wire'
      BY <1>0, <1>3, <3>1 DEF Pieces
    <3>7. Own /\ ~Reading /\ cut = "no" =>
            moved = Length - offset \/ (job = "none" /\ ~(Len(replies) > 0 /\ replies[1].code = 2))
      BY <1>0, <2>1 DEF Pieces
    <3> QED
      BY <1>3, <2>1, <3>1, <3>3, <3>4, <3>5, <3>6, <3>7 DEF Pieces
<1> QED
  BY <1>2, <1>4, <1>5, <1>6, <1>7 DEF FtpInv

\* The server sends a piece to the client that waits for this transfer.
LEMMA SendPieceStep == ASSUME FtpInv, SendPiece PROVE FtpInv'
<1> USE DEF Transferring
<1>1. /\ Transferring /\ Transferring' /\ pc' = pc /\ Reading /\ job \in {"RETR", "LIST"}
      /\ nData /\ at_server < Length /\ at_server' = at_server + 1 /\ wire' = wire + 1
      /\ UNCHANGED <<handle, is_connected, offset, response, call, todo, address, result,
                     commands, replies, up, logged_in, listening, rest, job, from,
                     calls, carried, strayed, pc, nData, moved, cut>>
  BY DEF SendPiece, client, history, FtpInv, Jobs, Reading
<1>2. /\ Untouched' /\ Following' /\ Numbers' /\ PasvOnce' /\ Doomed' /\ Announced'
      /\ OwnBefore' /\ InStep' /\ Done' /\ Hung' /\ Settled' /\ SuccessIsReal' /\ WholeFileMoved'
  BY <1>1, DataFrame
<1>0. /\ TypeOK /\ Following /\ Jobs /\ OwnTransfer /\ OtherTransfer /\ Pieces
      /\ Expecting \in Transfers /\ todo # <<>> /\ (Reading <=> Expecting # "STOR")
      /\ (Expecting = "STOR" => call.name = "Put" /\ offset = call.at)
      /\ (call.name \in {"Get", "GetRange"} => Reading /\ offset = call.at)
      /\ Length \in Nat /\ moved \in Nat /\ wire \in Nat /\ offset \in 0..Length
      /\ from \in Nat /\ at_server \in Nat /\ from <= at_server /\ at_server <= Length
  BY <1>1, DataFacts, Zenon
<1>3. /\ moved + wire <= at_server - from /\ Own /\ Begun
      /\ pc \in {"preliminary", "data", "close"}
  BY <1>0, <1>1 DEF Pieces, Jobs, TypeOK
<1>4. TypeOK'
  <2>0. /\ nData = (pc \in {"preliminary", "data", "close"})
        /\ moved \in 0..Length /\ wire \in 0..Length
    BY <1>0, Zenon DEF TypeOK
  <2>1. nData' = (pc' \in {"preliminary", "data", "close"})
    BY <1>1, <2>0, Zenon
  <2>2. wire' \in 0..Length /\ moved' \in 0..Length /\ at_server' \in from..Length
    BY <1>0, <1>1, <1>3, <2>0
  <2> QED
    BY <1>0, <1>1, <2>1, <2>2, DataTypes
<1>5. Jobs' /\ OwnTransfer'
  BY <1>0, <1>1, <1>3 DEF Jobs, OwnTransfer, Begun, Final, Own, Expecting, Reading
<1>6. OtherTransfer'
  BY <1>0, <1>1 DEF OtherTransfer, Own, Expecting, Reading, Jobs
<1>7. Pieces'
  BY <1>0, <1>1, <1>3 DEF Pieces, Own, Expecting, Reading, Begun, Jobs
<1> QED
  BY <1>2, <1>4, <1>5, <1>6, <1>7 DEF FtpInv

\* The server stores a piece.
LEMMA StorePieceStep == ASSUME FtpInv, StorePiece PROVE FtpInv'
<1> USE DEF Transferring
<1>1. /\ Transferring /\ Transferring' /\ pc' = pc /\ ~Reading /\ job = "STOR" /\ wire > 0
      /\ at_server' = at_server + 1 /\ wire' = wire - 1
      /\ UNCHANGED <<handle, is_connected, offset, response, call, todo, address, result,
                     commands, replies, up, logged_in, listening, rest, job, from,
                     calls, carried, strayed, pc, nData, moved, cut>>
  BY DEF StorePiece, client, history, FtpInv, Jobs, Reading
<1>2. /\ Untouched' /\ Following' /\ Numbers' /\ PasvOnce' /\ Doomed' /\ Announced'
      /\ OwnBefore' /\ InStep' /\ Done' /\ Hung' /\ Settled' /\ SuccessIsReal' /\ WholeFileMoved'
  BY <1>1, DataFrame
<1>0. /\ TypeOK /\ Following /\ Jobs /\ OwnTransfer /\ OtherTransfer /\ Pieces
      /\ Expecting \in Transfers /\ todo # <<>> /\ (Reading <=> Expecting # "STOR")
      /\ (Expecting = "STOR" => call.name = "Put" /\ offset = call.at)
      /\ (call.name \in {"Get", "GetRange"} => Reading /\ offset = call.at)
      /\ Length \in Nat /\ moved \in Nat /\ wire \in Nat /\ offset \in 0..Length
      /\ from \in Nat /\ at_server \in Nat /\ from <= at_server /\ at_server <= Length
  BY <1>1, DataFacts, Zenon
<1>3. /\ at_server - from = moved - wire /\ wire <= moved /\ moved <= Length - offset
      /\ Own /\ Begun /\ from = offset
  BY <1>0, <1>1 DEF Pieces, Jobs, OwnTransfer
<1>4. TypeOK'
  <2>0. /\ nData = (pc \in {"preliminary", "data", "close"})
        /\ moved \in 0..Length /\ wire \in 0..Length
    BY <1>0, Zenon DEF TypeOK
  <2>1. nData' = (pc' \in {"preliminary", "data", "close"})
    BY <1>1, <2>0, Zenon
  <2>2. wire' \in 0..Length /\ moved' \in 0..Length /\ at_server' \in from..Length
    BY <1>0, <1>1, <1>3, <2>0
  <2> QED
    BY <1>0, <1>1, <2>1, <2>2, DataTypes
<1>5. Jobs' /\ OwnTransfer'
  BY <1>0, <1>1, <1>3 DEF Jobs, OwnTransfer, Begun, Final, Own, Expecting, Reading
<1>6. OtherTransfer'
  BY <1>0, <1>1 DEF OtherTransfer, Own, Expecting, Reading, Jobs
<1>7. Pieces'
  BY <1>0, <1>1, <1>3 DEF Pieces, Own, Expecting, Reading, Begun, Jobs
<1> QED
  BY <1>2, <1>4, <1>5, <1>6, <1>7 DEF FtpInv

-------------------------------------------------------------------------------
(* The steps in which an operation goes on or ends, and the session is left *)
(* alone but for a reply that is read.                                      *)

\* The replies that are left when k of them have been read.
Left(k) ==
  /\ Len(replies') = Len(replies) - k
  /\ \A i \in 1..Len(replies') : replies'[i] = replies[i + k]

\* The replies that are left, by their places.
LEMMA LeftIs ==
  ASSUME TypeOK, NEW k \in {0, 1}, Left(k)
  PROVE  /\ Len(replies) \in Nat /\ Len(replies') = Len(replies) - k
         /\ \A i \in 1..Len(replies') : replies'[i] = replies[i + k] /\ i + k \in 1..Len(replies)
         /\ (replies = <<>> <=> Len(replies) = 0)
<1>1. Len(replies) \in Nat /\ (replies = <<>> <=> Len(replies) = 0)
  BY Shapes
<1>2. /\ Len(replies') = Len(replies) - k
      /\ \A i \in 1..Len(replies') : replies'[i] = replies[i + k] /\ i + k \in 1..Len(replies)
  BY <1>1 DEF Left
<1> QED
  BY <1>1, <1>2

\* The transfer, if there was one, is over; what is in the session has not changed.
Over(k) ==
  /\ job = "none" /\ wire = 0
  /\ pc = "preliminary" => (Own => commands = <<>>) /\ (k = 1 \/ replies = <<>>)
  /\ pc = "reply" => Expecting # "QUIT"
  /\ pc # "start"
  /\ pc' \in {"idle", "send", "undefined"}
  /\ pc' = "send" => moved' = 0
  /\ UNCHANGED <<call, calls, commands, listening, up, rest, job, wire, from, at_server, strayed>>

\* What a step that only reads replies leaves as it was.
LEMMA SessionFrame ==
  ASSUME FtpInv, NEW k \in {0, 1}, Left(k), Over(k), address' <= calls
  PROVE  /\ Untouched' /\ Numbers' /\ Doomed' /\ Jobs' /\ Hung' /\ Announced'
         /\ OwnTransfer' /\ OtherTransfer' /\ Pieces'
<1>0. /\ TypeOK /\ Untouched /\ Numbers /\ Doomed /\ Jobs /\ Hung /\ Announced
  BY DEF FtpInv
<1>1. /\ Len(replies) \in Nat /\ Len(replies') = Len(replies) - k
      /\ \A i \in 1..Len(replies') : replies'[i] = replies[i + k] /\ i + k \in 1..Len(replies)
      /\ (replies = <<>> <=> Len(replies) = 0)
  BY <1>0, LeftIs, Zenon
<1>2. Untouched'
  BY DEF Untouched, Over
<1>3. Numbers'
  <2>1. \A i \in 1..Len(replies') : replies'[i].call <= calls
    BY <1>0, <1>1 DEF Numbers
  <2> QED
    BY <1>0, <2>1 DEF Numbers, Over, IsPasv
<1>4. Doomed'
  <2>1. pc = "preliminary" /\ Own => Len(commands) = 0
    BY <1>0, Shapes DEF Over
  <2>2. UNCHANGED <<commands, listening>>
    BY DEF Over
  <2> HIDE DEF Over
  <2>3. ASSUME NEW i \in 1..Len(commands), commands[i].cmd \in Transfers, commands[i].data # 0
        PROVE  /\ \A j \in 1..Len(commands) : IsPasv(commands, j) => commands[j].call > commands[i].data
               /\ commands[i].data < commands[i].call
               /\ \/ listening # commands[i].data
                  \/ \E j \in 1..Len(commands) : j < i /\ IsPasv(commands, j)
    <3>1. ~(pc = "preliminary" /\ Own)
      BY <2>1
    <3> QED
      BY <1>0, <2>3, <3>1, Zenon DEF Doomed
  <2> QED
    BY <2>2, <2>3 DEF Doomed, IsPasv
<1>5. Jobs'
  BY DEF Jobs, Over
<1>6. Hung'
  BY <1>0 DEF Hung, Over
<1>7. Announced'
  <2> SUFFICES ASSUME NEW i \in 1..Len(replies'), replies'[i].code = 1
               PROVE  i < Len(replies') /\ replies'[i + 1].code = 4
    BY DEF Announced
  <2>1. replies[i + k].code = 1 /\ i + k \in 1..Len(replies)
    BY <1>1
  <2>2. ~(pc = "preliminary" /\ Own /\ i + k = 1)
    BY <1>1, <2>1 DEF Over
  <2>3. i + k < Len(replies) /\ replies[i + k + 1].code = 4
    BY <1>0, <2>1, <2>2 DEF Announced
  <2>4. i < Len(replies') /\ i + 1 \in 1..Len(replies') /\ i + 1 + k = i + k + 1
    BY <1>1, <2>3
  <2> QED
    BY <1>1, <2>3, <2>4
<1>8. OwnTransfer' /\ OtherTransfer' /\ Pieces'
  BY DEF OwnTransfer, OtherTransfer, Pieces, Transferring, Over
<1> QED
  BY <1>2, <1>3, <1>4, <1>5, <1>6, <1>7, <1>8

\* An operation ends without success.
LEMMA EndStep ==
  ASSUME FtpInv, TypeOK', NEW k \in {0, 1}, Left(k), Over(k),
         pc' = "idle", todo' = <<>>, address' = address,
         ~strayed => commands = <<>> /\ \A i \in 1..Len(replies') : replies'[i].code = 4 /\ ~up,
         Settled', SuccessIsReal', WholeFileMoved'
  PROVE  FtpInv'
<1>0. /\ TypeOK /\ Following /\ Numbers
  BY DEF FtpInv
<1>1. /\ Untouched' /\ Numbers' /\ Doomed' /\ Jobs' /\ Hung' /\ Announced'
      /\ OwnTransfer' /\ OtherTransfer' /\ Pieces'
  <2>1. address' <= calls
    BY <1>0 DEF Numbers
  <2> QED
    BY <2>1, SessionFrame
<1>2. Len(todo') = 0
  OBVIOUS
<1>3. Following'
  BY <1>0 DEF Following, Over, Transferring
<1>4. PasvOnce' /\ OwnBefore'
  BY <1>2 DEF PasvOnce, OwnBefore, PasvAhead, PasvSent
<1>5. InStep' /\ Done'
  BY DEF InStep, Done, Busy, PasvSent, Transferring, Over
<1> QED
  BY <1>1, <1>3, <1>4, <1>5 DEF FtpInv

\* Where nothing strayed, what is left behind an answer was sent at the end of the session.
LEMMA NothingLeft ==
  ASSUME FtpInv, NEW k \in {0, 1}, Left(k), pc \in {"send", "reply"},
         k = 0 => pc = "send" \/ (replies = <<>> /\ ~up), k = 1 => pc = "reply" /\ replies # <<>>
  PROVE  ~strayed => commands = <<>> /\ \A i \in 1..Len(replies') : replies'[i].code = 4 /\ ~up
<1>0. TypeOK /\ InStep /\ Hung
  BY DEF FtpInv
<1>1. /\ Len(replies) \in Nat /\ Len(replies') = Len(replies) - k
      /\ \A i \in 1..Len(replies') : replies'[i] = replies[i + k] /\ i + k \in 1..Len(replies)
      /\ (replies = <<>> <=> Len(replies) = 0)
  BY <1>0, LeftIs, Zenon
<1> SUFFICES ASSUME ~strayed
             PROVE  commands = <<>> /\ \A i \in 1..Len(replies') : replies'[i].code = 4 /\ ~up
  OBVIOUS
<1>2. commands = <<>>
  BY <1>0 DEF InStep, Hung
<1>3. ASSUME NEW i \in 1..Len(replies') PROVE replies'[i].code = 4 /\ ~up
  <2>1. i + k \in 1..Len(replies) /\ replies'[i] = replies[i + k] /\ (k = 1 => i + k # 1)
    BY <1>1
  <2> QED
    BY <1>0, <1>1, <2>1 DEF InStep
<1> QED
  BY <1>2, <1>3

\* When one command less is to be sent, one place more of the script is behind.
LEMMA OneLess ==
  ASSUME NEW n \in Int, NEW l \in Int, NEW i \in Int, i <= n - (l - 1)
  PROVE  i <= n - l \/ i = n - l + 1
OBVIOUS

\* The command was answered as expected, or CWD was not, and the next one is due.
Advances(k) ==
  /\ pc \in {"send", "reply"}
  /\ k = 0 => pc = "send" \/ (replies = <<>> /\ ~up)
  /\ k = 1 => pc = "reply" /\ replies # <<>>
  /\ pc' = "send" /\ Len(todo) > 1 /\ todo' = Tail(todo) /\ UNCHANGED <<offset, carried>>
  /\ \/ Expecting = "CWD" /\ address' = address
     \/ /\ k = 1 /\ Usable(Expecting, replies[1])
        /\ address' = IF Expecting = "PASV" THEN replies[1].call ELSE address

\* The operation goes on to its next command: the invariant holds with the new Expecting.
LEMMA AdvanceStep ==
  ASSUME FtpInv, TypeOK', NEW k \in {0, 1}, Left(k), Over(k), Advances(k)
  PROVE  FtpInv'
<1>0. /\ TypeOK /\ Following /\ Numbers /\ PasvOnce /\ OwnBefore /\ InStep /\ Done
  BY DEF FtpInv
<1>1. /\ Len(replies) \in Nat /\ Len(replies') = Len(replies) - k
      /\ \A i \in 1..Len(replies') : replies'[i] = replies[i + k] /\ i + k \in 1..Len(replies)
      /\ (replies = <<>> <=> Len(replies) = 0)
      /\ (k = 1 => 1 \in 1..Len(replies))
      /\ Len(todo) \in Nat /\ calls \in Nat /\ address \in Nat
  <2>1. /\ Len(replies) \in Nat /\ Len(replies') = Len(replies) - k
        /\ \A i \in 1..Len(replies') : replies'[i] = replies[i + k] /\ i + k \in 1..Len(replies)
        /\ (replies = <<>> <=> Len(replies) = 0)
    BY <1>0, LeftIs, Zenon
  <2>2. k = 1 => 1 \in 1..Len(replies)
    BY <2>1 DEF Advances
  <2>3. Len(todo) \in Nat /\ calls \in Nat /\ address \in Nat
    BY <1>0, Shapes
  <2> QED
    BY <2>1, <2>2, <2>3
<1>2. /\ ~Quitting
      /\ Len(todo) <= Len(Script(call)) /\ Len(Script(call)) \in 1..4
      /\ todo[2] \in Transfers => Expecting \in {"PASV", "REST"}
      /\ todo[2] = "REST" => Expecting = "PASV"
      /\ Len(todo') = Len(todo) - 1 /\ todo' # <<>> /\ Expecting' = todo[2]
      /\ \A j \in 1..Len(todo') : todo'[j] = todo[j + 1]
      /\ Script(call)[Len(Script(call)) - Len(todo) + 1] = Expecting
      /\ \A j \in 1..Len(todo') : todo'[j] = Script(call)[Len(Script(call)) - Len(todo') + j]
  <2>1. Len(todo) > 1 /\ pc # "undefined" /\ todo' = Tail(todo)
    BY DEF Advances
  <2> HIDE DEF Expecting
  <2>2. Expecting' = Head(todo')
    BY DEF Expecting
  <2>3. /\ Tail(todo) # <<>> /\ Head(Tail(todo)) = todo[2] /\ Len(Tail(todo)) = Len(todo) - 1
        /\ todo[2] \in Transfers => Expecting \in {"PASV", "REST"}
        /\ todo[2] = "REST" => Expecting = "PASV"
        /\ ~Quitting
        /\ Len(todo) <= Len(Script(call)) /\ Len(Script(call)) \in 1..4
        /\ Script(call)[Len(Script(call)) - Len(todo) + 1] = Expecting
        /\ \A j \in 1..Len(todo) - 1 : Tail(todo)[j] = todo[j + 1]
        /\ \A j \in 1..Len(todo) - 1 :
              Tail(todo)[j] = Script(call)[Len(Script(call)) - (Len(todo) - 1) + j]
    BY <1>0, <2>1, NextPosition, Zenon
  <2> QED
    BY <2>1, <2>2, <2>3, Zenon
<1>3. /\ Expecting = "PASV" => (todo[2] \in Transfers => offset = 0)
      /\ Expecting = "CWD" => call.name = "ListDir"
      /\ Expecting = "NOOP" => call.name = "Noop"
      /\ Expecting = "HELLO" => call.name = "Connect"
  <2>1. todo # <<>> /\ pc # "undefined"
    BY <1>0, Shapes DEF Advances
  <2> QED
    BY <1>0, <2>1, Position, Zenon
<1>4. UNCHANGED <<call, calls, commands, listening, up, rest, strayed>> /\ job = "none"
  BY DEF Over
<1>5. address' <= calls
  BY <1>0, <1>1 DEF Numbers, Advances
<1>p. /\ pc \in {"send", "reply"} /\ pc' = "send" /\ UNCHANGED <<offset, carried>>
      /\ k = 0 => pc = "send" \/ (replies = <<>> /\ ~up)
      /\ k = 1 => pc = "reply" /\ replies # <<>>
  BY DEF Advances
<1>q. \/ Expecting = "CWD" /\ address' = address
      \/ /\ k = 1 /\ Usable(Expecting, replies[1])
         /\ address' = IF Expecting = "PASV" THEN replies[1].call ELSE address
  BY DEF Advances
<1>6. /\ Untouched' /\ Numbers' /\ Doomed' /\ Jobs' /\ Hung' /\ Announced'
      /\ OwnTransfer' /\ OtherTransfer' /\ Pieces'
  BY <1>5, SessionFrame
<1>7. Following'
  <2>0. Script(call)' = Script(call)
    BY <1>4 DEF Script, Access
  <2>1. /\ Len(todo') <= Len(Script(call)')
        /\ \A j \in 1..Len(todo') : todo'[j] = Script(call)'[Len(Script(call)') - Len(todo') + j]
    <3>1. Len(todo') <= Len(Script(call))
      BY <1>1, <1>2
    <3> QED
      BY <1>2, <2>0, <3>1, Zenon
  <2>2. /\ call'.name = "Connect" <=> calls' = 0
        /\ call'.name \in {"Get", "GetRange", "Put"} => offset' = call'.at
        /\ call'.name = "ListDir" => offset' = 0
    BY <1>0, <1>4, <1>p DEF Following
  <2>3. ~Transferring' /\ pc' # "reply"
    BY <1>p DEF Transferring
  <2> QED
    BY <2>1, <2>2, <2>3, Zenon DEF Following
<1>8. PasvAhead' => PasvAhead
  <2> SUFFICES ASSUME NEW j \in 1..Len(todo'), todo'[j] = "PASV" PROVE PasvAhead
    BY DEF PasvAhead
  <2>1. j + 1 \in 1..Len(todo) /\ j + 1 > 1 /\ todo[j + 1] = "PASV"
    BY <1>1, <1>2
  <2> QED
    BY <2>1, Zenon DEF PasvAhead
<1>9. PasvSent' => /\ PasvSent /\ pc = "reply" /\ k = 1
                   /\ Expecting \in {"PASV", "REST"} /\ Expecting' = todo[2]
                   /\ Usable(Expecting, replies[1])
                   /\ address' = IF Expecting = "PASV" THEN replies[1].call ELSE address
  BY <1>2, <1>p, <1>q DEF PasvSent
<1>10. PasvOnce'
  <2>1. PasvAhead' =>
          /\ \A i \in 1..Len(commands) : ~OwnPasv(commands, i)
          /\ \A i \in 1..Len(replies) : ~OwnPasv(replies, i)
          /\ listening # calls
    BY <1>0, <1>8 DEF PasvOnce
  <2>2. PasvAhead' => \A i \in 1..Len(replies') : ~OwnPasv(replies, i)'
    BY <1>1, <1>4, <2>1 DEF OwnPasv
  <2>3. PasvSent' /\ up =>
          \/ \E i \in 1..Len(commands) : OwnPasv(commands, i)
          \/ listening \in {-1, calls} /\ \A i \in 1..Len(commands) : ~IsPasv(commands, i)
    BY <1>0, <1>9 DEF PasvOnce
  <2> QED
    BY <1>4, <1>p, <2>1, <2>2, <2>3 DEF PasvOnce, OwnPasv, IsPasv
<1>11. OwnBefore'
  <2> SUFFICES ASSUME Expecting' \in Transfers \cup {"REST"}, Own', up
               PROVE  /\ commands = <<>> /\ replies' = <<>> /\ listening = calls
                      /\ Expecting' \in Transfers => rest = offset
    BY <1>4, <1>p DEF OwnBefore
  <2>1. /\ PasvSent /\ pc = "reply" /\ k = 1 /\ Expecting \in {"PASV", "REST"} /\ Expecting' = todo[2]
        /\ Usable(Expecting, replies[1]) /\ 1 \in 1..Len(replies)
        /\ address' = IF Expecting = "PASV" THEN replies[1].call ELSE address
    BY <1>1, <1>9, <1>p DEF PasvSent
  <2>2. CASE Expecting = "PASV"
    <3>1. OwnPasv(replies, 1) /\ replies[1].code = 2
      BY <1>4, <2>1, <2>2 DEF OwnPasv, Usable, Expected, Own
    <3>2. commands = <<>> /\ 1 = Len(replies) /\ listening = calls /\ rest = 0
      BY <1>0, <2>1, <2>2, <3>1 DEF PasvOnce
    <3>3. Len(replies') = 0 /\ replies' \in Seq(Reply)
      <4>1. Len(replies') = 1 - 1
        BY <1>1, <2>1, <3>2, Zenon
      <4> QED
        BY <4>1 DEF TypeOK
    <3> QED
      BY <1>3, <2>1, <2>2, <3>2, <3>3, EmptyIs
  <2>3. CASE Expecting = "REST"
    <3>1. Own /\ replies[1].code = 3
      BY <1>4, <2>1, <2>3 DEF Usable, Expected, Own
    <3>2. listening = calls /\ commands = <<>> /\ Len(replies) = 1 /\ rest = offset
      BY <1>0, <1>1, <2>1, <2>3, <3>1 DEF OwnBefore
    <3>3. Len(replies') = 0 /\ replies' \in Seq(Reply)
      <4>1. Len(replies') = 1 - 1
        BY <1>1, <2>1, <3>2, Zenon
      <4> QED
        BY <4>1 DEF TypeOK
    <3> QED
      BY <3>2, <3>3, EmptyIs
  <2> QED
    BY <2>1, <2>2, <2>3
<1>12. ~strayed => commands = <<>> /\ \A i \in 1..Len(replies') : replies'[i].code = 4 /\ ~up
  BY <1>p, NothingLeft
<1>13. ~strayed /\ pc = "reply" /\ k = 1 =>
         \/ replies[1].code = 4
         \/ /\ replies[1].cmd = Expecting /\ replies[1].call = calls
            /\ replies[1].code \in {2, 3} => Expecting \in carried \cup {"HELLO"}
  BY <1>0, <1>1 DEF InStep
<1>14. InStep'
  <2>1. ~strayed /\ PasvSent' => Own'
    <3> SUFFICES ASSUME ~strayed, PasvSent' PROVE Own'
      OBVIOUS
    <3>1. CASE Expecting = "PASV"
      BY <1>4, <1>9, <1>13, <3>1 DEF Own, Usable, Expected
    <3>2. CASE Expecting = "REST"
      BY <1>0, <1>4, <1>9, <3>2 DEF Own, InStep
    <3> QED
      BY <1>9, <3>1, <3>2
  <2> QED
    BY <1>4, <1>12, <1>p, <2>1 DEF InStep, Transferring
<1>15. Done'
  <2> SUFFICES ASSUME ~strayed, call.name \in Strict,
                      NEW i \in 1..Len(Script(call)), i <= Len(Script(call)) - Len(todo')
               PROVE  Script(call)[i] \in carried
    BY <1>4, <1>p DEF Done
  <2>1. CASE i <= Len(Script(call)) - Len(todo)
    BY <1>0, <1>p, <2>1 DEF Done, Busy
  <2>2. CASE i = Len(Script(call)) - Len(todo) + 1
    <3>1. Script(call)[i] = Expecting /\ Expecting \notin {"CWD", "NOOP", "HELLO"}
      BY <1>2, <1>3, <2>2 DEF Strict
    <3>2. replies[1].code \in {2, 3} /\ pc = "reply" /\ k = 1
      BY <1>p, <1>q, <3>1 DEF Usable, Expected
    <3> QED
      BY <1>13, <3>1, <3>2
  <2>3. i <= Len(Script(call)) - Len(todo) \/ i = Len(Script(call)) - Len(todo) + 1
    <3>1. i <= Len(Script(call)) - (Len(todo) - 1)
      BY <1>2, Zenon
    <3>2. Len(Script(call)) \in Int /\ i \in Int /\ Len(todo) \in Int
      BY <1>1, <1>2
    <3> QED
      BY <3>1, <3>2, OneLess, Zenon
  <2> QED
    BY <2>1, <2>2, <2>3
<1>16. Settled' /\ SuccessIsReal' /\ WholeFileMoved'
  BY <1>p DEF Settled, SuccessIsReal, WholeFileMoved, Returned
<1> QED
  BY <1>6, <1>7, <1>10, <1>11, <1>14, <1>15, <1>16 DEF FtpInv

\* Connect gives up, or the client goes on with a handle that was never set.
Deviates(k) ==
  /\ pc \in {"send", "reply"}
  /\ k = 0 => pc = "send" \/ (replies = <<>> /\ ~up)
  /\ k = 1 => pc = "reply" /\ replies # <<>>
  /\ UNCHANGED <<offset, carried, address>>
  /\ \/ pc' = "send" /\ todo' = <<"QUIT">> /\ call.name = "Connect"
     \/ pc' = "undefined" /\ Expecting = "REST" /\ todo' = todo

\* The operation leaves its script, for QUIT or for a data handle never set.
LEMMA DeviateStep ==
  ASSUME FtpInv, TypeOK', NEW k \in {0, 1}, Left(k), Over(k), Deviates(k)
  PROVE  FtpInv'
<1>0. /\ TypeOK /\ Following /\ Numbers
  BY DEF FtpInv
<1>1. UNCHANGED <<call, calls, commands, listening, up, rest, strayed>>
  BY DEF Over
<1>2. /\ pc \in {"send", "reply"} /\ pc' \in {"send", "undefined"}
      /\ UNCHANGED <<offset, carried, address>>
      /\ k = 0 => pc = "send" \/ (replies = <<>> /\ ~up)
      /\ k = 1 => pc = "reply" /\ replies # <<>>
  BY DEF Deviates
<1>3. /\ Untouched' /\ Numbers' /\ Doomed' /\ Jobs' /\ Hung' /\ Announced'
      /\ OwnTransfer' /\ OtherTransfer' /\ Pieces'
  <2>1. address' <= calls
    BY <1>0, <1>2 DEF Numbers
  <2> QED
    BY <2>1, SessionFrame
<1>4. \/ pc' = "undefined" /\ todo' = todo
      \/ pc' = "send" /\ todo' = <<"QUIT">> /\ call.name = "Connect" /\ Expecting' = "QUIT"
  BY DEF Deviates, Expecting
<1>5. \A j \in 1..Len(todo') : todo'[j] # "PASV"
  <2>1. CASE pc' = "undefined"
    <3>1. todo # <<>> /\ pc # "undefined" /\ Expecting = "REST" /\ todo' = todo
      BY <1>0, <1>2, <2>1, Shapes DEF Deviates, TypeOK
    <3> QED
      BY <1>0, <3>1, Position, Zenon
  <2>2. CASE todo' = <<"QUIT">>
    BY <2>2
  <2> QED
    BY <1>4, <2>1, <2>2
<1>6. Following'
  <2>1. ~Transferring' /\ pc' # "reply" /\ pc # "idle"
    BY <1>2 DEF Transferring
  <2>2. pc' # "undefined" => Quitting'
    BY <1>1, <1>2, <1>4 DEF Quitting
  <2>3. /\ call'.name = "Connect" <=> calls' = 0
        /\ call'.name \in {"Get", "GetRange", "Put"} => offset' = call'.at
        /\ call'.name = "ListDir" => offset' = 0
    BY <1>0, <1>1, <1>2, <2>1 DEF Following
  <2> QED
    BY <2>1, <2>2, <2>3, Zenon DEF Following
<1>7. ~PasvAhead' /\ ~PasvSent'
  BY <1>2, <1>4, <1>5 DEF PasvAhead, PasvSent, Transfers
<1>8. PasvOnce' /\ OwnBefore'
  BY <1>2, <1>4, <1>7 DEF PasvOnce, OwnBefore, Transfers
<1>9. ~strayed => commands = <<>> /\ \A i \in 1..Len(replies') : replies'[i].code = 4 /\ ~up
  BY <1>2, NothingLeft
<1>10. InStep'
  BY <1>1, <1>2, <1>7, <1>9 DEF InStep, Transferring
<1>11. Done'
  BY <1>1, <1>2, <1>4 DEF Done, Busy, Strict
<1>12. Settled' /\ SuccessIsReal' /\ WholeFileMoved'
  BY <1>2 DEF Settled, SuccessIsReal, WholeFileMoved, Returned
<1> QED
  BY <1>3, <1>6, <1>8, <1>10, <1>11, <1>12 DEF FtpInv

\* The control connection is closed, by the client.
LEMMA CloseStep ==
  ASSUME FtpInv, TypeOK', pc \in {"send", "reply"}, pc' = "idle", todo' = <<>>,
         replies' = <<>>, commands' = <<>>, ~up', listening' \in {-1, listening}, job' = "none",
         UNCHANGED <<call, calls, wire, strayed>>, address' <= calls,
         Settled', SuccessIsReal', WholeFileMoved'
  PROVE  FtpInv'
<1>0. /\ TypeOK /\ Following /\ Jobs /\ Numbers
  BY DEF FtpInv
<1>1. Len(todo') = 0 /\ Len(replies') = 0 /\ Len(commands') = 0
  OBVIOUS
<1>2. Untouched' /\ Following'
  BY <1>0 DEF Untouched, Following, Transferring
<1>3. Numbers'
  BY <1>0, <1>1, Shapes DEF Numbers
<1>4. PasvOnce' /\ Doomed' /\ Jobs' /\ Hung' /\ Announced' /\ OwnBefore'
  BY <1>0, <1>1 DEF PasvOnce, Doomed, Jobs, Hung, Announced, OwnBefore, PasvAhead, PasvSent,
                    Transferring
<1>5. OwnTransfer' /\ OtherTransfer' /\ Pieces'
  BY DEF OwnTransfer, OtherTransfer, Pieces, Transferring
<1>6. InStep' /\ Done'
  BY <1>1 DEF InStep, Done, Busy, PasvSent, Transferring
<1> QED
  BY <1>2, <1>3, <1>4, <1>5, <1>6 DEF FtpInv

-------------------------------------------------------------------------------
(* The client's control steps.                                             *)

PCs == {"start", "idle", "send", "reply", "preliminary", "data", "close", "final", "undefined"}

\* The types, in a step of the client that leaves the server alone.
LEMMA ControlTypes ==
  ASSUME TypeOK, pc' \in PCs, todo' \in Seq(Commands), (pc' \in {"start", "idle"}) = (todo' = <<>>),
         nData' = (pc' \in {"preliminary", "data", "close"}),
         is_connected' \in BOOLEAN, response' \in Reply, result' \in {"none", "ok", "failed", "list"},
         replies' \in Seq(Reply), address' \in 0..MaxCalls, offset' \in 0..Length,
         handle' \in {"none", "open", "closed"}, commands' \in Seq(Command),
         up' \in BOOLEAN, logged_in' \in BOOLEAN, listening' \in -1..MaxCalls, rest' \in 0..Length,
         job' \in Transfers \cup {"none"}, strayed' \in BOOLEAN,
         UNCHANGED <<call, moved, wire, from, at_server, calls, carried, cut>>
  PROVE  TypeOK'
BY Zenon DEF TypeOK, PCs, Command

\* An operation that is under way between two commands has not begun a transfer.
LEMMA Between ==
  ASSUME FtpInv, pc \in {"send", "reply"}
  PROVE  /\ TypeOK /\ Following /\ todo # <<>> /\ job = "none" /\ wire = 0 /\ moved = 0
         /\ ~nData /\ Expecting = todo[1] /\ Expecting \in Commands /\ Len(todo) \in 1..4
         /\ nData = FALSE
<1>1. TypeOK /\ Following /\ Jobs
  BY DEF FtpInv
<1>2. todo # <<>> /\ pc # "undefined"
  BY <1>1 DEF TypeOK
<1>3. job = "none" /\ wire = 0 /\ moved = 0
  <2>1. wire \in Nat
    BY <1>1, Shapes
  <2> QED
    BY <1>1, <2>1 DEF Jobs, Transferring
<1>4. nData = FALSE
  <2>1. nData = (pc \in {"preliminary", "data", "close"})
    BY <1>1, Zenon DEF TypeOK
  <2>2. (pc \in {"preliminary", "data", "close"}) = FALSE
    OBVIOUS
  <2> QED
    BY <2>1, <2>2, Zenon
<1>5. Expecting = todo[1] /\ Expecting \in Commands /\ Len(todo) \in 1..4
  BY <1>1, <1>2, Position, Zenon
<1> QED
  BY <1>1, <1>2, <1>3, <1>4, <1>5, Zenon

\* What a refusal may come to.
LEMMA RefusedIs ==
  ASSUME TypeOK, Following, pc \in {"send", "reply"}, todo # <<>>, NEW last, Refused(last)
  PROVE  \/ /\ pc' = "send" /\ todo' = Tail(todo) /\ Len(todo) > 1 /\ Expecting = "CWD"
            /\ UNCHANGED <<result, is_connected>>
         \/ /\ pc' = "send" /\ todo' = <<"QUIT">> /\ call.name = "Connect"
            /\ Expecting # "QUIT" /\ UNCHANGED <<result, is_connected>>
         \/ /\ pc' = "undefined" /\ Expecting = "REST" /\ UNCHANGED <<todo, result, is_connected>>
         \/ /\ pc' = "idle" /\ todo' = <<>> /\ result' \in {"ok", "failed", "list"}
            /\ Expecting # "QUIT"
            /\ result' = "ok" => call.name = "Connect"
            /\ is_connected' = is_connected \/ is_connected' = TRUE
<1>1. /\ Expecting = "CWD" => call.name = "ListDir" /\ Len(todo) > 1
      /\ Expecting \in {"USER", "PASS"} => call.name = "Connect"
  <2>1. /\ Len(todo) \in 1..4
        /\ Len(todo) = 1 /\ ~Quitting /\ Expecting \notin Transfers =>
             call.name \notin Accessing \cup {"ListDir"}
        /\ Expecting = "CWD" => call.name = "ListDir"
        /\ Expecting \in {"HELLO", "USER", "PASS"} => call.name = "Connect"
    BY Position
  <2>2. Quitting => call.name = "Connect"
    BY DEF Quitting
  <2> QED
    BY <2>1, <2>2 DEF Transfers
<1>2. CASE Expecting = "CWD" /\ GoOn /\ UNCHANGED is_connected
  BY <1>1, <1>2 DEF GoOn
<1>3. CASE Expecting = "REST" /\ pc' = "undefined" /\ UNCHANGED <<todo, result, is_connected>>
  BY <1>3
<1>4. CASE Expecting = "USER" /\ is_connected' = TRUE /\ Return("ok")
  BY <1>1, <1>4 DEF Return
<1>5. CASE Expecting \in {"USER", "PASS"} /\ GoQuit /\ UNCHANGED is_connected
  BY <1>1, <1>5 DEF GoQuit
<1>6. CASE Expecting # "QUIT" /\ GiveUp /\ UNCHANGED is_connected
  BY <1>6 DEF GiveUp, Return
<1> QED
  BY <1>2, <1>3, <1>4, <1>5, <1>6 DEF Refused

\* The session, and what the client has beside it, are as before.
Beside == <<offset, call, nData, moved, wire, from, at_server, calls, carried, strayed, cut,
            commands, listening, up, rest, job, handle, logged_in>>

\* The awaited command is refused, or not answered.
LEMMA RefusedStep ==
  ASSUME FtpInv, pc \in {"send", "reply"}, NEW k \in {0, 1}, Left(k), NEW last, Refused(last),
         k = 0 => pc = "send" \/ (replies = <<>> /\ ~up), k = 1 => pc = "reply" /\ replies # <<>>,
         response' \in Reply, replies' \in Seq(Reply), UNCHANGED Beside, address' = address
  PROVE  FtpInv'
<1>0. /\ TypeOK /\ Following /\ todo # <<>> /\ job = "none" /\ wire = 0 /\ moved = 0 /\ nData = FALSE
      /\ Len(todo) \in 1..4 /\ todo \in Seq(Commands)
  BY Between DEF TypeOK
<1>1. UNCHANGED <<offset, call, nData, moved, wire, from, at_server, calls, carried, strayed, cut,
                  commands, listening, up, rest, job, handle, logged_in, address>>
  BY DEF Beside
<1>2. \/ /\ pc' = "send" /\ todo' = Tail(todo) /\ Len(todo) > 1 /\ Expecting = "CWD"
         /\ UNCHANGED <<result, is_connected>>
      \/ /\ pc' = "send" /\ todo' = <<"QUIT">> /\ call.name = "Connect"
         /\ Expecting # "QUIT" /\ UNCHANGED <<result, is_connected>>
      \/ /\ pc' = "undefined" /\ Expecting = "REST" /\ UNCHANGED <<todo, result, is_connected>>
      \/ /\ pc' = "idle" /\ todo' = <<>> /\ result' \in {"ok", "failed", "list"}
         /\ Expecting # "QUIT"
         /\ result' = "ok" => call.name = "Connect"
         /\ is_connected' = is_connected \/ is_connected' = TRUE
  BY <1>0, RefusedIs
<1>3. TypeOK'
  <2>1. /\ pc' \in {"send", "undefined", "idle"} /\ is_connected' \in BOOLEAN
        /\ result' \in {"none", "ok", "failed", "list"}
    BY <1>0, <1>2 DEF TypeOK
  <2>2. todo' \in Seq(Commands) /\ ((pc' \in {"start", "idle"}) = (todo' = <<>>))
    <3>1. CASE todo' = Tail(todo) /\ Len(todo) > 1 /\ pc' = "send"
      <4>1. Tail(todo) \in Seq(Commands) /\ Tail(todo) # <<>>
        BY <1>0, <3>1, NextPosition, Zenon
      <4> QED
        BY <3>1, <4>1
    <3>2. CASE todo' = <<"QUIT">> /\ pc' = "send"
      BY <3>2 DEF Commands
    <3>3. CASE todo' = todo /\ pc' = "undefined"
      BY <1>0, <3>3
    <3>4. CASE todo' = <<>> /\ pc' = "idle"
      BY <3>4
    <3> QED
      BY <1>2, <3>1, <3>2, <3>3, <3>4
  <2>3. nData' = (pc' \in {"preliminary", "data", "close"})
    <3>1. (pc' \in {"preliminary", "data", "close"}) = FALSE
      BY <2>1
    <3> QED
      BY <1>0, <1>1, <3>1, Zenon
  <2>4. /\ address' \in 0..MaxCalls /\ offset' \in 0..Length
        /\ handle' \in {"none", "open", "closed"} /\ commands' \in Seq(Command)
        /\ up' \in BOOLEAN /\ logged_in' \in BOOLEAN /\ listening' \in -1..MaxCalls
        /\ rest' \in 0..Length /\ job' \in Transfers \cup {"none"} /\ strayed' \in BOOLEAN
    BY <1>0, <1>1, Zenon DEF TypeOK, Command
  <2>5. pc' \in PCs
    BY <2>1 DEF PCs
  <2>6. UNCHANGED <<call, moved, wire, from, at_server, calls, carried, cut>>
    BY <1>1
  <2> QED
    BY <1>0, <2>1, <2>2, <2>3, <2>4, <2>5, <2>6, ControlTypes, Zenon
<1>4. Over(k)
  BY <1>0, <1>1, <1>2 DEF Over
<1>5. CASE pc' = "send" /\ todo' = Tail(todo) /\ Len(todo) > 1 /\ Expecting = "CWD"
  <2>1. Advances(k)
    BY <1>1, <1>5 DEF Advances
  <2> QED
    BY <1>3, <1>4, <2>1, AdvanceStep
<1>6. CASE \/ pc' = "send" /\ todo' = <<"QUIT">> /\ call.name = "Connect"
           \/ pc' = "undefined" /\ Expecting = "REST" /\ todo' = todo
  <2>1. Deviates(k)
    BY <1>1, <1>6 DEF Deviates
  <2> QED
    BY <1>3, <1>4, <2>1, DeviateStep
<1>7. CASE pc' = "idle" /\ todo' = <<>> /\ (result' = "ok" => call.name = "Connect")
  <2>1. Settled' /\ SuccessIsReal' /\ WholeFileMoved'
    BY <1>1, <1>7 DEF Settled, SuccessIsReal, WholeFileMoved, Returned, Names
  <2>2. ~strayed => commands = <<>> /\ \A i \in 1..Len(replies') : replies'[i].code = 4 /\ ~up
    BY NothingLeft
  <2> QED
    BY <1>1, <1>3, <1>4, <1>7, <2>1, <2>2, EndStep
<1> QED
  BY <1>2, <1>5, <1>6, <1>7

\* The control connection is closed by the client: what CloseControl leaves.
LEMMA CloseControlStep ==
  ASSUME FtpInv, pc \in {"send", "reply"}, Expecting = "QUIT", CloseControl, response' \in Reply,
         UNCHANGED <<offset, call, nData, address, moved, wire, from, at_server, calls, carried,
                     strayed, cut>>
  PROVE  FtpInv'
<1>0. /\ TypeOK /\ Following /\ Numbers /\ todo # <<>> /\ job = "none" /\ wire = 0 /\ nData = FALSE
  BY Between DEF FtpInv
<1>1. /\ handle' = "closed" /\ is_connected' = FALSE /\ replies' = <<>> /\ logged_in' = FALSE
      /\ up' = FALSE /\ commands' = <<>> /\ listening' = -1 /\ rest' = 0 /\ job' = "none"
      /\ pc' = "idle" /\ todo' = <<>> /\ result' \in {"ok", "failed"}
  BY DEF CloseControl, EndSession, Return
<1>2. call.name \in {"Quit", "Connect"}
  <2>1. Quitting \/ call.name = "Quit"
    BY <1>0, Position DEF TypeOK
  <2> QED
    BY <2>1 DEF Quitting
<1>3. TypeOK'
  <2>1. nData' = (pc' \in {"preliminary", "data", "close"})
    <3>1. (pc' \in {"preliminary", "data", "close"}) = FALSE
      BY <1>1
    <3> QED
      BY <1>0, <3>1, Zenon
  <2>2. /\ pc' \in PCs /\ todo' \in Seq(Commands) /\ replies' \in Seq(Reply)
        /\ commands' \in Seq(Command) /\ ((pc' \in {"start", "idle"}) = (todo' = <<>>))
        /\ listening' \in -1..MaxCalls /\ rest' \in 0..Length
        /\ job' \in Transfers \cup {"none"}
    BY <1>0, <1>1, Shapes DEF PCs
  <2>3. /\ handle' \in {"none", "open", "closed"} /\ result' \in {"none", "ok", "failed", "list"}
        /\ up' \in BOOLEAN /\ logged_in' \in BOOLEAN /\ is_connected' \in BOOLEAN
    BY <1>1, Zenon
  <2>4. /\ address' \in 0..MaxCalls /\ offset' \in 0..Length /\ strayed' \in BOOLEAN
        /\ UNCHANGED <<call, moved, wire, from, at_server, calls, carried, cut>>
    BY <1>0, Zenon DEF TypeOK
  <2> QED
    BY <1>0, <2>1, <2>2, <2>3, <2>4, ControlTypes, Zenon
<1>4. Settled' /\ SuccessIsReal' /\ WholeFileMoved'
  BY <1>2 DEF Settled, SuccessIsReal, WholeFileMoved, Names
<1>5. address' <= calls
  BY <1>0 DEF Numbers
<1> QED
  BY <1>1, <1>3, <1>4, <1>5, CloseStep

\* A command cannot be sent.
LEMMA SendFailsStep == ASSUME FtpInv, SendFails PROVE FtpInv'
<1>0. pc \in {"send", "reply"} /\ pc = "send" /\ TypeOK
  BY DEF SendFails, FtpInv
<1>1. response' \in Reply /\ response' = response
  BY <1>0 DEF SendFails, TypeOK
<1>2. CASE Expecting = "QUIT" /\ CloseControl
  BY <1>0, <1>1, <1>2, CloseControlStep DEF SendFails, history
<1>3. CASE Refused(response) /\ UNCHANGED <<handle, Session, logged_in, replies>>
  <2>1. UNCHANGED Beside /\ address' = address
    BY <1>3 DEF SendFails, Session, Beside, history
  <2>2. Left(0) /\ replies' \in Seq(Reply)
    BY <1>0, <1>3, Shapes DEF Left
  <2> QED
    BY <1>0, <1>1, <1>3, <2>1, <2>2, RefusedStep
<1> QED
  BY <1>2, <1>3 DEF SendFails

\* The connection cannot be opened, or the greeting is not welcome.
LEMMA HelloFails ==
  ASSUME FtpInv, pc = "reply", Expecting = "HELLO", handle' = "none", replies' = <<>>, commands' = <<>>,
         up' = FALSE, listening' \in {-1, listening}, job' = "none", rest' \in {0, rest}, Return("failed"),
         response' \in Reply,
         UNCHANGED <<is_connected, logged_in, offset, call, nData, address, moved, wire, from,
                     at_server, calls, carried, strayed, cut>>
  PROVE  FtpInv'
<1>0. /\ TypeOK /\ Following /\ Numbers /\ todo # <<>> /\ job = "none" /\ wire = 0 /\ nData = FALSE
  BY Between DEF FtpInv
<1>1. pc' = "idle" /\ todo' = <<>> /\ result' = "failed"
  BY DEF Return
<1>3. TypeOK'
  <2>1. nData' = (pc' \in {"preliminary", "data", "close"})
    <3>1. (pc' \in {"preliminary", "data", "close"}) = FALSE
      BY <1>1
    <3> QED
      BY <1>0, <3>1, Zenon
  <2>2. /\ pc' \in PCs /\ todo' \in Seq(Commands) /\ replies' \in Seq(Reply)
        /\ commands' \in Seq(Command) /\ ((pc' \in {"start", "idle"}) = (todo' = <<>>))
    BY <1>1 DEF PCs
  <2>3. listening' \in -1..MaxCalls /\ rest' \in 0..Length /\ job' \in Transfers \cup {"none"}
    <3>1. MaxCalls \in Nat /\ Length \in Nat /\ listening \in -1..MaxCalls /\ rest \in 0..Length
      BY <1>0, Shapes DEF TypeOK
    <3> QED
      BY <3>1
  <2>4. /\ handle' \in {"none", "open", "closed"} /\ result' \in {"none", "ok", "failed", "list"}
        /\ up' \in BOOLEAN
    BY <1>1, Zenon
  <2>5. /\ address' \in 0..MaxCalls /\ offset' \in 0..Length /\ strayed' \in BOOLEAN
        /\ logged_in' \in BOOLEAN /\ is_connected' \in BOOLEAN
        /\ UNCHANGED <<call, moved, wire, from, at_server, calls, carried, cut>>
    BY <1>0, Zenon DEF TypeOK
  <2> QED
    BY <1>0, <2>1, <2>2, <2>3, <2>4, <2>5, ControlTypes, Zenon
<1>4. Settled' /\ SuccessIsReal' /\ WholeFileMoved'
  BY <1>1 DEF Settled, SuccessIsReal, WholeFileMoved, Returned
<1>5. address' <= calls
  BY <1>0 DEF Numbers
<1> QED
  BY <1>1, <1>3, <1>4, <1>5, CloseStep

\* The stream ends where a reply is awaited.
LEMMA ReadNothingStep == ASSUME FtpInv, ReadNothing PROVE FtpInv'
<1>0. pc \in {"send", "reply"} /\ pc = "reply" /\ TypeOK /\ Hung /\ Jobs /\ replies = <<>> /\ ~up
  BY DEF ReadNothing, FtpInv
<1>1. response' \in Reply /\ response' = response
  BY <1>0 DEF ReadNothing, TypeOK
<1>2. CASE Expecting = "QUIT" /\ CloseControl
  BY <1>0, <1>1, <1>2, CloseControlStep DEF ReadNothing, history
<1>3. CASE Refused(response) /\ UNCHANGED <<handle, Session, logged_in, replies>>
  <2>1. UNCHANGED Beside /\ address' = address
    BY <1>3 DEF ReadNothing, Session, Beside, history
  <2>2. Left(0) /\ replies' \in Seq(Reply)
    BY <1>0, <1>3, Shapes DEF Left
  <2> QED
    BY <1>0, <1>1, <1>3, <2>1, <2>2, RefusedStep
<1>4. CASE /\ Expecting = "HELLO" /\ handle' = "none" /\ Return("failed")
           /\ UNCHANGED <<is_connected, Session, logged_in, replies>>
  <2>1. /\ replies' = <<>> /\ commands' = <<>> /\ up' = FALSE /\ job' = "none" /\ rest' = rest
        /\ listening' = listening
    <3>1. job = "none" /\ commands = <<>> /\ up = FALSE
      BY <1>0 DEF Hung, Jobs, TypeOK
    <3> QED
      BY <1>0, <1>4, <3>1 DEF Session
  <2> QED
    BY <1>0, <1>1, <1>4, <2>1, HelloFails DEF ReadNothing, history
<1> QED
  BY <1>2, <1>3, <1>4 DEF ReadNothing

\* A command was answered as expected.
LEMMA AcceptedStep ==
  ASSUME FtpInv, pc = "reply", replies # <<>>, Expecting # "QUIT", Usable(Expecting, replies[1]),
         Accepted(replies[1]), replies' = Tail(replies), response' = replies[1], UNCHANGED Beside
  PROVE  FtpInv'
<1>0. /\ TypeOK /\ Following /\ Numbers /\ Done /\ InStep
      /\ todo # <<>> /\ job = "none" /\ wire = 0 /\ moved = 0
      /\ nData = FALSE /\ Len(todo) \in 1..4 /\ todo \in Seq(Commands) /\ Expecting \in Commands
  BY Between DEF FtpInv, TypeOK
<1>1. UNCHANGED <<offset, call, nData, moved, wire, from, at_server, calls, carried, strayed, cut,
                  commands, listening, up, rest, job, handle, logged_in>>
  BY DEF Beside
<1>2. /\ address' = IF Expecting = "PASV" THEN replies[1].call ELSE address
      /\ is_connected' = (is_connected \/ Expecting = "PASS")
      /\ \/ Len(todo) = 1 /\ pc' = "idle" /\ todo' = <<>> /\ result' = "ok"
         \/ Len(todo) # 1 /\ pc' = "send" /\ todo' = Tail(todo) /\ result' = result
  BY DEF Accepted, Return, GoOn
<1>3. Left(1) /\ Tail(replies) \in Seq(Reply) /\ replies[1] \in Reply /\ 1 \in 1..Len(replies)
  <2>1. /\ Tail(replies) \in Seq(Reply) /\ Len(Tail(replies)) = Len(replies) - 1
        /\ \A i \in 1..Len(Tail(replies)) : Tail(replies)[i] = replies[i + 1]
        /\ replies[1] \in Reply /\ Len(replies) \in Nat \ {0}
    <3>1. replies \in Seq(Reply)
      BY <1>0 DEF TypeOK
    <3> QED
      BY <3>1, TailIs, Zenon
  <2>2. 1 \in 1..Len(replies)
    BY <2>1
  <2> QED
    BY <2>1, <2>2 DEF Left
<1>4. Len(todo) # 1 => Len(todo) > 1 /\ Tail(todo) \in Seq(Commands) /\ Tail(todo) # <<>>
  <2>1. Len(todo) # 1 => Len(todo) > 1
    <3>1. \A n \in 1..4 : n # 1 => n > 1
      OBVIOUS
    <3> QED
      BY <1>0, <3>1, Zenon
  <2> QED
    BY <1>0, <2>1, NextPosition, Zenon
<1>5. TypeOK'
  <2>1. /\ pc' \in PCs /\ result' \in {"none", "ok", "failed", "list"}
    BY <1>0, <1>2 DEF TypeOK, PCs
  <2>2. is_connected' \in BOOLEAN
    BY <1>0, <1>2, Zenon DEF TypeOK
  <2>3. todo' \in Seq(Commands) /\ ((pc' \in {"start", "idle"}) = (todo' = <<>>))
    <3>1. CASE todo' = Tail(todo) /\ Len(todo) # 1 /\ pc' = "send"
      BY <1>4, <3>1
    <3>2. CASE todo' = <<>> /\ pc' = "idle"
      BY <3>2
    <3> QED
      BY <1>2, <3>1, <3>2
  <2>4. nData' = (pc' \in {"preliminary", "data", "close"})
    <3>1. (pc' \in {"preliminary", "data", "close"}) = FALSE
      BY <1>2
    <3> QED
      BY <1>0, <1>1, <3>1, Zenon
  <2>5. address' \in 0..MaxCalls
    BY <1>0, <1>2, <1>3 DEF TypeOK, Reply
  <2>6. /\ offset' \in 0..Length
        /\ handle' \in {"none", "open", "closed"} /\ commands' \in Seq(Command)
        /\ up' \in BOOLEAN /\ logged_in' \in BOOLEAN /\ listening' \in -1..MaxCalls
        /\ rest' \in 0..Length /\ job' \in Transfers \cup {"none"} /\ strayed' \in BOOLEAN
    BY <1>0, <1>1, Zenon DEF TypeOK, Command
  <2>7. replies' \in Seq(Reply) /\ response' \in Reply
    BY <1>3
  <2>8. UNCHANGED <<call, moved, wire, from, at_server, calls, carried, cut>>
    BY <1>1
  <2> QED
    BY <1>0, <2>1, <2>2, <2>3, <2>4, <2>5, <2>6, <2>7, <2>8, ControlTypes, Zenon
<1>6. Over(1)
  BY <1>0, <1>1, <1>2 DEF Over
<1>7. CASE Len(todo) # 1
  <2>1. Advances(1)
    BY <1>1, <1>2, <1>4, <1>7 DEF Advances
  <2> QED
    BY <1>3, <1>5, <1>6, <2>1, AdvanceStep
<1>8. CASE Len(todo) = 1
  <2>1. Expecting # "PASV" /\ (call.name \in Names => call.name \in Strict \cup {"Noop", "Quit"})
        /\ call.name \notin {"Get", "Put"} /\ ~Quitting
    <3>1. /\ Expecting = "PASV" => Len(todo) > 1
          /\ Len(todo) = 1 /\ ~Quitting /\ Expecting \notin Transfers =>
              call.name \notin Accessing \cup {"ListDir"}
      BY <1>0, Position, Zenon DEF TypeOK
    <3>2. Expecting \notin Transfers /\ ~Quitting
      BY <1>0 DEF Following, Quitting, Expecting
    <3> QED
      BY <1>8, <3>1, <3>2 DEF Names, Strict, Accessing
  <2>2. ~strayed => commands = <<>> /\ \A i \in 1..Len(replies') : replies'[i].code = 4 /\ ~up
    BY <1>3, NothingLeft
  <2>3. Settled' /\ WholeFileMoved'
    BY <1>1, <2>1 DEF Settled, WholeFileMoved
  <2>4. SuccessIsReal'
    <3> SUFFICES ASSUME call.name \in Names \ {"Noop", "Quit"}, ~strayed, NEW i \in 1..Len(Script(call))
                 PROVE  Script(call)[i] \in carried
      BY <1>1 DEF SuccessIsReal
    <3>1. call.name \in Strict
      BY <2>1
    <3>2. /\ Len(Script(call)) \in 1..4
          /\ todo[1] = Script(call)[Len(Script(call)) - Len(todo) + 1]
      BY <1>0, <1>8, <2>1, ScriptIs DEF Following, TypeOK
    <3>3. CASE i <= Len(Script(call)) - Len(todo)
      BY <1>0, <3>1, <3>3 DEF Done, Busy
    <3>4. CASE i = Len(Script(call))
      <4>1. Script(call)[i] = Expecting
        BY <1>0, <1>8, <3>2, <3>4, Between
      <4>2. Expecting \notin {"NOOP", "HELLO"}
        BY <1>0, <3>1, Position DEF Strict
      <4>3. replies[1].code \in {2, 3}
        BY <4>2 DEF Usable, Expected
      <4> QED
        BY <1>0, <1>3, <4>1, <4>2, <4>3 DEF InStep
    <3> QED
      BY <1>8, <3>2, <3>3, <3>4
  <2> QED
    BY <1>2, <1>3, <1>5, <1>6, <1>8, <2>1, <2>2, <2>3, <2>4, EndStep
<1> QED
  BY <1>7, <1>8

\* A reply is read, be it to this command or to another.
LEMMA ReadReplyStep == ASSUME FtpInv, ReadReply PROVE FtpInv'
<1>0. pc \in {"send", "reply"} /\ pc = "reply" /\ TypeOK /\ replies # <<>> /\ replies \in Seq(Reply)
  BY DEF ReadReply, FtpInv, TypeOK
<1>1. /\ Tail(replies) \in Seq(Reply) /\ Len(Tail(replies)) = Len(replies) - 1
      /\ \A i \in 1..Len(Tail(replies)) : Tail(replies)[i] = replies[i + 1]
      /\ Head(replies) = replies[1] /\ replies[1] \in Reply
  BY <1>0, TailIs, Zenon
<1>2. /\ response' = replies[1] /\ response' \in Reply
      /\ UNCHANGED <<offset, call, nData, moved, wire, from, at_server, calls, carried, strayed, cut>>
  BY <1>1 DEF ReadReply, history
<1>3. CASE Expecting = "QUIT" /\ CloseControl /\ UNCHANGED address
  BY <1>0, <1>2, <1>3, CloseControlStep
<1>4. CASE /\ Expecting # "QUIT" /\ Usable(Expecting, Head(replies)) /\ Accepted(Head(replies))
           /\ replies' = Tail(replies) /\ UNCHANGED <<handle, Session, logged_in>>
  <2>1. UNCHANGED Beside
    BY <1>2, <1>4 DEF Beside, Session
  <2> QED
    BY <1>0, <1>1, <1>2, <1>4, <2>1, AcceptedStep
<1>5. CASE /\ Expecting = "HELLO" /\ handle' = "none" /\ replies' = <<>> /\ EndSession
           /\ Return("failed") /\ UNCHANGED <<is_connected, address, logged_in>>
  <2>1. /\ commands' = <<>> /\ up' = FALSE /\ listening' = -1 /\ job' = "none" /\ rest' = 0
    BY <1>5 DEF EndSession
  <2> QED
    BY <1>0, <1>2, <1>5, <2>1, HelloFails
<1>6. CASE /\ Refused(Head(replies)) /\ replies' = Tail(replies)
           /\ UNCHANGED <<handle, Session, logged_in, address>>
  <2>1. UNCHANGED Beside
    BY <1>2, <1>6 DEF Beside, Session
  <2>2. Left(1)
    BY <1>1, <1>6 DEF Left
  <2> QED
    BY <1>0, <1>1, <1>2, <1>6, <2>1, <2>2, RefusedStep
<1> QED
  BY <1>3, <1>4, <1>5, <1>6 DEF ReadReply

\* The operation ends before its transfer command is sent.
LEMMA DataSocketFailsStep == ASSUME FtpInv, DataSocketFails PROVE FtpInv'
<1>0. pc \in {"send", "reply"} /\ pc = "send" /\ Expecting \in Transfers
  BY DEF DataSocketFails
<1>1. /\ TypeOK /\ todo # <<>> /\ job = "none" /\ wire = 0 /\ moved = 0 /\ nData = FALSE
  BY <1>0, Between
<1>2. pc' = "idle" /\ todo' = <<>> /\ result' \in {"list", "failed"}
  BY DEF DataSocketFails, GiveUp, Return
<1>3. UNCHANGED <<handle, is_connected, offset, response, call, nData, address, moved, commands,
                  replies, wire, up, logged_in, listening, rest, job, from, at_server, calls,
                  carried, strayed, cut>>
  BY DEF DataSocketFails, server, history
<1>4. TypeOK'
  <2>1. /\ pc' \in PCs /\ result' \in {"none", "ok", "failed", "list"}
        /\ todo' \in Seq(Commands) /\ ((pc' \in {"start", "idle"}) = (todo' = <<>>))
    BY <1>2 DEF PCs
  <2>2. nData' = (pc' \in {"preliminary", "data", "close"})
    <3>1. (pc' \in {"preliminary", "data", "close"}) = FALSE
      BY <1>2
    <3> QED
      BY <1>1, <1>3, <3>1, Zenon
  <2>3. /\ offset' \in 0..Length /\ is_connected' \in BOOLEAN /\ address' \in 0..MaxCalls
        /\ handle' \in {"none", "open", "closed"} /\ commands' \in Seq(Command)
        /\ up' \in BOOLEAN /\ logged_in' \in BOOLEAN /\ listening' \in -1..MaxCalls
        /\ rest' \in 0..Length /\ job' \in Transfers \cup {"none"} /\ strayed' \in BOOLEAN
        /\ replies' \in Seq(Reply) /\ response' \in Reply
    BY <1>1, <1>3, Zenon DEF TypeOK, Command
  <2>4. UNCHANGED <<call, moved, wire, from, at_server, calls, carried, cut>>
    BY <1>3
  <2> QED
    BY <1>1, <2>1, <2>2, <2>3, <2>4, ControlTypes, Zenon
<1>5. Left(0) /\ Over(0)
  BY <1>0, <1>1, <1>2, <1>3, Shapes DEF Left, Over
<1>6. Settled' /\ SuccessIsReal' /\ WholeFileMoved'
  BY <1>2 DEF Settled, SuccessIsReal, WholeFileMoved, Returned
<1>7. ~strayed => commands = <<>> /\ \A i \in 1..Len(replies') : replies'[i].code = 4 /\ ~up
  BY <1>0, <1>5, NothingLeft
<1> QED
  BY <1>2, <1>3, <1>4, <1>5, <1>6, <1>7, EndStep

-------------------------------------------------------------------------------
(* The replies to a transfer.                                              *)

\* What TakeReply leaves.
LEMMA TakeReplyIs ==
  ASSUME TypeOK, TakeReply
  PROVE  /\ \E k \in {0, 1} :
              /\ Left(k)
              /\ k = 1 <=> replies # <<>>
              /\ k = 0 => ~up
         /\ response' \in Reply /\ replies' \in Seq(Reply)
         /\ replies # <<>> => response' = replies[1] /\ Len(replies) > 0 /\ Len(replies) \in Nat
<1>1. replies \in Seq(Reply) /\ response \in Reply
  BY DEF TypeOK
<1>2. CASE replies = <<>>
  <2>1. replies' = replies /\ response' = response /\ ~up /\ Len(replies) = 0
    BY <1>2 DEF TakeReply
  <2>2. Left(0)
    BY <1>2, <2>1 DEF Left
  <2> QED
    BY <1>1, <1>2, <2>1, <2>2
<1>3. CASE replies # <<>>
  <2>1. /\ Tail(replies) \in Seq(Reply) /\ Len(Tail(replies)) = Len(replies) - 1
        /\ \A i \in 1..Len(Tail(replies)) : Tail(replies)[i] = replies[i + 1]
        /\ Head(replies) = replies[1] /\ replies[1] \in Reply /\ Len(replies) \in Nat \ {0}
    BY <1>1, <1>3, TailIs, Zenon
  <2>2. replies' = Tail(replies) /\ response' = replies[1]
    BY <1>3, <2>1 DEF TakeReply
  <2>3. Left(1)
    BY <2>1, <2>2 DEF Left
  <2> QED
    BY <1>3, <2>1, <2>2, <2>3
<1> QED
  BY <1>2, <1>3

\* What TypeOK says when the data connection is open or closed.
LEMMA DataOpen ==
  ASSUME TypeOK
  PROVE  /\ pc \in {"preliminary", "data", "close"} => nData = TRUE
         /\ pc \notin {"preliminary", "data", "close"} => nData = FALSE
<1>1. nData = (pc \in {"preliminary", "data", "close"})
  BY Zenon DEF TypeOK
<1>2. /\ pc \in {"preliminary", "data", "close"} => (pc \in {"preliminary", "data", "close"}) = TRUE
      /\ pc \notin {"preliminary", "data", "close"} => (pc \in {"preliminary", "data", "close"}) = FALSE
  OBVIOUS
<1> QED
  BY <1>1, <1>2, Zenon

\* An operation ends behind its transfer command: its reply is read, or will not come.
LEMMA TransferEnds ==
  ASSUME FtpInv, pc \in {"preliminary", "final"}, TakeReply, pc = "preliminary" => ~Got(1)
  PROVE  /\ job = "none" /\ wire = 0
         /\ pc = "preliminary" => (Own => commands = <<>>)
         /\ ~strayed => commands = <<>> /\ Own /\ \A i \in 1..Len(replies) : i > 1 => replies[i].code = 4 /\ ~up
<1>0. /\ TypeOK /\ Transferring /\ Jobs /\ Hung /\ OwnTransfer /\ OtherTransfer /\ Pieces /\ InStep
  BY DEF FtpInv, Transferring
<1>1. /\ replies # <<>> \/ ~up
      /\ replies # <<>> => response' = replies[1] /\ Len(replies) > 0 /\ Len(replies) \in Nat
      /\ pc = "preliminary" => replies = <<>> \/ replies[1].code # 1
      /\ wire \in Nat
      /\ replies = <<>> => Len(replies) = 0
  BY <1>0, TakeReplyIs, Shapes DEF TakeReply, Got
<1>2. pc = "preliminary" => ~Begun
  BY <1>1 DEF Begun
<1>3. job = "none"
  <2> SUFFICES ASSUME job # "none" PROVE FALSE
    OBVIOUS
  <2>1. up /\ Own /\ Begun
    BY <1>0 DEF Jobs
  <2>2. pc = "final" /\ Len(replies) = 0
    BY <1>0, <1>2, <2>1 DEF OwnTransfer, Final
  <2>3. replies # <<>> /\ Len(replies) > 0 /\ Len(replies) \in Nat
    BY <1>1, <2>1
  <2> QED
    BY <2>2, <2>3
<1>4. wire = 0
  BY <1>0, <1>1, <1>2, <1>3 DEF OwnTransfer, OtherTransfer, Pieces
<1>5. pc = "preliminary" => (Own => commands = <<>>)
  BY <1>0, <1>1 DEF OwnTransfer
<1>6. ~strayed => Own
  BY <1>0 DEF InStep
<1>7. Own => commands = <<>> /\ \A i \in 1..Len(replies) : i > 1 => replies[i].code = 4 /\ ~up
  <2>1. Own => commands = <<>>
    BY <1>0, <1>5 DEF OwnTransfer
  <2>2. ASSUME Own, NEW i \in 1..Len(replies), i > 1 PROVE replies[i].code = 4 /\ ~up
    BY <1>0, <1>2, <2>2 DEF OwnTransfer, Final
  <2> QED
    BY <2>1, <2>2
<1> QED
  BY <1>3, <1>4, <1>5, <1>6, <1>7

\* The client's end of the data connection, when it is not transferring.
LEMMA Closed ==
  ASSUME nData' = FALSE, pc' \in {"idle", "send", "reply", "final", "undefined"}
  PROVE  nData' = (pc' \in {"preliminary", "data", "close"})
<1>1. (pc' \in {"preliminary", "data", "close"}) = FALSE
  OBVIOUS
<1> QED
  BY <1>1, Zenon

\* The end of an operation behind its transfer command.
LEMMA TransferEndStep ==
  ASSUME FtpInv, pc \in {"preliminary", "final"}, TakeReply, pc = "preliminary" => ~Got(1),
         nData' = FALSE, pc' = "idle", todo' = <<>>, result' \in {"ok", "failed", "list"},
         offset' \in {0, offset},
         UNCHANGED <<handle, is_connected, call, address, moved, commands, wire, up, logged_in,
                     listening, rest, job, from, at_server, calls, carried, strayed, cut>>,
         Settled', SuccessIsReal', WholeFileMoved'
  PROVE  FtpInv'
<1>0. TypeOK
  BY DEF FtpInv
<1>1. PICK k \in {0, 1} : Left(k) /\ (k = 1 <=> replies # <<>>) /\ (k = 0 => ~up)
  BY <1>0, TakeReplyIs, Zenon
<1>2. /\ job = "none" /\ wire = 0
      /\ pc = "preliminary" => (Own => commands = <<>>)
      /\ ~strayed => commands = <<>> /\ Own /\ \A i \in 1..Len(replies) : i > 1 => replies[i].code = 4 /\ ~up
  BY TransferEnds
<1>3. TypeOK'
  <2>1. /\ pc' \in PCs /\ result' \in {"none", "ok", "failed", "list"}
        /\ todo' \in Seq(Commands) /\ ((pc' \in {"start", "idle"}) = (todo' = <<>>))
    BY DEF PCs
  <2>2. nData' = (pc' \in {"preliminary", "data", "close"})
    BY Closed
  <2>3. /\ is_connected' \in BOOLEAN /\ address' \in 0..MaxCalls
        /\ handle' \in {"none", "open", "closed"} /\ commands' \in Seq(Command)
        /\ up' \in BOOLEAN /\ logged_in' \in BOOLEAN /\ listening' \in -1..MaxCalls
        /\ rest' \in 0..Length /\ job' \in Transfers \cup {"none"} /\ strayed' \in BOOLEAN
    BY <1>0, Zenon DEF TypeOK, Command
  <2>4. offset' \in 0..Length
    <3>1. offset \in 0..Length
      BY <1>0, Zenon DEF TypeOK
    <3>2. Length \in Nat
      BY <1>0, Shapes
    <3> QED
      BY <3>1, <3>2
  <2>5. response' \in Reply /\ replies' \in Seq(Reply)
    BY <1>0, TakeReplyIs, Zenon
  <2>6. UNCHANGED <<call, moved, wire, from, at_server, calls, carried, cut>>
    OBVIOUS
  <2> QED
    BY <1>0, <2>1, <2>2, <2>3, <2>4, <2>5, <2>6, ControlTypes, Zenon
<1>4. Over(k)
  BY <1>1, <1>2 DEF Over
<1>5. ~strayed => commands = <<>> /\ \A i \in 1..Len(replies') : replies'[i].code = 4 /\ ~up
  <2> SUFFICES ASSUME ~strayed, NEW i \in 1..Len(replies') PROVE replies'[i].code = 4 /\ ~up
    BY <1>2
  <2>1. /\ i + k \in 1..Len(replies) /\ replies'[i] = replies[i + k] /\ Len(replies) \in Nat
        /\ (replies = <<>> <=> Len(replies) = 0)
    BY <1>0, <1>1, LeftIs, Zenon
  <2>2. k = 1 /\ i + k > 1
    BY <1>1, <2>1
  <2> QED
    BY <1>2, <2>1, <2>2
<1> QED
  BY <1>1, <1>3, <1>4, <1>5, EndStep

\* The reply that ends the transfer, or the one the client takes for it, is read.
LEMMA ReadFinalStep == ASSUME FtpInv, ReadFinal PROVE FtpInv'
<1>0. /\ pc = "final" /\ pc \in {"preliminary", "final"} /\ TakeReply
      /\ offset' \in {0, offset} /\ pc' = "idle" /\ todo' = <<>>
      /\ result' \in {"ok", "failed", "list"}
      /\ UNCHANGED <<handle, is_connected, call, nData, address, moved, commands, wire, up, logged_in,
                     listening, rest, job, from, at_server, calls, carried, strayed, cut>>
  BY DEF ReadFinal, Return, server, history
<1>1. result' = "ok" => \/ call.name = "GetRange"
                        \/ call.name \in {"Get", "Put"} /\ Got(2)
  BY DEF ReadFinal, Return
<1>2. /\ TypeOK /\ Following /\ OwnTransfer /\ OtherTransfer /\ Pieces /\ Done /\ InStep /\ Transferring
  BY <1>0 DEF FtpInv, Transferring
<1>3. nData' = FALSE
  BY <1>0, <1>2, DataOpen
<1>4. /\ Expecting \in Transfers /\ todo # <<>> /\ calls > 0
      /\ (Expecting = "STOR" => call.name = "Put" /\ offset = call.at)
      /\ (call.name \in {"Get", "GetRange"} => Reading /\ offset = call.at)
      /\ (Reading <=> Expecting # "STOR")
      /\ Length \in Nat /\ moved \in Nat /\ from \in Nat /\ at_server \in Nat /\ call.at \in Nat
      /\ offset \in 0..Length
  BY <1>2, DataFacts, Zenon
<1>5. /\ Len(todo) = 1 /\ Expecting = todo[1]
      /\ \/ call.name \in {"Get", "GetRange"} /\ Expecting = "RETR"
         \/ call.name = "Put" /\ Expecting = "STOR"
         \/ call.name = "ListDir" /\ Expecting = "LIST"
  BY <1>0, <1>2, <1>4, Position
<1>6. Got(2) => /\ Own /\ commands = <<>> /\ Len(replies) >= Final /\ Begun /\ Final = 1
                /\ replies[1].code = 2 /\ response' = replies[1]
  <2> SUFFICES ASSUME Got(2)
               PROVE  /\ Own /\ commands = <<>> /\ Len(replies) >= Final /\ Begun /\ Final = 1
                      /\ replies[1].code = 2 /\ response' = replies[1]
    OBVIOUS
  <2>1. response' = replies[1] /\ Len(replies) > 0 /\ Len(replies) \in Nat /\ replies[1].code = 2
    BY <1>0, <1>2, TakeReplyIs DEF Got
  <2>2. Own
    BY <1>0, <1>2, <2>1 DEF OtherTransfer
  <2>3. commands = <<>> /\ Begun /\ Final = 1
    BY <1>0, <1>2, <2>2 DEF OwnTransfer, Begun, Final
  <2> QED
    BY <2>1, <2>2, <2>3
<1>7. Got(2) => /\ response'.call = calls /\ response'.cmd = Expecting /\ Expecting \in carried
                /\ Reading => at_server = Length
                /\ ~Reading => at_server = from + moved
                /\ from = offset
  BY <1>2, <1>6 DEF OwnTransfer
<1>8. Settled'
  BY <1>0, <1>1, <1>6 DEF Settled, Returned
<1>9. WholeFileMoved'
  <2> SUFFICES ASSUME Got(2), call.name \in {"Get", "Put"}, cut = "no"
               PROVE  from = call.at /\ at_server = Length /\ moved = Length - call.at
    BY <1>0, <1>1, <1>4, <1>7 DEF WholeFileMoved, Returned
  <2>1. CASE call.name = "Get"
    <3>1. moved = at_server - from
      BY <1>0, <1>2, <1>6, <2>1 DEF Pieces
    <3> QED
      BY <1>4, <1>7, <2>1, <3>1
  <2>2. CASE call.name = "Put"
    <3>1. ~Reading /\ offset = call.at
      BY <1>4, <1>5, <2>2 DEF Reading
    <3>2. Len(replies) > 0
      BY <1>2, <1>6, Shapes
    <3>3. moved = Length - offset
      BY <1>0, <1>2, <1>6, <3>1, <3>2 DEF Pieces
    <3> QED
      BY <1>4, <1>7, <3>1, <3>3
  <2> QED
    BY <2>1, <2>2
<1>10. SuccessIsReal'
  <2> SUFFICES ASSUME result' = "ok", ~strayed, NEW i \in 1..Len(Script(call))
               PROVE  Script(call)[i] \in carried \/ (call.name = "GetRange" /\ Script(call)[i] = "RETR")
    BY <1>0 DEF SuccessIsReal, Returned
  <2>1. call.name \in Strict /\ call \in [name : Names \cup {"Connect"}, at : 0..Length]
    BY <1>1, <1>2 DEF Strict, TypeOK
  <2>2. /\ Len(Script(call)) \in 1..4 /\ todo[1] = Script(call)[Len(Script(call)) - Len(todo) + 1]
    BY <1>0, <1>2, <1>4, <1>5, <2>1, ScriptIs DEF Following
  <2>3. CASE i <= Len(Script(call)) - Len(todo)
    BY <1>0, <1>2, <2>1, <2>3 DEF Done, Busy
  <2>4. CASE i = Len(Script(call))
    <3>1. Script(call)[i] = Expecting
      BY <1>5, <2>2, <2>4
    <3> QED
      BY <1>1, <1>5, <1>7, <3>1
  <2> QED
    BY <1>5, <2>2, <2>3, <2>4
<1> QED
  BY <1>0, <1>3, <1>8, <1>9, <1>10, TransferEndStep

\* The transfer begins, or the data connection is closed.
LEMMA ReadPreliminaryStep == ASSUME FtpInv, ReadPreliminary PROVE FtpInv'
<1>0. /\ pc = "preliminary" /\ pc \in {"preliminary", "final"} /\ TakeReply /\ offset' = offset
      /\ UNCHANGED <<handle, is_connected, call, address, moved, commands, wire, up, logged_in,
                     listening, rest, job, from, at_server, calls, carried, strayed, cut>>
  BY DEF ReadPreliminary, server, history
<1>1. /\ TypeOK /\ Untouched /\ Following /\ Numbers /\ PasvOnce /\ Doomed /\ Jobs /\ Hung /\ Announced
      /\ OwnBefore /\ OwnTransfer /\ OtherTransfer /\ Pieces /\ InStep /\ Done /\ Transferring
  BY <1>0 DEF FtpInv, Transferring
<1>2. CASE ~Got(1) /\ nData' = FALSE /\ GiveUp
  <2>1. pc' = "idle" /\ todo' = <<>> /\ result' \in {"list", "failed"}
    BY <1>2 DEF GiveUp, Return
  <2>2. Settled' /\ SuccessIsReal' /\ WholeFileMoved'
    BY <2>1 DEF Settled, SuccessIsReal, WholeFileMoved, Returned
  <2> QED
    BY <1>0, <1>2, <2>1, <2>2, TransferEndStep
<1>3. CASE Got(1) /\ pc' = "data" /\ UNCHANGED <<todo, result, nData>>
  <2>1. PICK k \in {0, 1} : Left(k) /\ (k = 1 <=> replies # <<>>) /\ (k = 0 => ~up)
    BY <1>0, <1>1, TakeReplyIs, Zenon
  <2>2. /\ k = 1 /\ replies[1].code = 1 /\ Len(replies) > 0
        /\ Len(replies) \in Nat /\ Len(replies') = Len(replies) - 1
        /\ \A i \in 1..Len(replies') : replies'[i] = replies[i + 1] /\ i + 1 \in 1..Len(replies)
        /\ response' \in Reply /\ replies' \in Seq(Reply)
    <3>1. /\ Len(replies) \in Nat /\ Len(replies') = Len(replies) - k
          /\ \A i \in 1..Len(replies') : replies'[i] = replies[i + k] /\ i + k \in 1..Len(replies)
      BY <1>1, <2>1, LeftIs, Zenon
    <3>2. /\ response' \in Reply /\ replies' \in Seq(Reply)
          /\ replies # <<>> => response' = replies[1] /\ Len(replies) > 0 /\ Len(replies) \in Nat
      BY <1>0, <1>1, TakeReplyIs, Zenon
    <3>3. replies # <<>> /\ response'.code = 1
      BY <1>3 DEF Got
    <3> QED
      BY <2>1, <3>1, <3>2, <3>3
  <2>3. /\ pc' = "data" /\ UNCHANGED <<offset, todo, result, nData>> /\ Transferring'
        /\ UNCHANGED <<handle, is_connected, call, address, moved, commands, wire, up, logged_in,
                       listening, rest, job, from, at_server, calls, carried, strayed, cut>>
    BY <1>0, <1>3 DEF Transferring
  <2>4. TypeOK'
    <3>1. /\ pc' \in PCs /\ todo' \in Seq(Commands) /\ ((pc' \in {"start", "idle"}) = (todo' = <<>>))
          /\ result' \in {"none", "ok", "failed", "list"}
      BY <1>0, <1>1, <2>3 DEF TypeOK, PCs
    <3>2. nData' = (pc' \in {"preliminary", "data", "close"})
      <4>1. nData = TRUE
        BY <1>0, <1>1, DataOpen, Zenon
      <4>2. (pc' \in {"preliminary", "data", "close"}) = TRUE
        BY <2>3
      <4> QED
        BY <2>3, <4>1, <4>2, Zenon
    <3>3. /\ offset' \in 0..Length /\ is_connected' \in BOOLEAN /\ address' \in 0..MaxCalls
          /\ handle' \in {"none", "open", "closed"} /\ commands' \in Seq(Command)
          /\ up' \in BOOLEAN /\ logged_in' \in BOOLEAN /\ listening' \in -1..MaxCalls
          /\ rest' \in 0..Length /\ job' \in Transfers \cup {"none"} /\ strayed' \in BOOLEAN
      BY <1>1, <2>3, Zenon DEF TypeOK, Command
    <3>4. UNCHANGED <<call, moved, wire, from, at_server, calls, carried, cut>>
      BY <2>3
    <3> QED
      BY <1>1, <2>2, <3>1, <3>2, <3>3, <3>4, ControlTypes, Zenon
  <2>5. Untouched' /\ Numbers'
    <3>1. \A i \in 1..Len(replies') : replies'[i].call <= calls
      BY <1>1, <2>2 DEF Numbers
    <3> QED
      BY <1>1, <2>3, <3>1 DEF Untouched, Numbers, IsPasv
  <2>6. Following'
    BY <1>0, <1>1, <2>3, FollowingKept
  <2>7. PasvOnce'
    <3>1. ~PasvAhead' /\ ~PasvSent'
      <4>1. \A j \in 1..Len(todo) : todo[j] # "PASV"
        <5>1. Expecting \in Transfers /\ todo # <<>> /\ pc # "undefined"
          BY <1>0, <1>1, DataFacts
        <5> QED
          BY <1>1, <5>1, Position
      <4> QED
        BY <2>3, <4>1 DEF PasvAhead, PasvSent
    <3> QED
      BY <2>3, <3>1 DEF PasvOnce
  <2>8. Own => Begun
    BY <1>1, <2>2, Shapes DEF Begun, OwnTransfer
  <2>9. Doomed'
    <3>1. Own => Len(commands) = 0
      BY <1>0, <1>1, <2>8, Shapes DEF Begun
    <3> QED
      BY <1>1, <2>3, <3>1 DEF Doomed, IsPasv
  <2>10. Jobs' /\ Hung'
    BY <1>0, <1>1, <2>3 DEF Jobs, Hung, Begun, Own, Expecting
  <2>11. Announced'
    <3> SUFFICES ASSUME NEW i \in 1..Len(replies'), replies'[i].code = 1
                 PROVE  i < Len(replies') /\ replies'[i + 1].code = 4
      BY DEF Announced
    <3>1. i + 1 \in 1..Len(replies) /\ replies[i + 1].code = 1 /\ i + 1 # 1
      BY <2>2
    <3>2. i + 1 < Len(replies) /\ replies[i + 1 + 1].code = 4
      BY <1>1, <3>1 DEF Announced
    <3>3. i + 1 \in 1..Len(replies') /\ i < Len(replies')
      BY <2>2, <3>2
    <3> QED
      BY <2>2, <3>2, <3>3
  <2>12. OwnBefore' /\ InStep' /\ Done'
    BY <1>0, <1>1, <2>3 DEF OwnBefore, InStep, Done, Busy, PasvSent, Own
  <2>13. OtherTransfer'
    <3>1. ~Own => Len(replies') > 0 /\ replies'[1].code = 4
      <4> SUFFICES ASSUME ~Own PROVE Len(replies') > 0 /\ replies'[1].code = 4
        OBVIOUS
      <4>1. 1 \in 1..Len(replies)
        BY <2>2
      <4>2. 1 < Len(replies) /\ replies[1 + 1].code = 4
        BY <1>1, <2>2, <4>1 DEF Announced
      <4>3. 1 \in 1..Len(replies')
        BY <2>2, <4>2
      <4> QED
        BY <2>2, <4>2, <4>3
    <3> QED
      BY <1>0, <1>1, <2>3, <3>1 DEF OtherTransfer, Own
  <2>14. OwnTransfer'
    <3> SUFFICES ASSUME Own PROVE OwnTransfer'
      BY <2>3 DEF OwnTransfer, Own
    <3>1. Begun /\ commands = <<>> /\ Final = 2
      BY <1>0, <2>8 DEF Begun, Final
    <3>2. Begun' /\ Final' = 1
      BY <2>3 DEF Begun, Final
    <3>3. \A i \in 1..Len(replies) : i > 2 => replies[i].code = 4 /\ ~up
      BY <1>1, <3>1 DEF OwnTransfer
    <3>4. \A i \in 1..Len(replies') : i > 1 => replies'[i].code = 4 /\ ~up
      BY <2>2, <3>3
    <3>5. job # "none" => Len(replies') = 0
      BY <1>1, <2>2, <3>1 DEF OwnTransfer
    <3>6. Len(replies') >= 1 => replies'[1] = replies[2] /\ Len(replies) >= 2
      BY <2>2
    <3>7. Len(replies') >= 1 /\ replies'[1].code = 2 =>
            /\ replies'[1].call = calls /\ replies'[1].cmd = Expecting /\ Expecting \in carried
            /\ Reading /\ at_server = Length
      BY <1>0, <1>1, <3>1, <3>6 DEF OwnTransfer
    <3>8. calls > 0 /\ from = offset
      BY <1>1, <3>1 DEF OwnTransfer
    <3>9. Reading' = Reading /\ Expecting' = Expecting
      BY <2>3 DEF Reading, Expecting
    <3> QED
      BY <2>3, <3>1, <3>2, <3>4, <3>5, <3>7, <3>8, <3>9 DEF OwnTransfer
  <2>15. Pieces'
    BY <1>0, <1>1, <2>3, <2>8 DEF Pieces, Own, Reading, Expecting, OtherTransfer, OwnTransfer
  <2>16. Settled' /\ SuccessIsReal' /\ WholeFileMoved'
    BY <2>3 DEF Settled, SuccessIsReal, WholeFileMoved, Returned
  <2> QED
    BY <2>4, <2>5, <2>6, <2>7, <2>9, <2>10, <2>11, <2>12, <2>13, <2>14, <2>15, <2>16 DEF FtpInv
<1> QED
  BY <1>2, <1>3 DEF ReadPreliminary

-------------------------------------------------------------------------------
(* The steps in which the client starts something.                         *)

\* The session begins with the greeting, if there is one.
LEMMA ConnectStep == ASSUME FtpInv, Connect PROVE FtpInv'
<1>0. /\ TypeOK /\ Untouched /\ Following /\ Numbers /\ Jobs /\ pc = "start"
  BY DEF FtpInv, Connect
<1>1. /\ call.name = "Connect" /\ calls = 0 /\ ~strayed /\ ~up /\ listening = -1 /\ commands = <<>>
      /\ replies = <<>> /\ job = "none" /\ wire = 0 /\ moved = 0 /\ address = 0 /\ nData = FALSE
      /\ Len(commands) = 0
  <2>1. /\ call.name = "Connect" /\ ~strayed /\ ~up /\ listening = -1 /\ commands = <<>>
        /\ replies = <<>> /\ moved = 0 /\ job = "none"
    BY <1>0 DEF Untouched, Jobs, Transferring
  <2>2. calls = 0 /\ address = 0 /\ wire = 0
    BY <1>0, <2>1, Shapes DEF Following, Numbers, Jobs, Transferring
  <2>3. nData = FALSE
    BY <1>0, DataOpen
  <2> QED
    BY <2>1, <2>2, <2>3
<1>2. /\ UNCHANGED <<is_connected, offset, response, call, nData, address, moved, commands, wire,
                     logged_in, listening, rest, job, from, at_server, calls, carried, strayed, cut>>
  BY DEF Connect, history
<1>3. CASE Return("failed") /\ UNCHANGED <<handle, up, replies>>
  <2>1. pc' = "idle" /\ todo' = <<>> /\ result' = "failed" /\ Len(todo') = 0
    BY <1>3 DEF Return
  <2>2. TypeOK'
    <3>1. nData' = (pc' \in {"preliminary", "data", "close"})
      BY <1>1, <1>2, <2>1, Closed
    <3>2. /\ pc' \in PCs /\ todo' \in Seq(Commands) /\ ((pc' \in {"start", "idle"}) = (todo' = <<>>))
          /\ result' \in {"none", "ok", "failed", "list"}
      BY <2>1 DEF PCs
    <3>3. /\ offset' \in 0..Length /\ is_connected' \in BOOLEAN /\ address' \in 0..MaxCalls
          /\ handle' \in {"none", "open", "closed"} /\ commands' \in Seq(Command)
          /\ up' \in BOOLEAN /\ logged_in' \in BOOLEAN /\ listening' \in -1..MaxCalls
          /\ rest' \in 0..Length /\ job' \in Transfers \cup {"none"} /\ strayed' \in BOOLEAN
          /\ replies' \in Seq(Reply) /\ response' \in Reply
      BY <1>0, <1>2, <1>3, Zenon DEF TypeOK, Command
    <3>4. UNCHANGED <<call, moved, wire, from, at_server, calls, carried, cut>>
      BY <1>2
    <3> QED
      BY <1>0, <3>1, <3>2, <3>3, <3>4, ControlTypes, Zenon
  <2>3. Left(0)
    BY <1>1, <1>3 DEF Left
  <2>4. Untouched' /\ Following'
    BY <1>0, <1>2, <2>1 DEF Untouched, Following, Transferring
  <2>5. Numbers' /\ Doomed' /\ Jobs' /\ Hung' /\ Announced'
    BY <1>0, <1>1, <1>2, <1>3, <2>1 DEF Numbers, Doomed, Jobs, Hung, Announced, IsPasv
  <2>6. PasvOnce' /\ OwnBefore' /\ OwnTransfer' /\ OtherTransfer' /\ Pieces'
    BY <2>1 DEF PasvOnce, PasvAhead, PasvSent, OwnBefore, OwnTransfer, OtherTransfer, Pieces, Transferring
  <2>7. InStep' /\ Done'
    BY <1>1, <1>2, <1>3, <2>1 DEF InStep, Done, Busy, PasvSent, Transferring
  <2>8. Settled' /\ SuccessIsReal' /\ WholeFileMoved'
    BY <2>1 DEF Settled, SuccessIsReal, WholeFileMoved, Returned
  <2> QED
    BY <2>2, <2>4, <2>5, <2>6, <2>7, <2>8 DEF FtpInv
<1>4. CASE /\ handle' = "open" /\ pc' = "reply" /\ todo' = Script(call) /\ result' = result
           /\ \/ /\ up' = TRUE
                 /\ \E code \in {2, 4} : replies' = <<[code |-> code, cmd |-> "HELLO", call |-> 0]>>
              \/ up' = FALSE /\ replies' = <<>>
  <2>1. todo' = <<"HELLO", "USER", "PASS">>
    BY <1>1, <1>4 DEF Script
  <2>2. /\ todo' \in Seq(Commands) /\ todo' # <<>> /\ Len(todo') = 3 /\ Expecting' = "HELLO"
        /\ \A j \in 1..Len(todo') : todo'[j] # "PASV"
    BY <2>1 DEF Commands, Expecting
  <2>3. /\ replies' \in Seq(Reply) /\ Len(replies') \in 0..1
        /\ \A i \in 1..Len(replies') :
             /\ i = 1 /\ replies'[i].cmd = "HELLO" /\ replies'[i].call = 0
             /\ replies'[i].code \in {2, 4}
        /\ (~up' => Len(replies') = 0)
        /\ up' \in BOOLEAN
    <3>1. CASE up' = FALSE /\ replies' = <<>>
      <4>1. replies' \in Seq(Reply) /\ Len(replies') = 0
        BY <3>1
      <4>2. up' \in BOOLEAN
        BY <3>1, Zenon
      <4> QED
        BY <3>1, <4>1, <4>2
    <3>2. CASE /\ up' = TRUE
               /\ \E code \in {2, 4} : replies' = <<[code |-> code, cmd |-> "HELLO", call |-> 0]>>
      <4>0. PICK code \in {2, 4} : replies' = <<[code |-> code, cmd |-> "HELLO", call |-> 0]>>
        BY <3>2
      <4> DEFINE r == [code |-> code, cmd |-> "HELLO", call |-> 0]
      <4>1. r.cmd = "HELLO" /\ r.call = 0 /\ r.code \in {2, 4} /\ r \in Reply
        BY <1>0, Shapes DEF Reply, Commands
      <4>2. replies' = <<r>>
        BY <4>0
      <4> HIDE DEF r
      <4> QED
        BY <3>2, <4>1, <4>2
    <3> QED
      BY <1>4, <3>1, <3>2
  <2> HIDE <2>1
  <2>4. TypeOK'
    <3>1. nData' = (pc' \in {"preliminary", "data", "close"})
      BY <1>1, <1>2, <1>4, Closed
    <3>2. /\ pc' \in PCs /\ ((pc' \in {"start", "idle"}) = (todo' = <<>>))
          /\ result' \in {"none", "ok", "failed", "list"}
      BY <1>0, <1>4, <2>2 DEF PCs, TypeOK
    <3>3. /\ offset' \in 0..Length /\ is_connected' \in BOOLEAN /\ address' \in 0..MaxCalls
          /\ commands' \in Seq(Command)
          /\ logged_in' \in BOOLEAN /\ listening' \in -1..MaxCalls
          /\ rest' \in 0..Length /\ job' \in Transfers \cup {"none"} /\ strayed' \in BOOLEAN
          /\ response' \in Reply
      BY <1>0, <1>2, Zenon DEF TypeOK, Command
    <3>4. UNCHANGED <<call, moved, wire, from, at_server, calls, carried, cut>>
      BY <1>2
    <3>5. handle' \in {"none", "open", "closed"}
      BY <1>4
    <3> QED
      BY <1>0, <2>2, <2>3, <3>1, <3>2, <3>3, <3>4, <3>5, ControlTypes, Zenon
  <2>5. Script(call)' = Script(call)
    BY <1>2 DEF Script, Access
  <2>6. Untouched' /\ Following'
    <3>1. /\ Len(todo') <= Len(Script(call)')
          /\ \A j \in 1..Len(todo') : todo'[j] = Script(call)'[Len(Script(call)') - Len(todo') + j]
      <4>1. Script(call)' = todo'
        BY <1>4, <2>5
      <4>2. 3 <= 3 /\ \A j \in 1..3 : 3 - 3 + j = j
        OBVIOUS
      <4>3. Len(todo') = 3 /\ Len(Script(call)') = 3
        BY <2>2, <4>1, Zenon
      <4> HIDE DEF Script
      <4>4. ASSUME NEW j \in 1..Len(todo')
            PROVE  todo'[j] = Script(call)'[Len(Script(call)') - Len(todo') + j]
        BY <4>1, <4>2, <4>3, Zenon
      <4> QED
        BY <4>2, <4>3, <4>4, Zenon
    <3>2. Expecting' \notin Transfers
      BY <2>2 DEF Transfers
    <3> QED
      BY <1>1, <1>2, <1>4, <3>1, <3>2 DEF Untouched, Following, Transferring
  <2>7. Numbers' /\ Doomed' /\ Jobs' /\ Hung'
    <3>1. \A i \in 1..Len(replies') : replies'[i].call <= calls'
      BY <1>1, <1>2, <2>3
    <3> QED
      BY <1>0, <1>1, <1>2, <1>4, <3>1 DEF Numbers, Doomed, Jobs, Hung, IsPasv, Transferring
  <2>8. Announced'
    BY <2>3 DEF Announced
  <2>9. PasvOnce' /\ OwnBefore'
    BY <1>4, <2>2 DEF PasvOnce, PasvAhead, PasvSent, OwnBefore, Transfers
  <2>10. OwnTransfer' /\ OtherTransfer' /\ Pieces'
    BY <1>4 DEF OwnTransfer, OtherTransfer, Pieces, Transferring
  <2>11. InStep'
    <3>1. \A i \in 1..Len(replies') :
              \/ replies'[i].code = 4 /\ ~up'
              \/ /\ i = 1 /\ commands' = <<>>
                 /\ replies'[1].cmd = Expecting' /\ replies'[1].call = calls'
                 /\ replies'[1].code \in {2, 3} => Expecting' \in carried' \cup {"HELLO"}
      BY <1>1, <1>2, <2>2, <2>3
    <3> QED
      BY <1>1, <1>2, <1>4, <2>2, <3>1 DEF InStep, PasvSent, Transferring, Transfers
  <2>12. Done' /\ Settled' /\ SuccessIsReal' /\ WholeFileMoved'
    BY <1>1, <1>2, <1>4 DEF Done, Strict, Settled, SuccessIsReal, WholeFileMoved, Returned
  <2> QED
    BY <2>4, <2>6, <2>7, <2>8, <2>9, <2>10, <2>11, <2>12 DEF FtpInv
<1> QED
  BY <1>3, <1>4 DEF Connect

\* An operation is called: its number is greater than all that are under way.
LEMMA CallStep == ASSUME FtpInv, NEW request \in Requests, Call(request) PROVE FtpInv'
<1>0. /\ TypeOK /\ Following /\ Numbers /\ Doomed /\ Jobs /\ Hung /\ Announced /\ InStep /\ pc = "idle"
  BY DEF FtpInv, Call
<1>1. request \in [name : Names, at : 0..Length] /\ request.name \in Names /\ request.at \in 0..Length
  BY FtpAssumption
<1>2. /\ call' = request /\ calls' = calls + 1 /\ carried' = {} /\ cut' = "no" /\ moved' = 0
      /\ calls < MaxCalls
      /\ UNCHANGED <<handle, is_connected, response, nData, address, commands, replies, wire,
                     up, logged_in, listening, rest, job, from, at_server, strayed>>
  BY DEF Call, server
<1>3. \/ pc' = "idle" /\ todo' = <<>> /\ result' = "failed"
      \/ pc' = "send" /\ todo' = Script(request) /\ result' = "none"
  BY DEF Call, Return
<1>4. /\ offset' \in 0..Length
      /\ request.name \in {"Get", "GetRange", "Put"} => offset' = request.at
      /\ request.name = "ListDir" => offset' = 0
  <2>1. CASE request.name \in {"Get", "GetRange", "Put"}
    BY <1>1, <2>1 DEF Call
  <2>2. CASE request.name = "ListDir"
    BY <1>0, <2>2, Shapes DEF Call
  <2>3. CASE request.name \notin {"Get", "GetRange", "Put", "ListDir"}
    BY <1>0, <2>3 DEF Call, TypeOK
  <2> QED
    BY <2>1, <2>2, <2>3
<1>5. /\ calls \in Nat /\ calls' \in Nat /\ calls' \in 0..MaxCalls /\ calls' > 0 /\ address \in Nat
      /\ address < calls' /\ listening < calls' /\ listening \in Int
      /\ address <= calls' /\ listening <= calls'
      /\ \A i \in 1..Len(commands) : commands[i].call < calls' /\ commands[i].call <= calls'
      /\ \A i \in 1..Len(replies) : replies[i].call < calls' /\ replies[i].call <= calls'
  <2>1. /\ calls \in Nat /\ address \in Nat /\ listening \in Int /\ MaxCalls \in Nat
        /\ \A i \in 1..Len(commands) : commands[i].call \in Nat
        /\ \A i \in 1..Len(replies) : replies[i].call \in Nat
    BY <1>0, Shapes
  <2>2. /\ address <= calls /\ listening <= calls
        /\ \A i \in 1..Len(commands) : commands[i].call <= calls
        /\ \A i \in 1..Len(replies) : replies[i].call <= calls
    BY <1>0 DEF Numbers
  <2>3. calls' = calls + 1 /\ calls < MaxCalls
    BY <1>2
  <2>4. ASSUME NEW n \in Int, n <= calls PROVE n < calls' /\ n <= calls'
    BY <2>1, <2>3, <2>4
  <2>5. calls' \in Nat /\ calls' \in 0..MaxCalls /\ calls' > 0
    BY <2>1, <2>3
  <2>6. \A i \in 1..Len(commands) : commands[i].call < calls' /\ commands[i].call <= calls'
    BY <2>1, <2>2, <2>4
  <2>7. \A i \in 1..Len(replies) : replies[i].call < calls' /\ replies[i].call <= calls'
    BY <2>1, <2>2, <2>4
  <2>8. address < calls' /\ address <= calls' /\ listening < calls' /\ listening <= calls'
    BY <2>1, <2>2, <2>4
  <2> QED
    BY <2>1, <2>5, <2>6, <2>7, <2>8
<1>6. job = "none" /\ wire = 0
  BY <1>0, Shapes DEF Jobs, Transferring
<1>7. /\ Script(request) \in Seq(Commands) /\ Len(Script(request)) \in 1..4
      /\ Script(request) # <<>> /\ Head(Script(request)) = Script(request)[1]
      /\ Script(request)[1] \notin Transfers \cup {"REST"}
  <2>1. /\ Script(request) \in Seq(Commands) /\ Len(Script(request)) \in 1..4
        /\ \A i \in 1..Len(Script(request)) :
             /\ Script(request)[i] = "REST" => i > 1
             /\ Script(request)[i] \in Transfers => i > 1
    BY <1>1, ScriptIs
  <2>2. Script(request) # <<>> /\ 1 \in 1..Len(Script(request))
    BY <2>1, EmptyIs
  <2>3. Head(Script(request)) = Script(request)[1]
    BY <2>1, <2>2, TailIs, Zenon
  <2> QED
    BY <2>1, <2>2, <2>3
<1>8. TypeOK'
  <2>1. nData' = (pc' \in {"preliminary", "data", "close"})
    <3>1. nData = FALSE
      BY <1>0, DataOpen
    <3> QED
      BY <1>2, <1>3, <3>1, Closed
  <2>2. todo' \in Seq(Commands) /\ ((pc' \in {"start", "idle"}) = (todo' = <<>>))
    <3>1. CASE pc' = "idle" /\ todo' = <<>>
      BY <3>1
    <3>2. CASE pc' = "send" /\ todo' = Script(request)
      BY <1>7, <3>2
    <3> QED
      BY <1>3, <3>1, <3>2
  <2>3. /\ pc' \in PCs /\ result' \in {"none", "ok", "failed", "list"} /\ cut' \in {"no", "disk", "reset"}
        /\ carried' \subseteq Commands
    BY <1>2, <1>3 DEF PCs
  <2>4. call' \in [name : Names \cup {"Connect"}, at : 0..Length]
    BY <1>1, <1>2
  <2>5. moved' \in 0..Length
    BY <1>0, <1>2, Shapes
  <2>6. /\ offset' \in 0..Length /\ calls' \in 0..MaxCalls
    BY <1>4, <1>5
  <2> QED
    BY <1>0, <1>2, <2>1, <2>2, <2>3, <2>4, <2>5, <2>6, Zenon DEF TypeOK, PCs
<1>9. Untouched'
  BY <1>3 DEF Untouched
<1>10. Following'
  <2>1. call'.name # "Connect" /\ calls' # 0
    BY <1>1, <1>2, <1>5 DEF Names
  <2>2. ~Transferring' /\ pc' # "reply"
    BY <1>3 DEF Transferring
  <2>3. todo' # <<>> =>
          /\ Len(todo') <= Len(Script(call)')
          /\ \A j \in 1..Len(todo') : todo'[j] = Script(call)'[Len(Script(call)') - Len(todo') + j]
    <3> SUFFICES ASSUME todo' # <<>>
                 PROVE  /\ Len(todo') <= Len(Script(call)')
                        /\ \A j \in 1..Len(todo') :
                             todo'[j] = Script(call)'[Len(Script(call)') - Len(todo') + j]
      OBVIOUS
    <3>1. todo' = Script(request) /\ Script(call)' = Script(request)
      BY <1>2, <1>3 DEF Script, Access
    <3> DEFINE n == Len(Script(request))
    <3>2. n <= n /\ \A j \in 1..n : n - n + j = j
      BY <1>7
    <3> HIDE DEF n
    <3>3. Len(todo') = n /\ Len(Script(call)') = n
      BY <3>1, Zenon DEF n
    <3>4. ASSUME NEW j \in 1..Len(todo')
          PROVE  todo'[j] = Script(call)'[Len(Script(call)') - Len(todo') + j]
      BY <3>1, <3>2, <3>3, Zenon
    <3> QED
      BY <3>2, <3>3, <3>4, Zenon
  <2> QED
    BY <1>2, <1>4, <2>1, <2>2, <2>3 DEF Following
<1>11. Numbers'
  <2>1. /\ address' <= calls' /\ listening' <= calls' /\ listening' # 0
        /\ \A i \in 1..Len(commands') : commands'[i].call <= calls'
        /\ \A i \in 1..Len(replies') : replies'[i].call <= calls'
    BY <1>0, <1>2, <1>5 DEF Numbers
  <2>2. /\ \A i \in 1..Len(commands') :
             IsPasv(commands, i)' => commands'[i].call > 0 /\ commands'[i].call > listening'
        /\ \A i, j \in 1..Len(commands') :
             i < j /\ IsPasv(commands, i)' /\ IsPasv(commands, j)' => commands'[i].call < commands'[j].call
    BY <1>0, <1>2 DEF Numbers, IsPasv
  <2> QED
    BY <2>1, <2>2, Zenon DEF Numbers
<1>12. ~PasvSent'
  <2>1. pc' = "send" => Expecting' \notin Transfers \cup {"REST"}
    BY <1>3, <1>7 DEF Expecting
  <2> QED
    BY <1>3, <2>1 DEF PasvSent
<1>13. PasvOnce'
  <2>1. \A i \in 1..Len(commands') : ~OwnPasv(commands, i)'
    BY <1>2, <1>5 DEF OwnPasv
  <2>2. \A i \in 1..Len(replies') : ~OwnPasv(replies, i)'
    BY <1>2, <1>5 DEF OwnPasv
  <2>3. listening' # calls'
    BY <1>2, <1>5
  <2> QED
    BY <1>3, <1>12, <2>1, <2>2, <2>3 DEF PasvOnce
<1>14. Doomed' /\ Announced'
  BY <1>0, <1>2 DEF Doomed, Announced, IsPasv
<1>15. Jobs'
  BY <1>0, <1>2, <1>3, <1>6, Shapes DEF Jobs
<1>16. Hung'
  BY <1>0, <1>2 DEF Hung
<1>17. OwnBefore'
  <2>1. pc' = "send" => Expecting' \notin Transfers \cup {"REST"}
    BY <1>3, <1>7 DEF Expecting
  <2> QED
    BY <1>3, <2>1 DEF OwnBefore
<1>18. OwnTransfer' /\ OtherTransfer' /\ Pieces'
  BY <1>3 DEF OwnTransfer, OtherTransfer, Pieces, Transferring
<1>19. InStep'
  BY <1>0, <1>2, <1>3, <1>12 DEF InStep, Transferring
<1>20. Done'
  <2>1. CASE pc' = "idle"
    BY <2>1 DEF Done, Busy
  <2>2. CASE todo' = Script(request)
    <3>1. Script(call)' = Script(request)
      BY <1>2 DEF Script, Access
    <3> DEFINE n == Len(Script(request))
    <3>2. \A i \in 1..n : ~(i <= n - n)
      BY <1>7
    <3> HIDE DEF n
    <3>3. Len(todo') = n /\ Len(Script(call)') = n
      BY <2>2, <3>1, Zenon DEF n
    <3> QED
      BY <3>2, <3>3, Zenon DEF Done
  <2> QED
    BY <1>3, <2>1, <2>2
<1>21. Settled' /\ SuccessIsReal' /\ WholeFileMoved'
  BY <1>3 DEF Settled, SuccessIsReal, WholeFileMoved, Returned
<1> QED
  BY <1>8, <1>9, <1>10, <1>11, <1>13, <1>14, <1>15, <1>16, <1>17, <1>18, <1>19, <1>20, <1>21 DEF FtpInv

\* A command behind the others, if the server is there.
Sent(e) ==
  /\ commands' \in Seq(Command)
  /\ up => /\ Len(commands') = Len(commands) + 1 /\ commands'[Len(commands) + 1] = e
           /\ \A i \in 1..Len(commands) : commands'[i] = commands[i]
  /\ ~up => commands' = commands

\* What sending a command does to the commands under way.
LEMMA SentIs ==
  ASSUME TypeOK, NEW e \in Command, commands' = IF up THEN Append(commands, e) ELSE commands
  PROVE  Sent(e)
<1>1. commands \in Seq(Command)
  BY Shapes
<1>2. /\ Append(commands, e) \in Seq(Command) /\ Len(Append(commands, e)) = Len(commands) + 1
      /\ \A i \in 1..Len(commands) : Append(commands, e)[i] = commands[i]
      /\ Append(commands, e)[Len(commands) + 1] = e
  BY <1>1, AppendIs, Zenon
<1>3. CASE up
  BY <1>2, <1>3 DEF Sent
<1>4. CASE ~up
  BY <1>1, <1>4 DEF Sent
<1> QED
  BY <1>3, <1>4

\* Each of them is one of before or the new one.
LEMMA SentCases ==
  ASSUME TypeOK, NEW e, Sent(e), NEW i \in 1..Len(commands')
  PROVE  \/ i \in 1..Len(commands) /\ commands'[i] = commands[i]
         \/ up /\ i = Len(commands) + 1 /\ commands'[i] = e /\ i = Len(commands')
<1>1. Len(commands) \in Nat
  BY Shapes
<1>2. CASE up
  BY <1>1, <1>2 DEF Sent
<1>3. CASE ~up
  BY <1>1, <1>3 DEF Sent
<1> QED
  BY <1>2, <1>3

\* Where the PASV of the call is, when its transfer is next.
LEMMA PasvIsSent ==
  ASSUME FtpInv, pc \in {"send", "reply"}, Expecting \in Transfers \cup {"REST"}, up
  PROVE  \/ \E i \in 1..Len(commands) : OwnPasv(commands, i)
         \/ listening \in {-1, calls} /\ \A i \in 1..Len(commands) : ~IsPasv(commands, i)
BY DEF FtpInv, PasvOnce, PasvSent

\* A command is sent; its PASV carries the number of the call.
LEMMA SendStep == ASSUME FtpInv, Send PROVE FtpInv'
<1> DEFINE e == [cmd |-> Expecting, call |-> calls, at |-> offset, data |-> 0]
<1>0. /\ TypeOK /\ Following /\ Numbers /\ PasvOnce /\ Doomed /\ Jobs /\ Hung /\ Announced
      /\ OwnBefore /\ InStep /\ Done /\ pc = "send" /\ Expecting \notin Transfers
  BY DEF FtpInv, Send
<1>1. /\ pc' = "reply" /\ commands' = IF up THEN Append(commands, e) ELSE commands
      /\ UNCHANGED <<handle, is_connected, offset, response, call, todo, nData, address, moved, result,
                     replies, wire, up, logged_in, listening, rest, job, from, at_server, calls,
                     carried, strayed, cut>>
  BY DEF Send, server, history
<1>2. /\ todo # <<>> /\ job = "none" /\ wire = 0 /\ moved = 0 /\ nData = FALSE
      /\ Expecting = todo[1] /\ Expecting \in Commands
  BY <1>0, Between
<1>3. e \in Command /\ e.cmd = Expecting /\ e.call = calls /\ e.data = 0 /\ e.at = offset
  BY <1>0, <1>2, Shapes DEF Command, TypeOK
<1> HIDE DEF e
<1>4. Sent(e)
  BY <1>0, <1>1, <1>3, SentIs
<1>5. \A i \in 1..Len(commands') :
         \/ i \in 1..Len(commands) /\ commands'[i] = commands[i]
         \/ up /\ i = Len(commands) + 1 /\ commands'[i] = e /\ i = Len(commands')
  BY <1>0, <1>4, SentCases
<1>6. /\ calls \in Nat /\ calls <= MaxCalls /\ listening \in Int /\ Len(commands) \in Nat /\ address \in Nat
      /\ Len(replies) \in Nat /\ (replies = <<>> <=> Len(replies) = 0)
      /\ (commands = <<>> <=> Len(commands) = 0)
      /\ \A i \in 1..Len(commands) : commands[i].call \in Nat /\ commands[i].data \in Nat
  BY <1>0, Shapes
<1>7. up \in BOOLEAN
  BY <1>0, Zenon DEF TypeOK
<1>8. up => /\ Len(commands') = Len(commands) + 1 /\ commands'[Len(commands) + 1] = e
            /\ \A i \in 1..Len(commands) : commands'[i] = commands[i] /\ i \in 1..Len(commands')
            /\ Len(commands') \in 1..Len(commands')
  BY <1>4, <1>6 DEF Sent
<1>9. /\ \A j \in 1..Len(todo) : todo[j] = "PASV" => calls > 0
      /\ Expecting = "PASV" => calls > 0 /\ \A j \in 2..Len(todo) : todo[j] # "PASV"
      /\ Expecting \in {"REST"} => \A j \in 1..Len(todo) : todo[j] # "PASV"
      /\ Len(todo) \in 1..4
  <2>1. pc # "undefined"
    BY <1>0
  <2> QED
    BY <1>0, <1>2, <2>1, Position
<1>10. TypeOK'
  <2>1. nData' = (pc' \in {"preliminary", "data", "close"})
    BY <1>1, <1>2, Closed
  <2>2. /\ pc' \in PCs /\ todo' \in Seq(Commands) /\ ((pc' \in {"start", "idle"}) = (todo' = <<>>))
        /\ result' \in {"none", "ok", "failed", "list"}
    BY <1>0, <1>1, <1>2 DEF PCs, TypeOK
  <2>3. commands' \in Seq(Command)
    BY <1>4 DEF Sent
  <2>4. /\ offset' \in 0..Length /\ is_connected' \in BOOLEAN /\ address' \in 0..MaxCalls
        /\ handle' \in {"none", "open", "closed"}
        /\ up' \in BOOLEAN /\ logged_in' \in BOOLEAN /\ listening' \in -1..MaxCalls
        /\ rest' \in 0..Length /\ job' \in Transfers \cup {"none"} /\ strayed' \in BOOLEAN
        /\ replies' \in Seq(Reply) /\ response' \in Reply
    BY <1>0, <1>1, Zenon DEF TypeOK, Command
  <2>5. UNCHANGED <<call, moved, wire, from, at_server, calls, carried, cut>>
    BY <1>1
  <2> QED
    BY <1>0, <2>1, <2>2, <2>3, <2>4, <2>5, ControlTypes, Zenon
<1>11. Untouched'
  BY <1>1 DEF Untouched
<1>12. Following'
  BY <1>0, <1>1, FollowingKept DEF Transferring
<1>p. /\ Expecting' = Expecting /\ pc' = "reply"
      /\ PasvAhead' => PasvAhead
  BY <1>0, <1>1 DEF Expecting, PasvAhead
<1>13. Expecting = "PASV" => /\ PasvAhead
                             /\ \A i \in 1..Len(commands) : ~OwnPasv(commands, i)
                             /\ \A i \in 1..Len(replies) : ~OwnPasv(replies, i)
                             /\ listening # calls
  <2>1. Expecting = "PASV" => PasvAhead
    <3>1. Expecting = "PASV" => 1 \in 1..Len(todo) /\ todo[1] = "PASV"
      BY <1>2, <1>9
    <3> QED
      BY <1>0, <3>1 DEF PasvAhead
  <2> QED
    BY <1>0, <2>1 DEF PasvOnce
<1>14. Numbers'
  <2>1. \A i \in 1..Len(commands') : commands'[i].call <= calls
    BY <1>0, <1>3, <1>5, <1>6 DEF Numbers
  <2>2. ASSUME NEW i \in 1..Len(commands'), IsPasv(commands, i)'
        PROVE  commands'[i].call > 0 /\ commands'[i].call > listening
    <3>1. CASE i \in 1..Len(commands) /\ commands'[i] = commands[i]
      BY <1>0, <2>2, <3>1 DEF Numbers, IsPasv
    <3>2. CASE commands'[i] = e
      <4>1. Expecting = "PASV"
        BY <1>3, <2>2, <3>2 DEF IsPasv
      <4>2. calls > 0 /\ listening <= calls /\ listening # calls
        BY <1>0, <1>9, <1>13, <4>1 DEF Numbers
      <4>3. calls > listening
        BY <1>6, <4>2
      <4> QED
        BY <1>3, <3>2, <4>2, <4>3
    <3> QED
      BY <1>5, <3>1, <3>2
  <2>3. ASSUME NEW i \in 1..Len(commands'), NEW j \in 1..Len(commands'), i < j,
               IsPasv(commands, i)', IsPasv(commands, j)'
        PROVE  commands'[i].call < commands'[j].call
    <3>1. CASE j \in 1..Len(commands) /\ commands'[j] = commands[j]
      <4>1. i \in 1..Len(commands) /\ commands'[i] = commands[i]
        BY <1>5, <1>6, <2>3, <3>1
      <4> QED
        BY <1>0, <2>3, <3>1, <4>1 DEF Numbers, IsPasv
    <3>2. CASE j = Len(commands) + 1 /\ commands'[j] = e
      <4>1. i \in 1..Len(commands) /\ commands'[i] = commands[i]
        BY <1>5, <1>6, <2>3, <3>2
      <4>2. Expecting = "PASV" /\ commands[i].cmd = "PASV"
        BY <1>3, <2>3, <3>2, <4>1 DEF IsPasv
      <4>3. commands[i].call # calls /\ commands[i].call <= calls
        BY <1>0, <1>13, <4>1, <4>2 DEF OwnPasv, Numbers
      <4>4. commands[i].call < calls
        BY <1>6, <4>1, <4>3
      <4> QED
        BY <1>3, <3>2, <4>1, <4>4
    <3> QED
      BY <1>5, <3>1, <3>2
  <2>4. /\ address' <= calls /\ listening' <= calls /\ listening' # 0
        /\ \A i \in 1..Len(replies') : replies'[i].call <= calls
    BY <1>0, <1>1 DEF Numbers
  <2> QED
    BY <1>1, <2>1, <2>2, <2>3, <2>4 DEF Numbers
<1>15. PasvOnce'
  <2>1. PasvAhead' => /\ \A i \in 1..Len(commands') : ~OwnPasv(commands, i)'
                      /\ \A i \in 1..Len(replies') : ~OwnPasv(replies, i)'
                      /\ listening' # calls'
    <3> SUFFICES ASSUME PasvAhead'
                 PROVE  /\ \A i \in 1..Len(commands') : ~OwnPasv(commands, i)'
                        /\ \A i \in 1..Len(replies') : ~OwnPasv(replies, i)'
                        /\ listening' # calls'
      OBVIOUS
    <3>1. PasvAhead /\ Expecting # "PASV"
      <4>1. PICK j \in 1..Len(todo) : todo[j] = "PASV" /\ j > 1
        BY <1>1 DEF PasvAhead
      <4>2. j \in 2..Len(todo)
        BY <1>9, <4>1
      <4> QED
        BY <1>9, <4>1, <4>2 DEF PasvAhead
    <3>2. /\ \A i \in 1..Len(commands) : ~OwnPasv(commands, i)
          /\ \A i \in 1..Len(replies) : ~OwnPasv(replies, i)
          /\ listening # calls
      BY <1>0, <3>1 DEF PasvOnce
    <3>3. \A i \in 1..Len(commands') : ~OwnPasv(commands, i)'
      BY <1>1, <1>3, <1>5, <3>1, <3>2 DEF OwnPasv
    <3> QED
      BY <1>1, <3>2, <3>3 DEF OwnPasv
  <2>2. Expecting = "PASV" =>
          /\ \A i \in 1..Len(commands') : OwnPasv(commands, i)' => i = Len(commands')
          /\ \A i \in 1..Len(replies') : ~OwnPasv(replies, i)'
    BY <1>1, <1>5, <1>13 DEF OwnPasv
  <2>3. PasvSent' /\ up =>
          \/ \E i \in 1..Len(commands') : OwnPasv(commands, i)'
          \/ listening \in {-1, calls} /\ \A i \in 1..Len(commands') : ~IsPasv(commands, i)'
    <3> SUFFICES ASSUME PasvSent', up
                 PROVE  \/ \E i \in 1..Len(commands') : OwnPasv(commands, i)'
                        \/ listening \in {-1, calls} /\ \A i \in 1..Len(commands') : ~IsPasv(commands, i)'
      OBVIOUS
    <3>1. CASE Expecting = "PASV"
      <4>1. PICK h \in 1..Len(commands') : h = Len(commands) + 1
        BY <1>6, <1>8
      <4>2. commands'[h] = e
        BY <1>8, <4>1
      <4>3. OwnPasv(commands, h)'
        BY <1>1, <1>3, <3>1, <4>2 DEF OwnPasv
      <4> QED
        BY <4>3
    <3>2. CASE Expecting = "REST"
      <4>1. \/ \E i \in 1..Len(commands) : OwnPasv(commands, i)
            \/ listening \in {-1, calls} /\ \A i \in 1..Len(commands) : ~IsPasv(commands, i)
        BY <1>0, <3>2, PasvIsSent
      <4>2. ASSUME NEW i \in 1..Len(commands), OwnPasv(commands, i)
            PROVE  \E h \in 1..Len(commands') : OwnPasv(commands, h)'
        BY <1>1, <1>8, <4>2 DEF OwnPasv
      <4>3. ASSUME \A i \in 1..Len(commands) : ~IsPasv(commands, i)
            PROVE  \A i \in 1..Len(commands') : ~IsPasv(commands, i)'
        BY <1>3, <1>5, <3>2, <4>3 DEF IsPasv
      <4> QED
        BY <4>1, <4>2, <4>3
    <3> QED
      BY <1>0, <1>1, <1>p, <3>1, <3>2 DEF PasvSent
  <2> QED
    BY <1>1, <1>p, <2>1, <2>2, <2>3 DEF PasvOnce
<1>16. Doomed'
  <2> SUFFICES ASSUME NEW i \in 1..Len(commands'), commands'[i].cmd \in Transfers, commands'[i].data # 0
               PROVE  /\ \A j \in 1..Len(commands') : IsPasv(commands, j)' => commands'[j].call > commands'[i].data
                      /\ commands'[i].data < commands'[i].call
                      /\ \/ listening # commands'[i].data
                         \/ \E j \in 1..Len(commands') : j < i /\ IsPasv(commands, j)'
    BY <1>1 DEF Doomed
  <2>1. i \in 1..Len(commands) /\ commands'[i] = commands[i]
    BY <1>0, <1>3, <1>5
  <2>2. /\ \A j \in 1..Len(commands) : IsPasv(commands, j) => commands[j].call > commands[i].data
        /\ commands[i].data < commands[i].call
        /\ \/ listening # commands[i].data
           \/ \E j \in 1..Len(commands) : j < i /\ IsPasv(commands, j)
    BY <1>0, <2>1 DEF Doomed
  <2>3. commands[i].data < calls
    BY <1>0, <1>6, <2>1, <2>2 DEF Numbers
  <2>4. ASSUME NEW j \in 1..Len(commands'), IsPasv(commands, j)' PROVE commands'[j].call > commands[i].data
    <3>1. CASE j \in 1..Len(commands) /\ commands'[j] = commands[j]
      BY <2>2, <2>4, <3>1 DEF IsPasv
    <3>2. CASE commands'[j] = e
      BY <1>3, <1>6, <2>1, <2>3, <3>2
    <3> QED
      BY <1>5, <3>1, <3>2
  <2>5. ASSUME NEW j \in 1..Len(commands), j < i, IsPasv(commands, j)
        PROVE  \E h \in 1..Len(commands') : h < i /\ IsPasv(commands, h)'
    <3>1. j \in 1..Len(commands') /\ commands'[j] = commands[j]
      BY <1>4, <1>7, <1>8 DEF Sent
    <3> QED
      BY <2>5, <3>1 DEF IsPasv
  <2> QED
    BY <2>1, <2>2, <2>4, <2>5
<1>17. Jobs' /\ Announced'
  BY <1>0, <1>1, <1>2 DEF Jobs, Announced
<1>18. Hung'
  <2>1. \A i \in 1..Len(commands') : commands'[i].cmd = "QUIT" => i = Len(commands') /\ Expecting = "QUIT"
    BY <1>0, <1>3, <1>5 DEF Hung
  <2>2. ~up => commands' = <<>>
    BY <1>0, <1>4 DEF Hung, Sent
  <2> QED
    BY <1>1, <1>p, <2>1, <2>2 DEF Hung
<1>19. OwnBefore'
  <2> SUFFICES ASSUME Expecting = "REST", Own, up
               PROVE  /\ listening = calls /\ replies = <<>> /\ Len(commands') = 1
                      /\ commands'[1].cmd = "REST" /\ commands'[1].at = offset
    BY <1>1, <1>p DEF OwnBefore, Own
  <2>1. commands = <<>> /\ replies = <<>> /\ listening = calls
    BY <1>0 DEF OwnBefore
  <2>2. Len(commands) + 1 = 1
    BY <2>1, <1>6
  <2> QED
    BY <1>3, <1>8, <2>1, <2>2
<1>20. OwnTransfer' /\ OtherTransfer' /\ Pieces'
  BY <1>1 DEF OwnTransfer, OtherTransfer, Pieces, Transferring
<1>21. InStep'
  <2> SUFFICES ASSUME ~strayed PROVE InStep'
    BY <1>1 DEF InStep
  <2>1. commands = <<>> /\ \A i \in 1..Len(replies) : replies[i].code = 4 /\ ~up
    BY <1>0 DEF InStep
  <2>2. up => /\ Len(commands') = 1 /\ replies = <<>>
              /\ commands'[1].cmd = Expecting /\ commands'[1].call = calls
    <3> SUFFICES ASSUME up PROVE /\ Len(commands') = 1 /\ replies = <<>>
                                 /\ commands'[1].cmd = Expecting /\ commands'[1].call = calls
      OBVIOUS
    <3>1. Len(commands) + 1 = 1
      BY <1>6, <2>1
    <3>2. Len(replies) = 0
      BY <1>6, <2>1
    <3> QED
      BY <1>3, <1>6, <1>8, <3>1, <3>2
  <2>3. ~up => commands' = <<>>
    BY <1>4, <2>1 DEF Sent
  <2>4. \A i \in 1..Len(replies) : replies[i].code = 4 /\ ~up
    BY <2>1
  <2>5. PasvSent' /\ Expecting # "PASV" => Own
    BY <1>0, <1>1, <1>p DEF InStep, PasvSent
  <2> QED
    BY <1>1, <1>p, <2>2, <2>3, <2>4, <2>5 DEF InStep, Transferring, Own
<1>22. Done'
  BY <1>0, <1>1 DEF Done, Busy
<1>23. Settled' /\ SuccessIsReal' /\ WholeFileMoved'
  BY <1>1 DEF Settled, SuccessIsReal, WholeFileMoved, Returned
<1> QED
  BY <1>10, <1>11, <1>12, <1>14, <1>15, <1>16, <1>17, <1>18, <1>19, <1>20, <1>21, <1>22, <1>23 DEF FtpInv

\* The transfer command is sent, with the address the client has connected to.
LEMMA OpenDataStep == ASSUME FtpInv, NEW connected \in {TRUE, FALSE}, OpenData(connected) PROVE FtpInv'
<1> DEFINE e == [cmd |-> Expecting, call |-> calls, at |-> offset,
                 data |-> IF connected THEN address ELSE 0]
<1>0. /\ TypeOK /\ Following /\ Numbers /\ PasvOnce /\ Doomed /\ Jobs /\ Hung /\ Announced
      /\ OwnBefore /\ InStep /\ Done /\ pc = "send" /\ Expecting \in Transfers
  BY DEF FtpInv, OpenData
<1>1. /\ commands' = IF up THEN Append(commands, e) ELSE commands
      /\ connected => up /\ address = listening
      /\ UNCHANGED <<handle, is_connected, offset, response, call, address, moved, replies, wire,
                     up, logged_in, listening, rest, job, from, at_server, calls, carried, cut>>
  BY DEF OpenData, Reachable, server
<1>2. \/ connected = TRUE /\ pc' = "preliminary" /\ UNCHANGED <<todo, result>> /\ nData' = TRUE
                   /\ strayed' = strayed
      \/ connected = FALSE /\ pc' = "idle" /\ todo' = <<>> /\ result' \in {"list", "failed"} /\ nData' = FALSE
                    /\ strayed' = TRUE
  <2>1. CASE connected = TRUE
    <3>1. pc' = "preliminary" /\ UNCHANGED <<todo, result>> /\ nData' = TRUE
      BY <2>1 DEF OpenData
    <3>2. strayed' = strayed
      <4>1. strayed \in BOOLEAN /\ strayed' = (strayed \/ ~connected)
        BY <1>0, Zenon DEF OpenData, TypeOK
      <4> QED
        BY <2>1, <4>1
    <3> QED
      BY <2>1, <3>1, <3>2
  <2>2. CASE connected = FALSE
    <3>1. pc' = "idle" /\ todo' = <<>> /\ result' \in {"list", "failed"} /\ nData' = FALSE
      BY <2>2 DEF OpenData, GiveUp, Return
    <3>2. strayed' = TRUE
      <4>1. strayed' = (strayed \/ ~connected)
        BY DEF OpenData
      <4> QED
        BY <2>2, <4>1
    <3> QED
      BY <2>2, <3>1, <3>2
  <2> QED
    BY <2>1, <2>2
<1>3. /\ todo # <<>> /\ job = "none" /\ wire = 0 /\ moved = 0 /\ Expecting \in Commands
  BY <1>0, Between
<1>4. e \in Command /\ e.cmd = Expecting /\ e.call = calls /\ e.at = offset
      /\ (connected = TRUE => e.data = address) /\ (connected = FALSE => e.data = 0)
  BY <1>0, <1>3, Shapes DEF Command, TypeOK
<1> HIDE DEF e
<1>5. Sent(e)
  BY <1>0, <1>1, <1>4, SentIs
<1>6. \A i \in 1..Len(commands') :
         \/ i \in 1..Len(commands) /\ commands'[i] = commands[i]
         \/ up /\ i = Len(commands) + 1 /\ commands'[i] = e /\ i = Len(commands')
  BY <1>0, <1>5, SentCases
<1>7. /\ calls \in Nat /\ calls <= MaxCalls /\ listening \in Int /\ Len(commands) \in Nat /\ address \in Nat
      /\ Len(replies) \in Nat /\ (replies = <<>> <=> Len(replies) = 0)
      /\ (commands = <<>> <=> Len(commands) = 0)
      /\ Length \in Nat /\ offset \in 0..Length /\ from \in Nat /\ at_server \in Nat /\ from <= at_server
      /\ \A i \in 1..Len(commands) : commands[i].call \in Nat /\ commands[i].data \in Nat
  BY <1>0, Shapes DEF TypeOK
<1>8. up => /\ Len(commands') = Len(commands) + 1 /\ commands'[Len(commands) + 1] = e
            /\ \A i \in 1..Len(commands) : commands'[i] = commands[i] /\ i \in 1..Len(commands')
  BY <1>5, <1>7 DEF Sent
<1>9. /\ Len(todo) = 1 /\ calls > 0
      /\ \A j \in 1..Len(todo) : todo[j] # "PASV"
  <2>1. pc # "undefined"
    BY <1>0
  <2> QED
    BY <1>0, <1>3, <2>1, Position
<1>p. /\ pc' \in {"preliminary", "idle"} /\ (pc' = "preliminary" <=> connected = TRUE)
      /\ pc' = "preliminary" => Expecting' = Expecting /\ todo' = todo
  BY <1>2 DEF Expecting
<1>10. TypeOK'
  <2>1. nData' = (pc' \in {"preliminary", "data", "close"})
    <3>1. CASE connected = TRUE
      <4>1. (pc' \in {"preliminary", "data", "close"}) = TRUE /\ nData' = TRUE
        BY <1>2, <3>1
      <4> QED
        BY <4>1, Zenon
    <3>2. CASE connected = FALSE
      <4>1. (pc' \in {"preliminary", "data", "close"}) = FALSE /\ nData' = FALSE
        BY <1>2, <3>2
      <4> QED
        BY <4>1, Zenon
    <3> QED
      BY <3>1, <3>2
  <2>2. /\ pc' \in PCs /\ result' \in {"none", "ok", "failed", "list"}
    BY <1>0, <1>2 DEF PCs, TypeOK
  <2>3. todo' \in Seq(Commands) /\ ((pc' \in {"start", "idle"}) = (todo' = <<>>))
    <3>1. CASE pc' = "preliminary" /\ todo' = todo
      BY <1>0, <1>3, <3>1 DEF TypeOK
    <3>2. CASE pc' = "idle" /\ todo' = <<>>
      BY <3>2
    <3> QED
      BY <1>2, <3>1, <3>2
  <2>4. commands' \in Seq(Command)
    BY <1>5 DEF Sent
  <2>5. /\ offset' \in 0..Length /\ is_connected' \in BOOLEAN /\ address' \in 0..MaxCalls
        /\ handle' \in {"none", "open", "closed"}
        /\ up' \in BOOLEAN /\ logged_in' \in BOOLEAN /\ listening' \in -1..MaxCalls
        /\ rest' \in 0..Length /\ job' \in Transfers \cup {"none"}
        /\ replies' \in Seq(Reply) /\ response' \in Reply
    BY <1>0, <1>1, Zenon DEF TypeOK
  <2>6. strayed' \in BOOLEAN
    BY <1>0, <1>2, Zenon DEF TypeOK
  <2>7. UNCHANGED <<call, moved, wire, from, at_server, calls, carried, cut>>
    BY <1>1
  <2> QED
    BY <1>0, <2>1, <2>2, <2>3, <2>4, <2>5, <2>6, <2>7, ControlTypes, Zenon
<1>11. Untouched'
  BY <1>p DEF Untouched
<1>12. Following'
  <2>1. CASE pc' = "idle"
    BY <1>0, <1>1, <1>2, <2>1 DEF Following, Transferring
  <2>2. CASE pc' = "preliminary"
    <3>1. Script(call)' = Script(call) /\ Quitting' = Quitting
      BY <1>1, <1>2, <2>2 DEF Script, Access, Quitting
    <3>2. ~Quitting
      BY <1>0 DEF Quitting, Expecting, Transfers
    <3>3. /\ Len(todo) <= Len(Script(call))
          /\ \A j \in 1..Len(todo) : todo[j] = Script(call)[Len(Script(call)) - Len(todo) + j]
      BY <1>0, <1>3, <3>2 DEF Following
    <3>4. /\ call.name = "Connect" <=> calls = 0
          /\ call.name \in {"Get", "GetRange", "Put"} => offset = call.at
          /\ call.name = "ListDir" => offset = 0
      BY <1>0 DEF Following
    <3>5. todo' = todo /\ call' = call /\ calls' = calls /\ offset' = offset /\ Expecting' = Expecting
      BY <1>1, <1>p, <2>2
    <3> QED
      BY <1>0, <2>2, <3>1, <3>2, <3>3, <3>4, <3>5 DEF Following
  <2> QED
    BY <1>p, <2>1, <2>2
<1>13. \A i \in 1..Len(commands') :
         IsPasv(commands, i)' => i \in 1..Len(commands) /\ commands'[i] = commands[i] /\ IsPasv(commands, i)
  BY <1>0, <1>4, <1>6 DEF IsPasv, Transfers
<1>14. Numbers'
  <2>1. \A i \in 1..Len(commands') : commands'[i].call <= calls
    BY <1>0, <1>4, <1>6, <1>7 DEF Numbers
  <2>2. \A i \in 1..Len(commands') :
           IsPasv(commands, i)' => commands'[i].call > 0 /\ commands'[i].call > listening
    BY <1>0, <1>13 DEF Numbers
  <2>3. \A i, j \in 1..Len(commands') :
          i < j /\ IsPasv(commands, i)' /\ IsPasv(commands, j)' => commands'[i].call < commands'[j].call
    BY <1>0, <1>13 DEF Numbers
  <2>4. /\ address' <= calls /\ listening' <= calls /\ listening' # 0
        /\ \A i \in 1..Len(replies') : replies'[i].call <= calls
    BY <1>0, <1>1 DEF Numbers
  <2> QED
    BY <1>1, <2>1, <2>2, <2>3, <2>4 DEF Numbers
<1>15. PasvOnce' /\ OwnBefore'
  <2>1. \A j \in 1..Len(todo') : todo'[j] # "PASV"
    BY <1>2, <1>9
  <2>2. ~PasvAhead' /\ ~PasvSent'
    BY <1>p, <2>1 DEF PasvAhead, PasvSent
  <2> QED
    BY <1>p, <2>2 DEF PasvOnce, OwnBefore
<1>16. up /\ connected = TRUE /\ ~Own => \E j \in 1..Len(commands) : IsPasv(commands, j)
  <2> SUFFICES ASSUME up, connected = TRUE, ~Own PROVE \E j \in 1..Len(commands) : IsPasv(commands, j)
    OBVIOUS
  <2>1. \/ \E i \in 1..Len(commands) : OwnPasv(commands, i)
        \/ listening \in {-1, calls} /\ \A i \in 1..Len(commands) : ~IsPasv(commands, i)
    BY <1>0, PasvIsSent
  <2>2. listening \notin {-1, calls}
    BY <1>1, <1>7 DEF Own
  <2> QED
    BY <2>1, <2>2 DEF OwnPasv, IsPasv
<1>17. Doomed'
  <2> SUFFICES ASSUME NEW i \in 1..Len(commands'), commands'[i].cmd \in Transfers, commands'[i].data # 0,
                      ~(pc' = "preliminary" /\ Own)
               PROVE  /\ \A j \in 1..Len(commands') : IsPasv(commands, j)' => commands'[j].call > commands'[i].data
                      /\ commands'[i].data < commands'[i].call
                      /\ \/ listening # commands'[i].data
                         \/ \E j \in 1..Len(commands') : j < i /\ IsPasv(commands, j)'
    BY <1>1 DEF Doomed, Own
  <2>1. ASSUME NEW j \in 1..Len(commands), IsPasv(commands, j)
        PROVE  j \in 1..Len(commands') /\ IsPasv(commands, j)'
    <3>1. j \in 1..Len(commands') /\ commands'[j] = commands[j]
      <4>1. CASE up
        BY <1>8, <4>1
      <4>2. CASE ~up
        BY <1>5, <4>2 DEF Sent
      <4> QED
        BY <4>1, <4>2
    <3> QED
      BY <2>1, <3>1 DEF IsPasv
  <2>2. CASE i \in 1..Len(commands) /\ commands'[i] = commands[i]
    <3>1. /\ \A j \in 1..Len(commands) : IsPasv(commands, j) => commands[j].call > commands[i].data
          /\ commands[i].data < commands[i].call
          /\ \/ listening # commands[i].data
             \/ \E j \in 1..Len(commands) : j < i /\ IsPasv(commands, j)
      BY <1>0, <2>2 DEF Doomed
    <3> QED
      BY <1>13, <2>1, <2>2, <3>1
  <2>3. CASE up /\ i = Len(commands) + 1 /\ commands'[i] = e
    <3>1. connected = TRUE /\ e.data = address /\ address = listening /\ ~Own
      BY <1>1, <1>2, <1>4, <1>p, <2>3
    <3>2. ASSUME NEW j \in 1..Len(commands'), IsPasv(commands, j)' PROVE commands'[j].call > address
      BY <1>0, <1>13, <3>1, <3>2 DEF Numbers
    <3>3. address < calls
      BY <1>0, <1>7, <3>1 DEF Numbers, Own
    <3>4. PICK j \in 1..Len(commands) : IsPasv(commands, j)
      BY <1>16, <2>3, <3>1
    <3>5. j < i
      BY <1>7, <2>3
    <3> QED
      BY <1>4, <2>1, <2>3, <3>1, <3>2, <3>3, <3>4, <3>5
  <2> QED
    BY <1>6, <2>2, <2>3
<1>18. Jobs' /\ Announced'
  BY <1>0, <1>1, <1>3 DEF Jobs, Announced
<1>19. Hung'
  <2>1. \A i \in 1..Len(commands') : commands'[i].cmd # "QUIT"
    BY <1>0, <1>4, <1>6 DEF Hung, Transfers
  <2>2. ~up => commands' = <<>>
    BY <1>0, <1>5 DEF Hung, Sent
  <2> QED
    BY <1>1, <2>1, <2>2 DEF Hung
<1>20. CASE pc' = "idle"
  <2>1. OwnTransfer' /\ OtherTransfer' /\ Pieces'
    BY <1>20 DEF OwnTransfer, OtherTransfer, Pieces, Transferring
  <2>2. InStep' /\ Done'
    BY <1>2, <1>20, <1>p DEF InStep, Done, Busy
  <2>3. Settled' /\ SuccessIsReal' /\ WholeFileMoved'
    BY <1>2, <1>20 DEF Settled, SuccessIsReal, WholeFileMoved, Returned
  <2> QED
    BY <1>10, <1>11, <1>12, <1>14, <1>15, <1>17, <1>18, <1>19, <2>1, <2>2, <2>3 DEF FtpInv
<1>21. CASE pc' = "preliminary"
  <2>0. /\ connected = TRUE /\ up /\ Expecting' = Expecting /\ todo' = todo /\ strayed' = strayed
        /\ Reading' = Reading /\ Own' = Own
    BY <1>1, <1>2, <1>p, <1>21 DEF Reading, Own
  <2>1. commands' # <<>>
    <3>1. Len(commands') > 0
      BY <1>7, <1>8, <2>0
    <3> QED
      BY <3>1
  <2>2. ~Begun' /\ Final' = 2
    BY <1>21, <2>1 DEF Begun, Final
  <2>3. Own => /\ Len(commands') = 1 /\ commands'[1].cmd = Expecting /\ commands'[1].call = calls
               /\ commands'[1].data = calls /\ replies = <<>> /\ listening = calls /\ rest = offset
               /\ Len(replies) = 0
    <3> SUFFICES ASSUME Own
                 PROVE  /\ Len(commands') = 1 /\ commands'[1].cmd = Expecting /\ commands'[1].call = calls
                        /\ commands'[1].data = calls /\ replies = <<>> /\ listening = calls /\ rest = offset
                        /\ Len(replies) = 0
      OBVIOUS
    <3>1. commands = <<>> /\ replies = <<>> /\ listening = calls /\ rest = offset
      BY <1>0, <2>0 DEF OwnBefore
    <3>2. Len(commands) + 1 = 1 /\ Len(replies) = 0
      BY <1>7, <3>1
    <3> QED
      BY <1>4, <1>7, <1>8, <2>0, <3>1, <3>2 DEF Own
  <2>4. OwnTransfer'
    <3> SUFFICES ASSUME Own PROVE OwnTransfer'
      BY <2>0 DEF OwnTransfer
    <3>1. \A i \in 1..Len(replies') : FALSE
      BY <1>1, <2>3
    <3> QED
      BY <1>1, <1>3, <1>9, <1>21, <2>0, <2>2, <2>3, <3>1 DEF OwnTransfer
  <2>5. OtherTransfer'
    BY <1>1, <1>3, <1>21 DEF OtherTransfer
  <2>6. Pieces'
    <3>1. /\ moved' + wire' <= at_server' - from' /\ wire' <= moved' /\ moved' <= Length - offset'
      BY <1>1, <1>3, <1>7
    <3>2. job' = "none" /\ pc' \notin {"data", "close", "final"}
      BY <1>1, <1>3, <1>21
    <3> QED
      BY <2>2, <3>1, <3>2 DEF Pieces
  <2>7. InStep'
    <3>1. ~strayed => Own
      BY <1>0 DEF InStep, PasvSent, Transfers
    <3> QED
      BY <1>21, <2>0, <3>1 DEF InStep, PasvSent
  <2>8. Done'
    BY <1>0, <1>1, <2>0 DEF Done, Busy
  <2>9. Settled' /\ SuccessIsReal' /\ WholeFileMoved'
    BY <1>21 DEF Settled, SuccessIsReal, WholeFileMoved, Returned
  <2> QED
    BY <1>10, <1>11, <1>12, <1>14, <1>15, <1>17, <1>18, <1>19, <2>4, <2>5, <2>6, <2>7, <2>8, <2>9 DEF FtpInv
<1> QED
  BY <1>p, <1>20, <1>21

-------------------------------------------------------------------------------
(* The server's steps.                                                     *)

\* The types, in a step that leaves the client alone.
LEMMA ServerTypes ==
  ASSUME TypeOK, UNCHANGED <<client, calls, strayed, cut>>,
         commands' \in Seq(Command), replies' \in Seq(Reply), wire' \in 0..Length,
         up' \in BOOLEAN, logged_in' \in BOOLEAN, listening' \in -1..MaxCalls, rest' \in 0..Length,
         job' \in Transfers \cup {"none"}, from' \in 0..Length, at_server' \in from'..Length,
         carried' \subseteq Commands
  PROVE  TypeOK'
<1>1. UNCHANGED <<handle, is_connected, offset, response, call, pc, todo, nData, address, moved, result,
                  calls, strayed, cut>>
  BY DEF client
<1>2. /\ handle' \in {"none", "open", "closed"} /\ is_connected' \in BOOLEAN /\ offset' \in 0..Length
      /\ response' \in Reply /\ call' \in [name : Names \cup {"Connect"}, at : 0..Length]
      /\ pc' \in PCs /\ todo' \in Seq(Commands)
  BY <1>1, Zenon DEF TypeOK, PCs
<1>3. /\ (pc' \in {"start", "idle"}) = (todo' = <<>>)
      /\ nData' = (pc' \in {"preliminary", "data", "close"})
  BY <1>1, Zenon DEF TypeOK
<1>4. /\ address' \in 0..MaxCalls /\ moved' \in 0..Length
      /\ result' \in {"none", "ok", "failed", "list"} /\ calls' \in 0..MaxCalls
      /\ strayed' \in BOOLEAN /\ cut' \in {"no", "disk", "reset"}
  BY <1>1, Zenon DEF TypeOK
<1> QED
  BY <1>2, <1>3, <1>4, Zenon DEF TypeOK, PCs, Command

\* Replies behind the others.
LEMMA MoreReplies ==
  ASSUME TypeOK, NEW q \in Seq(Reply), replies' = replies \o q
  PROVE  /\ replies' \in Seq(Reply) /\ Len(replies') = Len(replies) + Len(q)
         /\ Len(replies) \in Nat /\ Len(q) \in Nat
         /\ \A i \in 1..Len(replies) : replies'[i] = replies[i] /\ i \in 1..Len(replies')
         /\ \A i \in 1..Len(replies') :
              \/ i \in 1..Len(replies) /\ replies'[i] = replies[i]
              \/ i - Len(replies) \in 1..Len(q) /\ replies'[i] = q[i - Len(replies)]
<1>1. replies \in Seq(Reply) /\ Len(replies) \in Nat /\ Len(q) \in Nat
  BY Shapes, EmptyIs
<1>2. /\ replies' \in Seq(Reply) /\ Len(replies') = Len(replies) + Len(q)
      /\ \A i \in 1..Len(replies) + Len(q) :
           replies'[i] = IF i <= Len(replies) THEN replies[i] ELSE q[i - Len(replies)]
  BY <1>1, ConcatProperties
<1> QED
  BY <1>1, <1>2

\* What a server that is at a transfer, or serves one of this call, finds.
LEMMA AtTransfer ==
  ASSUME FtpInv, job # "none"
  PROVE  /\ up /\ Transferring /\ Own /\ job = Expecting /\ commands = <<>> /\ Begun
         /\ Len(replies) = Final - 1 /\ job \in Transfers
         /\ \A j \in 1..Len(todo) : todo[j] # "PASV"
<1>1. TypeOK /\ Jobs /\ OwnTransfer /\ Following
  BY DEF FtpInv
<1>2. up /\ Transferring /\ Own /\ job = Expecting /\ commands = <<>> /\ Begun
  BY <1>1 DEF Jobs
<1>3. Len(replies) = Final - 1
  BY <1>1, <1>2 DEF OwnTransfer
<1>4. Expecting \in Transfers /\ todo # <<>> /\ pc # "undefined"
  BY <1>1, <1>2 DEF Following, Transferring, TypeOK
<1>5. \A j \in 1..Len(todo) : todo[j] # "PASV"
  BY <1>1, <1>4, Position
<1> QED
  BY <1>2, <1>3, <1>4, <1>5

\* The transfer's final reply, a 2xx when everything was transferred.
LEMMA FinishStep ==
  ASSUME FtpInv, job # "none", NEW code \in {2, 4}, replies' = FinalReply(code), job' = "none",
         UNCHANGED <<client, commands, up, logged_in, listening, rest, from, at_server,
                     calls, strayed, cut>>,
         wire' = wire \/ (job = "STOR" /\ wire' = 0), code = 4 /\ job = "STOR" => wire' = 0,
         carried' = carried \/ carried' = carried \cup {job},
         code = 2 => /\ job \in carried' /\ wire' = wire
                     /\ \/ job \in {"RETR", "LIST"} /\ at_server = Length
                        \/ job = "STOR" /\ wire = 0 /\ ~nData
  PROVE  FtpInv'
<1> DEFINE r == [code |-> code, cmd |-> job, call |-> calls]
<1>0. /\ TypeOK /\ Following /\ Numbers /\ Jobs /\ Hung /\ Announced /\ OwnTransfer /\ Pieces
      /\ InStep /\ Done
  BY DEF FtpInv
<1>1. /\ up /\ Transferring /\ Own /\ job = Expecting /\ commands = <<>> /\ Begun
      /\ Len(replies) = Final - 1 /\ job \in Transfers
      /\ \A j \in 1..Len(todo) : todo[j] # "PASV"
  BY AtTransfer
<1>2. UNCHANGED <<handle, is_connected, offset, response, call, pc, todo, nData, address, moved, result>>
  BY DEF client
<1>3. /\ calls \in Nat /\ calls <= MaxCalls /\ Len(replies) \in Nat /\ moved \in Nat /\ wire \in Nat
      /\ from \in Nat /\ at_server \in Nat /\ Length \in Nat /\ offset \in Nat /\ from <= at_server
      /\ replies \in Seq(Reply)
  BY <1>0, Shapes
<1>4. r \in Reply /\ r.code = code /\ r.cmd = job /\ r.call = calls
  <2>1. job \in Commands
    BY <1>1 DEF Commands
  <2> QED
    BY <1>3, <2>1 DEF Reply
<1>5. replies' = Append(replies, r)
  BY DEF FinalReply
<1> HIDE DEF r
<1>6. /\ replies' \in Seq(Reply) /\ Len(replies') = Len(replies) + 1
      /\ \A i \in 1..Len(replies) : replies'[i] = replies[i]
      /\ replies'[Len(replies) + 1] = r
  BY <1>3, <1>4, <1>5, AppendIs
<1>7. \A i \in 1..Len(replies') :
         \/ i \in 1..Len(replies) /\ replies'[i] = replies[i]
         \/ i = Len(replies) + 1 /\ replies'[i] = r
  BY <1>3, <1>6
<1>8. Len(replies') = Final /\ replies'[Final] = r /\ Final' = Final /\ Final \in {1, 2}
  BY <1>1, <1>2, <1>3, <1>6 DEF Final
<1>9. /\ Transferring' /\ Own' /\ Expecting' = Expecting /\ Reading' = Reading
      /\ pc \notin {"start", "idle", "send", "reply", "undefined"}
  BY <1>1, <1>2 DEF Transferring, Own, Expecting, Reading
<1>10. TypeOK'
  <2>1. commands' \in Seq(Command) /\ replies' \in Seq(Reply) /\ wire' \in 0..Length
    <3>1. wire \in 0..Length /\ 0 \in 0..Length /\ commands \in Seq(Command)
      BY <1>0, <1>3, Shapes DEF TypeOK
    <3> QED
      BY <1>6, <3>1
  <2>2. /\ up' \in BOOLEAN /\ logged_in' \in BOOLEAN /\ listening' \in -1..MaxCalls
        /\ rest' \in 0..Length /\ from' \in 0..Length /\ at_server' \in from'..Length
    BY <1>0, Zenon DEF TypeOK
  <2>3. carried' \subseteq Commands /\ job' \in Transfers \cup {"none"}
    <3>1. job \in Commands
      BY <1>1 DEF Commands
    <3>2. carried \subseteq Commands
      BY <1>0 DEF TypeOK
    <3> QED
      BY <3>1, <3>2
  <2> QED
    BY <1>0, <2>1, <2>2, <2>3, ServerTypes, Zenon
<1>11. Untouched' /\ OwnBefore' /\ Doomed'
  BY <1>1, <1>2, <1>9 DEF Untouched, OwnBefore, Doomed
<1>12. Following'
  BY <1>0, <1>2, <1>1, <1>9, FollowingKept
<1>13. Numbers'
  <2>1. \A i \in 1..Len(replies') : replies'[i].call <= calls
    BY <1>0, <1>3, <1>4, <1>7 DEF Numbers
  <2> QED
    BY <1>0, <1>2, <2>1 DEF Numbers, IsPasv
<1>14. PasvOnce'
  <2>1. ~PasvAhead' /\ ~PasvSent'
    BY <1>1, <1>2, <1>9 DEF PasvAhead, PasvSent
  <2> QED
    BY <1>2, <1>9, <2>1 DEF PasvOnce
<1>15. Jobs' /\ Hung'
  BY <1>0, <1>1, <1>2, <1>3, <1>9 DEF Jobs, Hung
<1>16. Announced'
  <2> SUFFICES ASSUME NEW i \in 1..Len(replies'), replies'[i].code = 1
               PROVE  \/ i < Len(replies') /\ replies'[i + 1].code = 4
                      \/ pc = "preliminary" /\ Own /\ i = 1
    BY <1>1, <1>2, <1>9 DEF Announced
  <2>1. i \in 1..Len(replies) /\ replies[i].code = 1
    BY <1>4, <1>7
  <2>2. CASE i < Len(replies) /\ replies[i + 1].code = 4
    <3>1. i + 1 \in 1..Len(replies) /\ i < Len(replies')
      BY <1>3, <1>6, <2>2
    <3> QED
      BY <1>6, <2>2, <3>1
  <2> QED
    BY <1>0, <2>1, <2>2 DEF Announced
<1>17. Begun'
  <2> SUFFICES ASSUME pc = "preliminary" PROVE Len(replies') > 0 /\ replies'[1].code = 1
    BY <1>1, <1>2 DEF Begun
  <2>1. Len(replies) > 0 /\ replies[1].code = 1
    BY <1>1 DEF Begun
  <2>2. 1 \in 1..Len(replies)
    BY <1>3, <2>1
  <2> QED
    BY <1>3, <1>6, <2>1, <2>2
<1>18. OwnTransfer'
  <2>1. calls > 0 /\ from = offset /\ (pc = "preliminary" => moved = 0)
    BY <1>0, <1>1 DEF OwnTransfer
  <2>2. \A i \in 1..Len(replies') : ~(i > Final)
    BY <1>8
  <2>3. replies'[Final].code = 2 =>
          /\ replies'[Final].call = calls /\ replies'[Final].cmd = Expecting
          /\ Expecting \in carried'
          /\ IF Reading THEN at_server = Length ELSE pc = "final" /\ at_server = from + moved
    <3> SUFFICES ASSUME replies'[Final].code = 2
                 PROVE  /\ replies'[Final].call = calls /\ replies'[Final].cmd = Expecting
                        /\ Expecting \in carried'
                        /\ IF Reading THEN at_server = Length ELSE pc = "final" /\ at_server = from + moved
      OBVIOUS
    <3>1. code = 2
      BY <1>4, <1>8
    <3>2. CASE job \in {"RETR", "LIST"} /\ at_server = Length
      BY <1>1, <1>4, <1>8, <3>1, <3>2 DEF Reading
    <3>3. CASE job = "STOR" /\ wire = 0 /\ ~nData
      <4>1. pc = "final"
        <5>1. nData = (pc \in {"preliminary", "data", "close"})
          BY <1>0, Zenon DEF TypeOK
        <5>2. pc \notin {"preliminary", "data", "close"}
          BY <3>3, <5>1, Zenon
        <5> QED
          BY <1>1, <5>2 DEF Transferring
      <4>2. at_server - from = moved - wire
        BY <1>0, <1>1, <3>3 DEF Pieces
      <4>3. at_server = from + moved
        BY <1>3, <3>3, <4>2
      <4> QED
        BY <1>1, <1>4, <1>8, <3>1, <3>3, <4>1, <4>3 DEF Reading
    <3> QED
      BY <3>1, <3>2, <3>3
  <2> QED
    BY <1>1, <1>2, <1>8, <1>9, <1>17, <2>1, <2>2, <2>3 DEF OwnTransfer
<1>19. OtherTransfer'
  BY <1>9 DEF OtherTransfer
<1>20. Pieces'
  <2>1. Reading => wire' = wire
    BY <1>1 DEF Reading
  <2>2. wire' \in Nat /\ wire' <= wire
    BY <1>3
  <2>3. pc = "final" => wire' = 0
    BY <1>0, <1>1 DEF Pieces
  <2>4. /\ Reading => moved + wire' <= at_server - from
        /\ ~Reading => wire' <= moved /\ moved <= Length - offset
    <3>1. /\ Reading => moved + wire <= at_server - from
          /\ ~Reading => wire <= moved /\ moved <= Length - offset
      BY <1>0, <1>1 DEF Pieces
    <3>2. wire <= moved => wire' <= moved
      BY <1>3, <2>2
    <3> QED
      BY <2>1, <3>1, <3>2
  <2>5. Reading /\ pc \in {"preliminary", "data"} /\ cut = "no" => moved + wire' = at_server - from
    BY <1>0, <1>1, <2>1 DEF Pieces
  <2>6. ~(call.name = "Get" /\ pc \in {"close", "final"} /\ cut = "no")
    BY <1>0, <1>1 DEF Pieces
  <2>7. ~Reading /\ pc \in {"close", "final"} /\ cut = "no" => moved = Length - offset
    BY <1>0, <1>1 DEF Pieces
  <2> QED
    BY <1>2, <1>9, <2>3, <2>4, <2>5, <2>6, <2>7 DEF Pieces
<1>21. InStep' /\ Done'
  <2>1. InStep'
    BY <1>0, <1>9, <1>2 DEF InStep, PasvSent
  <2>2. Script(call)' = Script(call) /\ carried \subseteq carried'
    BY <1>2 DEF Script, Access
  <2>3. call' = call /\ todo' = todo /\ pc' = pc /\ strayed' = strayed
    BY <1>2
  <2>4. Done'
    BY <1>0, <2>2, <2>3 DEF Done, Busy
  <2> QED
    BY <2>1, <2>4
<1>22. Settled' /\ SuccessIsReal' /\ WholeFileMoved'
  BY <1>2, <1>9 DEF Settled, SuccessIsReal, WholeFileMoved, Returned
<1> QED
  BY <1>10, <1>11, <1>12, <1>13, <1>14, <1>15, <1>16, <1>18, <1>19, <1>20, <1>21, <1>22 DEF FtpInv

\* The server ends the transfer well.
LEMMA CompleteStep == ASSUME FtpInv, Complete PROVE FtpInv'
<1>1. /\ job # "none" /\ replies' = FinalReply(2) /\ job' = "none" /\ wire' = wire
      /\ carried' = carried \cup {job}
      /\ UNCHANGED <<client, commands, up, logged_in, listening, rest, from, at_server,
                     calls, strayed, cut>>
      /\ \/ job \in {"RETR", "LIST"} /\ at_server = Length
         \/ job = "STOR" /\ wire = 0 /\ ~nData
  BY DEF Complete
<1>2. job \in carried'
  BY <1>1
<1> QED
  BY <1>1, <1>2, FinishStep

\* The server gives the transfer up.
LEMMA AbortStep == ASSUME FtpInv, Abort PROVE FtpInv'
<1>1. /\ job # "none" /\ replies' = FinalReply(4) /\ job' = "none"
      /\ wire' = IF job = "STOR" THEN 0 ELSE wire
      /\ carried' = carried
      /\ UNCHANGED <<client, commands, up, logged_in, listening, rest, from, at_server,
                     calls, strayed, cut>>
  BY DEF Abort, history
<1>2. wire' = wire \/ (job = "STOR" /\ wire' = 0)
  BY <1>1
<1> QED
  BY <1>1, <1>2, FinishStep

\* The server hangs up: no command is left, and behind the replies only a 421.
LEMMA HangUpStep == ASSUME FtpInv, HangUp PROVE FtpInv'
<1> DEFINE bye == [code |-> 4, cmd |-> "none", call |-> 0]
<1>0. /\ TypeOK /\ Untouched /\ Following /\ Numbers /\ Jobs /\ Hung /\ Announced /\ OwnTransfer
      /\ OtherTransfer /\ Pieces /\ InStep /\ Done /\ SuccessIsReal /\ WholeFileMoved
  BY DEF FtpInv
<1>1. /\ up /\ up' = FALSE /\ commands' = <<>> /\ listening' = -1 /\ rest' = 0 /\ job' = "none"
      /\ wire' = IF job = "STOR" THEN 0 ELSE wire
      /\ UNCHANGED <<client, handle, is_connected, offset, response, call, pc, todo, nData, address,
                     moved, result, logged_in, from, at_server, calls, carried, strayed, cut>>
  BY DEF HangUp, EndSession, client, history
<1>2. PICK notice \in {<<>>, <<bye>>} : replies' = replies \o notice
  BY DEF HangUp
<1>3. /\ calls \in Nat /\ calls <= MaxCalls /\ Len(replies) \in Nat /\ moved \in Nat /\ wire \in Nat
      /\ from \in Nat /\ at_server \in Nat /\ MaxCalls \in Nat /\ Length \in Nat
      /\ address <= MaxCalls /\ (replies = <<>> <=> Len(replies) = 0)
  BY <1>0, Shapes
<1>4. bye \in Reply /\ bye.code = 4 /\ bye.cmd = "none" /\ bye.call = 0
  BY <1>3 DEF Reply
<1> HIDE DEF bye
<1>5. notice \in Seq(Reply) /\ Len(notice) \in {0, 1} /\ \A i \in 1..Len(notice) : notice[i] = bye
  <2>1. CASE notice = <<>>
    BY <2>1
  <2>2. CASE notice = <<bye>>
    BY <1>4, <2>2
  <2> QED
    BY <1>2, <2>1, <2>2
<1>6. /\ replies' \in Seq(Reply) /\ Len(replies') = Len(replies) + Len(notice)
      /\ \A i \in 1..Len(replies) : replies'[i] = replies[i] /\ i \in 1..Len(replies')
      /\ \A i \in 1..Len(replies') :
           \/ i \in 1..Len(replies) /\ replies'[i] = replies[i]
           \/ i - Len(replies) \in 1..Len(notice) /\ replies'[i] = notice[i - Len(replies)]
  BY <1>0, <1>2, <1>5, MoreReplies
<1>7. \A i \in 1..Len(replies') :
         \/ i \in 1..Len(replies) /\ replies'[i] = replies[i]
         \/ i = Len(replies) + 1 /\ replies'[i].code = 4 /\ replies'[i].cmd = "none" /\ replies'[i].call = 0
  <2> SUFFICES ASSUME NEW i \in 1..Len(replies'), ~(i \in 1..Len(replies) /\ replies'[i] = replies[i])
               PROVE  i = Len(replies) + 1 /\ replies'[i] = bye
    BY <1>4
  <2>1. i - Len(replies) \in 1..Len(notice) /\ replies'[i] = notice[i - Len(replies)]
    BY <1>6
  <2> QED
    BY <1>3, <1>5, <2>1
<1>8. /\ Expecting' = Expecting /\ Reading' = Reading /\ Own' = Own /\ Transferring' = Transferring
      /\ Final' = Final /\ Script(call)' = Script(call)
  BY <1>1 DEF Expecting, Reading, Own, Transferring, Final, Script, Access
<1>9. /\ wire' \in Nat /\ wire' <= wire
      /\ Transferring /\ Reading => wire' = wire
  <2>1. Reading => job # "STOR" \/ ~Transferring
    BY <1>0 DEF Reading, Jobs
  <2> QED
    BY <1>1, <1>3, <2>1
<1>10. TypeOK'
  <2>1. commands' \in Seq(Command) /\ wire' \in 0..Length /\ rest' \in 0..Length /\ up' \in BOOLEAN
    <3>1. wire \in 0..Length /\ 0 \in 0..Length
      BY <1>0, <1>3 DEF TypeOK
    <3>2. up' \in BOOLEAN
      BY <1>1, Zenon
    <3> QED
      BY <1>1, <3>1, <3>2
  <2>2. listening' \in -1..MaxCalls /\ job' \in Transfers \cup {"none"}
    BY <1>1, <1>3
  <2>3. logged_in' \in BOOLEAN /\ from' \in 0..Length /\ at_server' \in from'..Length /\ carried' \subseteq Commands
    BY <1>0, <1>1, Zenon DEF TypeOK
  <2>4. UNCHANGED <<client, calls, strayed, cut>>
    BY <1>1
  <2> QED
    BY <1>0, <1>6, <2>1, <2>2, <2>3, <2>4, ServerTypes, Zenon
<1>11. Untouched' /\ OwnBefore' /\ Doomed' /\ Hung'
  BY <1>0, <1>1 DEF Untouched, OwnBefore, Doomed, Hung
<1>12. Following'
  BY <1>0, <1>1, <1>8, FollowingKept DEF Following
<1>13. Numbers'
  <2>1. \A i \in 1..Len(replies') : replies'[i].call <= calls
    BY <1>0, <1>3, <1>7 DEF Numbers
  <2>2. -1 <= calls /\ -1 # 0 /\ address <= calls
    BY <1>0, <1>3 DEF Numbers
  <2> QED
    BY <1>1, <2>1, <2>2 DEF Numbers, IsPasv
<1>14. PasvOnce'
  <2>1. PasvAhead' => \A i \in 1..Len(replies') : ~OwnPasv(replies, i)'
    <3>1. PasvAhead' => PasvAhead
      BY <1>1 DEF PasvAhead
    <3>2. PasvAhead => \A i \in 1..Len(replies) : ~OwnPasv(replies, i)
      BY DEF FtpInv, PasvOnce
    <3> QED
      BY <1>1, <1>7, <3>1, <3>2 DEF OwnPasv
  <2>2. listening' # calls'
    BY <1>1, <1>3
  <2> QED
    BY <1>1, <2>1, <2>2 DEF PasvOnce
<1>15. Jobs'
  <2>1. wire' > 0 => wire > 0
    BY <1>3, <1>9
  <2> QED
    BY <1>0, <1>1, <1>8, <2>1 DEF Jobs
<1>16. Announced'
  <2> SUFFICES ASSUME NEW i \in 1..Len(replies'), replies'[i].code = 1
               PROVE  \/ i < Len(replies') /\ replies'[i + 1].code = 4
                      \/ pc = "preliminary" /\ Own /\ i = 1
    BY <1>1, <1>8 DEF Announced
  <2>1. i \in 1..Len(replies) /\ replies[i].code = 1
    BY <1>7
  <2>2. CASE i < Len(replies) /\ replies[i + 1].code = 4
    <3>1. i + 1 \in 1..Len(replies) /\ i < Len(replies')
      BY <1>3, <1>5, <1>6, <2>2
    <3> QED
      BY <1>6, <2>2, <3>1
  <2> QED
    BY <1>0, <2>1, <2>2 DEF Announced
<1>17. Transferring /\ Own => (Begun' <=> Begun)
  <2> SUFFICES ASSUME Transferring, Own, pc = "preliminary" PROVE Begun' <=> Begun
    BY <1>1 DEF Begun
  <2>1. ASSUME Begun PROVE Begun'
    <3>1. Len(replies) > 0 /\ replies[1].code = 1
      BY <2>1 DEF Begun
    <3>2. 1 \in 1..Len(replies)
      BY <1>3, <3>1
    <3> QED
      BY <1>1, <1>3, <1>5, <1>6, <3>1, <3>2 DEF Begun
  <2>2. ASSUME Begun' PROVE Begun
    <3>1. Len(replies') > 0 /\ replies'[1].code = 1
      BY <1>1, <2>2 DEF Begun
    <3>2. 1 \in 1..Len(replies')
      BY <1>3, <1>5, <1>6, <3>1
    <3>3. 1 \in 1..Len(replies) /\ replies[1].code = 1
      BY <1>7, <3>1, <3>2
    <3>4. replies # <<>> /\ Len(replies) > 0
      BY <1>3, <3>3
    <3>5. commands = <<>>
      BY <1>0, <3>4 DEF OwnTransfer
    <3> QED
      BY <3>3, <3>4, <3>5 DEF Begun
  <2> QED
    BY <2>1, <2>2
<1>18. OwnTransfer'
  <2> SUFFICES ASSUME Transferring, Own PROVE OwnTransfer'
    BY <1>8 DEF OwnTransfer
  <2>0. (Begun' => Begun) /\ (~Begun' => ~Begun)
    BY <1>17
  <2>1. /\ calls > 0 /\ (~Begun' => wire = 0) /\ (pc = "preliminary" => moved = 0)
        /\ Begun' => from = offset
    BY <1>0, <2>0 DEF OwnTransfer
  <2>2. ~Begun' => wire' = 0
    BY <1>3, <1>9, <2>1
  <2>3. ASSUME NEW i \in 1..Len(replies'), i > Final \/ (pc = "preliminary" /\ ~Begun' /\ i > 1)
        PROVE  replies'[i].code = 4
    <3>1. CASE i \in 1..Len(replies) /\ replies'[i] = replies[i]
      BY <1>0, <2>0, <2>3, <3>1 DEF OwnTransfer
    <3> QED
      BY <1>7, <3>1
  <2>4. Begun' /\ Len(replies') >= Final /\ replies'[Final].code = 2 =>
         /\ replies'[Final].call = calls /\ replies'[Final].cmd = Expecting
         /\ Expecting \in carried
         /\ IF Reading THEN at_server = Length ELSE pc = "final" /\ at_server = from + moved
    <3> SUFFICES ASSUME Begun', Len(replies') >= Final, replies'[Final].code = 2
                 PROVE  /\ replies'[Final].call = calls /\ replies'[Final].cmd = Expecting
                        /\ Expecting \in carried
                        /\ IF Reading THEN at_server = Length ELSE pc = "final" /\ at_server = from + moved
      OBVIOUS
    <3>1. Final \in {1, 2}
      BY DEF Final
    <3>2. Final \in 1..Len(replies')
      BY <1>3, <1>5, <1>6, <3>1
    <3>3. Final \in 1..Len(replies) /\ replies'[Final] = replies[Final]
      BY <1>7, <3>2
    <3>4. Len(replies) >= Final
      BY <1>3, <3>3
    <3> QED
      BY <1>0, <2>0, <3>3, <3>4 DEF OwnTransfer
  <2> QED
    BY <1>1, <1>8, <2>1, <2>2, <2>3, <2>4 DEF OwnTransfer
<1>19. OtherTransfer'
  <2> SUFFICES ASSUME Transferring, ~Own PROVE OtherTransfer'
    BY <1>8 DEF OtherTransfer
  <2>1. /\ pc # "preliminary" => Len(replies) > 0 /\ replies[1].code = 4
        /\ Reading \/ pc = "preliminary" => moved = 0 /\ wire = 0
    BY <1>0 DEF OtherTransfer
  <2>2. wire = 0 => wire' = 0
    BY <1>1
  <2>3. pc # "preliminary" => Len(replies') > 0 /\ replies'[1].code = 4
    <3> SUFFICES ASSUME pc # "preliminary" PROVE Len(replies') > 0 /\ replies'[1].code = 4
      OBVIOUS
    <3>1. 1 \in 1..Len(replies)
      BY <1>3, <2>1
    <3> QED
      BY <1>3, <1>5, <1>6, <2>1, <3>1
  <2> QED
    BY <1>1, <1>8, <2>1, <2>2, <2>3 DEF OtherTransfer
<1>20. Pieces'
  <2> SUFFICES ASSUME Transferring PROVE Pieces'
    BY <1>8 DEF Pieces
  <2>1. Reading => moved + wire' <= at_server - from
    BY <1>0, <1>9 DEF Pieces
  <2>2. ~Reading => wire' <= moved /\ moved <= Length - offset
    <3>1. ~Reading => wire <= moved /\ moved <= Length - offset
      BY <1>0 DEF Pieces
    <3> QED
      BY <1>3, <1>9, <3>1
  <2>3. Own /\ Begun' /\ Reading /\ pc \in {"preliminary", "data"} /\ cut = "no" =>
          moved + wire' = at_server - from
    <3>1. Own /\ Begun' => Begun
      BY <1>17, Zenon
    <3> QED
      BY <1>0, <1>9, <3>1 DEF Pieces
  <2>4. Own /\ call.name = "Get" /\ pc \in {"close", "final"} /\ cut = "no" => moved = at_server - from
    BY <1>0 DEF Pieces
  <2>5. pc = "final" => wire' = 0
    BY <1>0, <1>1 DEF Pieces
  <2>6. Own /\ ~Reading /\ pc \in {"close", "final"} /\ cut = "no" =>
          \/ moved = Length - offset
          \/ ~(Len(replies') > 0 /\ replies'[1].code = 2)
    <3> SUFFICES ASSUME Own, ~Reading, pc \in {"close", "final"}, cut = "no", Len(replies') > 0,
                        replies'[1].code = 2
                 PROVE  moved = Length - offset
      OBVIOUS
    <3>1. 1 \in 1..Len(replies')
      BY <1>3, <1>5, <1>6
    <3>2. 1 \in 1..Len(replies) /\ replies[1].code = 2
      BY <1>7, <3>1
    <3>3. Len(replies) > 0
      BY <1>3, <3>2
    <3> QED
      BY <1>0, <3>2, <3>3 DEF Pieces
  <2> QED
    BY <1>1, <1>8, <2>1, <2>2, <2>3, <2>4, <2>5, <2>6 DEF Pieces
<1>21. InStep'
  <2> SUFFICES ASSUME ~strayed PROVE InStep'
    BY <1>1 DEF InStep
  <2>1. pc \in {"start", "idle", "send"} => \A i \in 1..Len(replies') : replies'[i].code = 4
    BY <1>0, <1>1, <1>7 DEF InStep
  <2>2. pc = "reply" =>
         \A i \in 1..Len(replies') :
              \/ replies'[i].code = 4
              \/ /\ i = 1
                 /\ replies'[1].cmd = Expecting /\ replies'[1].call = calls
                 /\ replies'[1].code \in {2, 3} => Expecting \in carried \cup {"HELLO"}
    <3> SUFFICES ASSUME pc = "reply", NEW i \in 1..Len(replies'), replies'[i].code # 4
                 PROVE  /\ i = 1
                        /\ replies'[1].cmd = Expecting /\ replies'[1].call = calls
                        /\ replies'[1].code \in {2, 3} => Expecting \in carried \cup {"HELLO"}
      OBVIOUS
    <3>1. i \in 1..Len(replies) /\ replies'[i] = replies[i]
      BY <1>7
    <3>2. /\ i = 1
          /\ replies[1].cmd = Expecting /\ replies[1].call = calls
          /\ replies[1].code \in {2, 3} => Expecting \in carried \cup {"HELLO"}
      BY <1>0, <3>1 DEF InStep
    <3> QED
      BY <3>1, <3>2
  <2>3. (PasvSent' => PasvSent) /\ (Transferring => Own) /\ (PasvSent /\ Expecting # "PASV" => Own)
    BY <1>0, <1>1, <1>8 DEF InStep, PasvSent
  <2> QED
    BY <1>1, <1>8, <2>1, <2>2, <2>3 DEF InStep
<1>22. Done'
  <2>1. call' = call /\ todo' = todo /\ pc' = pc /\ strayed' = strayed /\ carried' = carried
    BY <1>1
  <2> QED
    BY <1>0, <1>8, <2>1 DEF Done, Busy
<1>23. Settled' /\ SuccessIsReal' /\ WholeFileMoved'
  <2>1. /\ call' = call /\ pc' = pc /\ strayed' = strayed /\ carried' = carried /\ result' = result
        /\ cut' = cut /\ response' = response /\ calls' = calls /\ from' = from /\ at_server' = at_server
        /\ moved' = moved /\ commands' = <<>>
    BY <1>1
  <2> QED
    BY <1>0, <1>8, <2>1 DEF Settled, SuccessIsReal, WholeFileMoved, Returned
<1> QED
  BY <1>10, <1>11, <1>12, <1>13, <1>14, <1>15, <1>16, <1>18, <1>19, <1>20, <1>21, <1>22, <1>23 DEF FtpInv

\* The replies to a command: one, or the announcement of a transfer that fails and its end.
LEMMA CodesIs ==
  ASSUME NEW command, NEW code \in Codes(command)
  PROVE  /\ \/ Len(code) = 1 /\ code = <<code[1]>>
            \/ Len(code) = 2 /\ code[1] = 1 /\ code[2] = 4 /\ command.cmd \in Transfers
         /\ code[1] \in {1, 2, 3, 4, 5}
         /\ \A i \in 1..Len(code) : code[i] \in 0..5
         /\ code[1] = 1 => command.cmd \in Transfers
         /\ command.data = listening => Len(code) = 1
         /\ code = <<1>> => command.data = listening /\ command.cmd \in Transfers
         /\ command.cmd = "PASV" => code[1] \in {2, 5}
         /\ command.cmd = "REST" => code[1] \in {3, 5}
<1>1. code \in {<<1>>, <<2>>, <<3>>, <<4>>, <<5>>, <<1, 4>>}
  BY DEF Codes
<1>2. /\ Len(<<1>>) = 1 /\ Len(<<2>>) = 1 /\ Len(<<3>>) = 1 /\ Len(<<4>>) = 1 /\ Len(<<5>>) = 1
      /\ Len(<<1, 4>>) = 2 /\ <<1, 4>>[1] = 1 /\ <<1, 4>>[2] = 4
      /\ <<1>>[1] = 1 /\ <<2>>[1] = 2 /\ <<3>>[1] = 3 /\ <<4>>[1] = 4 /\ <<5>>[1] = 5
  OBVIOUS
<1>3. /\ code \in {<<1>>, <<1, 4>>} => command.cmd \in Transfers
      /\ command.data = listening => code # <<1, 4>>
      /\ code = <<1>> => command.data = listening
      /\ command.cmd = "PASV" => code \in {<<2>>, <<5>>}
      /\ command.cmd = "REST" => code \in {<<3>>, <<5>>}
  <2>1. code \in {<<1>>, <<1, 4>>} => command.cmd \in Transfers
    BY <1>2 DEF Codes, Transfers
  <2>2. command.data = listening => code # <<1, 4>>
    BY <1>2 DEF Codes, Transfers
  <2>3. code = <<1>> => command.data = listening
    BY <1>2 DEF Codes, Transfers
  <2>4. command.cmd = "PASV" => code \in {<<2>>, <<5>>}
    BY <1>2 DEF Codes, Transfers
  <2>5. command.cmd = "REST" => code \in {<<3>>, <<5>>}
    BY <1>2 DEF Codes, Transfers
  <2> QED
    BY <2>1, <2>2, <2>3, <2>4, <2>5
<1>4. /\ \A i \in 1..1 : i = 1
      /\ \A i \in 1..2 : i = 1 \/ i = 2
  OBVIOUS
<1>5. CASE code = <<1>>
  BY <1>2, <1>3, <1>4, <1>5
<1>6. CASE code = <<1, 4>>
  BY <1>2, <1>3, <1>4, <1>6
<1>7. CASE code = <<2>>
  BY <1>2, <1>3, <1>4, <1>7
<1>8. CASE code = <<3>>
  BY <1>2, <1>3, <1>4, <1>8
<1>9. CASE code = <<4>>
  BY <1>2, <1>3, <1>4, <1>9
<1>10. CASE code = <<5>>
  BY <1>2, <1>3, <1>4, <1>10
<1> QED
  BY <1>1, <1>5, <1>6, <1>7, <1>8, <1>9, <1>10

\* The server serves the first command: n replies, the first of them with the digit d.
Served(c, n, d) ==
  /\ up /\ job = "none" /\ c = commands[1] /\ c \in Command
  /\ Len(commands) \in Nat \ {0} /\ Len(replies) \in Nat /\ Len(commands') = Len(commands) - 1
  /\ commands' \in Seq(Command) /\ replies' \in Seq(Reply)
  /\ \A i \in 1..Len(commands') : commands'[i] = commands[i + 1] /\ i + 1 \in 1..Len(commands)
  /\ \A i \in 2..Len(commands) : commands'[i - 1] = commands[i] /\ i - 1 \in 1..Len(commands')
  /\ n \in {1, 2} /\ d \in {1, 2, 3, 4, 5} /\ Len(replies') = Len(replies) + n
  /\ \A i \in 1..Len(replies) : replies'[i] = replies[i] /\ i \in 1..Len(replies')
  /\ \A i \in 1..Len(replies') :
       \/ i \in 1..Len(replies) /\ replies'[i] = replies[i]
       \/ i = Len(replies) + 1 /\ replies'[i].code = d
          /\ replies'[i].cmd = c.cmd /\ replies'[i].call = c.call
       \/ i = Len(replies) + 2 /\ n = 2 /\ replies'[i].code = 4
          /\ replies'[i].cmd = c.cmd /\ replies'[i].call = c.call
  /\ n = 2 => d = 1 /\ c.data # listening /\ replies'[Len(replies) + 2].code = 4
  /\ d = 1 => c.cmd \in Transfers
  /\ c.cmd = "PASV" => d \in {2, 5} /\ n = 1
  /\ c.cmd = "REST" => d \in {3, 5} /\ n = 1
  /\ d = 1 /\ n = 1 => c.data = listening
  /\ (c.cmd # "QUIT" => up') /\ (c.cmd = "QUIT" => ~up')
  /\ listening' = IF c.cmd # "PASV" THEN listening ELSE IF d = 2 THEN c.call ELSE -1
  /\ rest' = IF c.cmd = "REST" /\ d = 3 THEN c.at ELSE 0
  /\ job' = IF d = 1 /\ n = 1 THEN c.cmd ELSE "none"
  /\ from' = IF d = 1 /\ n = 1 THEN rest ELSE 0
  /\ at_server' = from'
  /\ carried \subseteq carried' /\ (carried' = carried \/ carried' = carried \cup {c.cmd})
  /\ d \in {2, 3} /\ c.call = calls => c.cmd \in carried'
  /\ UNCHANGED <<handle, is_connected, offset, response, call, pc, todo, nData, address, moved, result,
                 wire, calls, strayed, cut>>

\* Serving the first command is Served, for some number of replies and some first digit.
LEMMA ServedIs ==
  ASSUME FtpInv, Serve
  PROVE  \E n, d : Served(commands[1], n, d) /\ TypeOK'
<1> DEFINE c == commands[1]
<1>0. TypeOK /\ commands # <<>> /\ up /\ job = "none"
  BY DEF FtpInv, Serve
<1>1. /\ commands \in Seq(Command) /\ replies \in Seq(Reply) /\ Len(replies) \in Nat
      /\ rest \in 0..Length /\ listening \in -1..MaxCalls /\ calls \in Nat
      /\ Length \in Nat /\ MaxCalls \in Nat
  BY <1>0, Shapes DEF TypeOK
<1>2. /\ Tail(commands) \in Seq(Command) /\ Len(Tail(commands)) = Len(commands) - 1
      /\ Len(commands) \in Nat \ {0}
      /\ \A i \in 1..Len(Tail(commands)) : Tail(commands)[i] = commands[i + 1]
      /\ Head(commands) = c /\ c \in Command
  BY <1>0, <1>1, TailIs
<1>3. PICK code \in Codes(c) :
        /\ commands' = Tail(commands)
        /\ replies' = replies \o Answers(code, c)
        /\ up' = (c.cmd # "QUIT")
        /\ logged_in' = (logged_in \/ (c.cmd \in {"USER", "PASS"} /\ code = <<2>>))
        /\ listening' = IF c.cmd # "PASV" THEN listening
                        ELSE IF code = <<2>> THEN c.call ELSE -1
        /\ rest' = IF c.cmd = "REST" /\ code = <<3>> THEN c.at ELSE 0
        /\ job' = IF code = <<1>> THEN c.cmd ELSE "none"
        /\ from' = IF code = <<1>> THEN rest ELSE 0
        /\ at_server' = from'
        /\ IF code \in {<<2>>, <<3>>} THEN CarriedOut(c) ELSE UNCHANGED carried
  <2> HIDE DEF c
  <2> QED
    BY <1>2 DEF Serve
<1>4. UNCHANGED <<client, handle, is_connected, offset, response, call, pc, todo, nData, address, moved,
                  result, wire, calls, strayed, cut>>
  BY DEF Serve, client
<1>5. c.cmd \in Commands /\ c.call \in 0..MaxCalls /\ c.at \in 0..Length
  <2> HIDE DEF c
  <2> QED
    BY <1>2 DEF Command
<1> HIDE DEF c
<1> DEFINE n == Len(code)
           d == code[1]
           q == Answers(code, c)
<1>6. /\ \/ n = 1 /\ code = <<d>>
         \/ n = 2 /\ d = 1 /\ code[2] = 4 /\ c.cmd \in Transfers
      /\ d \in {1, 2, 3, 4, 5}
      /\ \A i \in 1..n : code[i] \in 0..5
      /\ d = 1 => c.cmd \in Transfers
      /\ c.data = listening => n = 1
      /\ code = <<1>> => c.data = listening
      /\ c.cmd = "PASV" => d \in {2, 5}
      /\ c.cmd = "REST" => d \in {3, 5}
  BY CodesIs
<1>7. /\ code = <<1>> <=> d = 1 /\ n = 1
      /\ code = <<2>> <=> d = 2
      /\ code = <<3>> <=> d = 3
  <2>1. /\ Len(<<1>>) = 1 /\ <<1>>[1] = 1 /\ <<2>>[1] = 2 /\ <<3>>[1] = 3
    OBVIOUS
  <2>2. code = <<1>> => d = 1 /\ n = 1
    BY <2>1
  <2>3. (code = <<2>> => d = 2) /\ (code = <<3>> => d = 3)
    BY <2>1
  <2>4. d \in {2, 3} => code = <<d>>
    BY <1>6
  <2>5. d = 1 /\ n = 1 => code = <<d>>
    BY <1>6
  <2> HIDE DEF n, d
  <2> QED
    BY <2>2, <2>3, <2>4, <2>5
<1>8. /\ q \in Seq(Reply) /\ Len(q) = n
      /\ \A i \in 1..n : q[i].code = code[i] /\ q[i].cmd = c.cmd /\ q[i].call = c.call
  <2>1. \A i \in 1..n : [code |-> code[i], cmd |-> c.cmd, call |-> c.call] \in Reply
    BY <1>5, <1>6 DEF Reply
  <2>2. q = [i \in 1..n |-> [code |-> code[i], cmd |-> c.cmd, call |-> c.call]]
    BY DEF Answers
  <2>3. n \in Nat
    BY <1>6
  <2> HIDE DEF n, q
  <2> QED
    BY <2>1, <2>2, <2>3
<1>9. /\ replies' \in Seq(Reply) /\ Len(replies') = Len(replies) + n
      /\ \A i \in 1..Len(replies) : replies'[i] = replies[i] /\ i \in 1..Len(replies')
      /\ \A i \in 1..Len(replies') :
           \/ i \in 1..Len(replies) /\ replies'[i] = replies[i]
           \/ i - Len(replies) \in 1..n /\ replies'[i] = q[i - Len(replies)]
  <2>1. replies' = replies \o q
    BY <1>3
  <2> HIDE DEF n, q
  <2> QED
    BY <1>0, <1>8, <2>1, MoreReplies
<1>10. \A i \in 1..Len(replies') :
         \/ i \in 1..Len(replies) /\ replies'[i] = replies[i]
         \/ i = Len(replies) + 1 /\ replies'[i].code = d
            /\ replies'[i].cmd = c.cmd /\ replies'[i].call = c.call
         \/ i = Len(replies) + 2 /\ n = 2 /\ replies'[i].code = 4
            /\ replies'[i].cmd = c.cmd /\ replies'[i].call = c.call
  <2> SUFFICES ASSUME NEW i \in 1..Len(replies'), ~(i \in 1..Len(replies) /\ replies'[i] = replies[i])
               PROVE  \/ i = Len(replies) + 1 /\ replies'[i].code = d
                         /\ replies'[i].cmd = c.cmd /\ replies'[i].call = c.call
                      \/ i = Len(replies) + 2 /\ n = 2 /\ replies'[i].code = 4
                         /\ replies'[i].cmd = c.cmd /\ replies'[i].call = c.call
    OBVIOUS
  <2>1. i - Len(replies) \in 1..n /\ replies'[i] = q[i - Len(replies)]
    BY <1>9
  <2>2. n \in {1, 2} /\ (n = 2 => code[2] = 4)
    BY <1>6
  <2>3. \/ i = Len(replies) + 1 /\ i - Len(replies) = 1
        \/ i = Len(replies) + 2 /\ i - Len(replies) = 2 /\ n = 2
    <3> HIDE DEF n
    <3> QED
      BY <1>1, <2>1, <2>2
  <2> HIDE DEF n, q
  <2> QED
    BY <1>8, <2>1, <2>2, <2>3
<1>11. n = 2 => replies'[Len(replies) + 2].code = 4
  <2> HIDE DEF n, d
  <2> SUFFICES ASSUME n = 2 PROVE replies'[Len(replies) + 2].code = 4
    OBVIOUS
  <2>1. Len(replies) + 2 \in 1..Len(replies') /\ Len(replies) + 2 # Len(replies) + 1
        /\ Len(replies) + 2 \notin 1..Len(replies)
    BY <1>1, <1>9
  <2> QED
    BY <1>10, <2>1
<1>12. /\ carried \subseteq carried' /\ (carried' = carried \/ carried' = carried \cup {c.cmd})
       /\ d \in {2, 3} /\ c.call = calls => c.cmd \in carried'
  <2>1. CASE code \in {<<2>>, <<3>>}
    <3>1. carried' = IF c.call = calls THEN carried \cup {c.cmd} ELSE carried
      BY <1>3, <2>1 DEF CarriedOut
    <3> QED
      BY <3>1
  <2>2. CASE code \notin {<<2>>, <<3>>}
    <3>1. carried' = carried /\ d \notin {2, 3}
      BY <1>3, <1>7, <2>2
    <3> QED
      BY <3>1
  <2> QED
    BY <2>1, <2>2
<1>13. /\ listening' = IF c.cmd # "PASV" THEN listening ELSE IF d = 2 THEN c.call ELSE -1
       /\ rest' = IF c.cmd = "REST" /\ d = 3 THEN c.at ELSE 0
       /\ job' = IF d = 1 /\ n = 1 THEN c.cmd ELSE "none"
       /\ from' = IF d = 1 /\ n = 1 THEN rest ELSE 0
       /\ at_server' = from'
  <2> HIDE DEF n, d
  <2> QED
    BY <1>3, <1>7
<1>14. (c.cmd # "QUIT" => up') /\ (c.cmd = "QUIT" => ~up')
  BY <1>3
<1> HIDE DEF n, d, q
<1>15. TypeOK'
  <2>1. up' \in BOOLEAN /\ logged_in' \in BOOLEAN
    BY <1>3, Zenon
  <2>2. listening' \in -1..MaxCalls
    <3>1. c.call \in -1..MaxCalls /\ -1 \in -1..MaxCalls
      BY <1>1, <1>5
    <3> QED
      BY <1>1, <1>13, <3>1
  <2>3. rest' \in 0..Length /\ from' \in 0..Length /\ at_server' \in from'..Length
    <3>1. 0 \in 0..Length
      BY <1>1
    <3>2. rest' \in 0..Length /\ from' \in 0..Length
      BY <1>1, <1>5, <1>13, <3>1
    <3> QED
      BY <1>13, <3>2
  <2>4. job' \in Transfers \cup {"none"} /\ carried' \subseteq Commands
    <3>1. carried \subseteq Commands
      BY <1>0 DEF TypeOK
    <3> QED
      BY <1>5, <1>6, <1>12, <1>13, <3>1
  <2>5. wire' \in 0..Length /\ commands' \in Seq(Command)
    BY <1>0, <1>2, <1>3, <1>4 DEF TypeOK
  <2>6. UNCHANGED <<client, calls, strayed, cut>>
    BY <1>4
  <2> QED
    BY <1>0, <1>9, <2>1, <2>2, <2>3, <2>4, <2>5, <2>6, ServerTypes, Zenon
<1>16. /\ Len(commands') = Len(commands) - 1 /\ commands' \in Seq(Command)
       /\ \A i \in 1..Len(commands') : commands'[i] = commands[i + 1] /\ i + 1 \in 1..Len(commands)
       /\ \A i \in 2..Len(commands) : commands'[i - 1] = commands[i] /\ i - 1 \in 1..Len(commands')
  <2>1. commands' = Tail(commands)
    BY <1>3
  <2>2. \A i \in 1..Len(commands') : commands'[i] = commands[i + 1] /\ i + 1 \in 1..Len(commands)
    BY <1>2, <2>1
  <2>3. ASSUME NEW i \in 2..Len(commands)
        PROVE  commands'[i - 1] = commands[i] /\ i - 1 \in 1..Len(commands')
    <3>1. i - 1 \in 1..Len(commands') /\ (i - 1) + 1 = i
      BY <1>2, <2>1
    <3>2. commands'[i - 1] = commands[(i - 1) + 1]
      BY <2>2, <3>1
    <3> QED
      BY <3>1, <3>2
  <2> QED
    BY <1>2, <2>1, <2>2, <2>3
<1>17. n \in {1, 2} /\ (n = 2 => d = 1 /\ c.data # listening) /\ (c.cmd \in {"PASV", "REST"} => n = 1)
  BY <1>6
<1>18. d = 1 /\ n = 1 => c.data = listening
  BY <1>6, <1>7
<1>19. UNCHANGED <<handle, is_connected, offset, response, call, pc, todo, nData, address, moved, result,
                   wire, calls, strayed, cut>>
  BY <1>4
<1>20. Served(c, n, d)
  <2>1. c = commands[1]
    BY DEF c
  <2>2. \A i \in 1..Len(commands') : commands'[i] = commands[i + 1] /\ i + 1 \in 1..Len(commands)
    BY <1>16
  <2>3. \A i \in 2..Len(commands) : commands'[i - 1] = commands[i] /\ i - 1 \in 1..Len(commands')
    BY <1>16
  <2> QED
    BY <1>0, <1>1, <1>2, <1>6, <1>9, <1>10, <1>11, <1>12, <1>13, <1>14, <1>16, <1>17, <1>18, <1>19,
       <2>1, <2>2, <2>3, Zenon DEF Served
<1> QED
  BY <1>15, <1>20 DEF c

\* A transfer of this call finds its address, and nothing before or behind it.
LEMMA OwnServed ==
  ASSUME FtpInv, NEW c, NEW n, NEW d, Served(c, n, d), Transferring, Own
  PROVE  /\ pc = "preliminary" /\ Len(commands) = 1 /\ commands' = <<>> /\ up'
         /\ c.cmd = Expecting /\ c.call = calls /\ c.data = calls
         /\ replies = <<>> /\ Len(replies) = 0 /\ n = 1
         /\ listening = calls /\ rest = offset /\ wire = 0 /\ moved = 0 /\ calls > 0
<1>0. TypeOK /\ OwnTransfer /\ Following
  BY DEF FtpInv
<1>1. commands # <<>>
  BY <1>0, Shapes DEF Served
<1>2. /\ pc = "preliminary" /\ Len(commands) = 1
      /\ commands[1].cmd = Expecting /\ commands[1].call = calls /\ commands[1].data = calls
      /\ replies = <<>> /\ listening = calls /\ rest = offset /\ calls > 0 /\ moved = 0
  BY <1>0, <1>1 DEF OwnTransfer
<1>3. ~Begun
  BY <1>1, <1>2 DEF Begun
<1>4. wire = 0
  BY <1>0, <1>3 DEF OwnTransfer
<1>5. c = commands[1] /\ n \in {1, 2} /\ (n = 2 => c.data # listening) /\ (c.cmd # "QUIT" => up')
  BY DEF Served
<1>6. Expecting \in Transfers
  BY <1>0 DEF Following
<1>7. commands' \in Seq(Command) /\ Len(commands') = 0
  BY <1>2 DEF Served
<1>8. commands' = <<>>
  BY <1>7, EmptyIs
<1>9. Len(replies) = 0
  BY <1>0, <1>2, Shapes
<1> QED
  BY <1>2, <1>4, <1>5, <1>6, <1>8, <1>9 DEF Transfers

\* A transfer that begins is that of this call.
LEMMA BeginsOwn ==
  ASSUME FtpInv, NEW c, NEW n, NEW d, Served(c, n, d), d = 1, n = 1
  PROVE  Transferring /\ Own
<1>0. TypeOK /\ Numbers /\ Doomed
  BY DEF FtpInv
<1>1. c = commands[1] /\ c.data = listening /\ c.cmd \in Transfers /\ 1 \in 1..Len(commands)
  BY DEF Served
<1>2. listening # 0
  BY <1>0 DEF Numbers
<1>3. \/ pc = "preliminary" /\ Own
      \/ listening # c.data
      \/ \E j \in 1..Len(commands) : j < 1 /\ IsPasv(commands, j)
  BY <1>0, <1>1, <1>2 DEF Doomed
<1> QED
  BY <1>1, <1>3 DEF Transferring

\* What the order of the PASV commands says of the server's next address.
LEMMA ServedNumbers ==
  ASSUME FtpInv, NEW c, NEW n, NEW d, Served(c, n, d)
  PROVE  Numbers' /\ PasvOnce'
<1>0. TypeOK /\ Numbers /\ PasvOnce
  BY DEF FtpInv
<1>1. /\ calls \in Nat /\ listening \in Int /\ address \in Nat
      /\ \A i \in 1..Len(commands) : commands[i].call \in Nat
      /\ (commands = <<>> <=> Len(commands) = 0)
  BY <1>0, Shapes
<1>2. /\ up /\ c = commands[1] /\ 1 \in 1..Len(commands) /\ Len(commands) \in Nat \ {0}
      /\ Len(replies) \in Nat
      /\ Len(commands') = Len(commands) - 1 /\ commands' \in Seq(Command)
      /\ listening' = IF c.cmd # "PASV" THEN listening ELSE IF d = 2 THEN c.call ELSE -1
      /\ UNCHANGED <<pc, todo, address, calls>>
  BY DEF Served
<1>3. \A i \in 1..Len(commands') : commands'[i] = commands[i + 1] /\ i + 1 \in 1..Len(commands) /\ 1 < i + 1
  BY <1>2 DEF Served
<1>4. \A i \in 1..Len(replies') :
         \/ i \in 1..Len(replies) /\ replies'[i] = replies[i]
         \/ replies'[i].cmd = c.cmd /\ replies'[i].call = c.call
  BY DEF Served
<1>5. /\ address <= calls /\ listening <= calls /\ listening # 0
      /\ \A i \in 1..Len(commands) : commands[i].call <= calls
      /\ \A i \in 1..Len(replies) : replies[i].call <= calls
      /\ \A i \in 1..Len(commands) : IsPasv(commands, i) => commands[i].call > 0 /\ commands[i].call > listening
      /\ \A i, j \in 1..Len(commands) :
           i < j /\ IsPasv(commands, i) /\ IsPasv(commands, j) => commands[i].call < commands[j].call
  BY <1>0 DEF Numbers
<1>6. Numbers'
  <2>1. address' <= calls' /\ listening' <= calls' /\ listening' # 0
    <3>1. CASE c.cmd # "PASV"
      BY <1>2, <1>5, <3>1
    <3>2. CASE c.cmd = "PASV"
      <4>1. c.call > 0 /\ c.call <= calls /\ c.call \in Nat
        BY <1>1, <1>2, <1>5, <3>2 DEF IsPasv
      <4> QED
        BY <1>1, <1>2, <1>5, <3>2, <4>1
    <3> QED
      BY <3>1, <3>2
  <2>2. \A i \in 1..Len(commands') : commands'[i].call <= calls'
    BY <1>2, <1>3, <1>5
  <2>3. \A i \in 1..Len(replies') : replies'[i].call <= calls'
    BY <1>2, <1>4, <1>5
  <2>4. ASSUME NEW i \in 1..Len(commands'), IsPasv(commands, i)'
        PROVE  commands'[i].call > 0 /\ commands'[i].call > listening'
    <3>1. i + 1 \in 1..Len(commands) /\ commands'[i] = commands[i + 1] /\ IsPasv(commands, i + 1) /\ 1 < i + 1
      BY <1>3, <2>4 DEF IsPasv
    <3>2. commands[i + 1].call > 0 /\ commands[i + 1].call > listening /\ commands[i + 1].call \in Nat
      BY <1>1, <1>5, <3>1
    <3>3. CASE c.cmd # "PASV"
      BY <1>2, <3>1, <3>2, <3>3
    <3>4. CASE c.cmd = "PASV"
      <4>1. c.call < commands[i + 1].call
        BY <1>2, <1>5, <3>1, <3>4 DEF IsPasv
      <4>2. listening' = c.call \/ listening' = -1
        BY <1>2, <3>4
      <4>3. commands[i + 1].call > -1
        BY <3>2
      <4>4. commands[i + 1].call > c.call
        BY <1>1, <1>2, <3>1, <4>1
      <4> QED
        BY <3>1, <3>2, <4>2, <4>3, <4>4
    <3> QED
      BY <3>3, <3>4
  <2>5. ASSUME NEW i \in 1..Len(commands'), NEW j \in 1..Len(commands'), i < j,
               IsPasv(commands, i)', IsPasv(commands, j)'
        PROVE  commands'[i].call < commands'[j].call
    <3>1. /\ i + 1 \in 1..Len(commands) /\ commands'[i] = commands[i + 1] /\ IsPasv(commands, i + 1)
          /\ j + 1 \in 1..Len(commands) /\ commands'[j] = commands[j + 1] /\ IsPasv(commands, j + 1)
      BY <1>3, <2>5 DEF IsPasv
    <3>2. i + 1 < j + 1
      BY <1>2, <2>5
    <3> QED
      BY <1>5, <3>1, <3>2
  <2> QED
    BY <2>1, <2>2, <2>3, <2>4, <2>5 DEF Numbers
<1>7. PasvAhead' => /\ \A i \in 1..Len(commands') : ~OwnPasv(commands, i)'
                    /\ \A i \in 1..Len(replies') : ~OwnPasv(replies, i)'
                    /\ listening' # calls'
  <2> SUFFICES ASSUME PasvAhead'
               PROVE  /\ \A i \in 1..Len(commands') : ~OwnPasv(commands, i)'
                      /\ \A i \in 1..Len(replies') : ~OwnPasv(replies, i)'
                      /\ listening' # calls'
    OBVIOUS
  <2>1. PasvAhead
    BY <1>2 DEF PasvAhead
  <2>2. /\ \A i \in 1..Len(commands) : ~OwnPasv(commands, i)
        /\ \A i \in 1..Len(replies) : ~OwnPasv(replies, i)
        /\ listening # calls
    BY <1>0, <2>1 DEF PasvOnce
  <2>3. ~(c.cmd = "PASV" /\ c.call = calls)
    BY <1>2, <2>2 DEF OwnPasv
  <2>4. \A i \in 1..Len(commands') : ~OwnPasv(commands, i)'
    BY <1>2, <1>3, <2>2 DEF OwnPasv
  <2>5. \A i \in 1..Len(replies') : ~OwnPasv(replies, i)'
    BY <1>2, <1>4, <2>2, <2>3 DEF OwnPasv
  <2>6. listening' # calls'
    BY <1>1, <1>2, <2>2, <2>3
  <2> QED
    BY <2>4, <2>5, <2>6
<1>8. pc = "reply" /\ Expecting = "PASV" =>
       /\ \A i \in 1..Len(commands') : OwnPasv(commands, i)' => i = Len(commands')
       /\ \A i \in 1..Len(replies') :
            OwnPasv(replies, i)' /\ up' =>
              /\ commands' = <<>> /\ i = Len(replies')
              /\ replies'[i].code = 2 => listening' = calls' /\ rest' = 0
  <2> SUFFICES ASSUME pc = "reply", Expecting = "PASV"
               PROVE  /\ \A i \in 1..Len(commands') : OwnPasv(commands, i)' => i = Len(commands')
                      /\ \A i \in 1..Len(replies') :
                           OwnPasv(replies, i)' /\ up' =>
                             /\ commands' = <<>> /\ i = Len(replies')
                             /\ replies'[i].code = 2 => listening' = calls' /\ rest' = 0
    OBVIOUS
  <2>1. /\ \A i \in 1..Len(commands) : OwnPasv(commands, i) => i = Len(commands)
        /\ \A i \in 1..Len(replies) : ~OwnPasv(replies, i)
    <3>1. commands # <<>>
      BY <1>1, <1>2
    <3> QED
      BY <1>0, <1>2, <3>1 DEF PasvOnce
  <2>2. ASSUME NEW i \in 1..Len(commands'), OwnPasv(commands, i)' PROVE i = Len(commands')
    <3>1. i + 1 \in 1..Len(commands) /\ OwnPasv(commands, i + 1)
      BY <1>2, <1>3, <2>2 DEF OwnPasv
    <3>2. i + 1 = Len(commands)
      BY <2>1, <3>1
    <3> QED
      BY <1>2, <3>2
  <2>3. ASSUME NEW i \in 1..Len(replies'), OwnPasv(replies, i)'
        PROVE  /\ commands' = <<>> /\ i = Len(replies')
               /\ replies'[i].code = 2 => listening' = calls' /\ rest' = 0
    <3>1. ~(i \in 1..Len(replies) /\ replies'[i] = replies[i])
      BY <1>2, <2>1, <2>3 DEF OwnPasv
    <3>2. c.cmd = "PASV" /\ c.call = calls
      BY <1>2, <1>4, <2>3, <3>1 DEF OwnPasv
    <3>3. n = 1 /\ i = Len(replies) + 1 /\ Len(replies') = Len(replies) + 1 /\ replies'[i].code = d
      BY <3>1, <3>2 DEF Served
    <3>4. OwnPasv(commands, 1)
      BY <1>2, <3>2 DEF OwnPasv
    <3>5. Len(commands') = 0
      BY <1>2, <2>1, <3>4
    <3>6. commands' = <<>>
      BY <1>2, <3>5, EmptyIs
    <3>7. rest' = 0
      BY <3>2 DEF Served
    <3> QED
      BY <1>2, <3>2, <3>3, <3>6, <3>7
  <2> QED
    BY <2>2, <2>3
<1>9. PasvSent =>
       \/ \E i \in 1..Len(commands') : OwnPasv(commands, i)'
       \/ listening' \in {-1, calls'} /\ \A i \in 1..Len(commands') : ~IsPasv(commands, i)'
  <2> SUFFICES ASSUME PasvSent
               PROVE  \/ \E i \in 1..Len(commands') : OwnPasv(commands, i)'
                      \/ listening' \in {-1, calls'} /\ \A i \in 1..Len(commands') : ~IsPasv(commands, i)'
    OBVIOUS
  <2>1. CASE OwnPasv(commands, 1)
    <3>1. listening' \in {-1, calls'}
      BY <1>2, <2>1 DEF OwnPasv
    <3>2. ASSUME NEW i \in 1..Len(commands'), IsPasv(commands, i)' PROVE FALSE
      <4>1. i + 1 \in 1..Len(commands) /\ IsPasv(commands, i + 1) /\ 1 < i + 1
        BY <1>3, <3>2 DEF IsPasv
      <4>2. commands[1].call < commands[i + 1].call /\ commands[i + 1].call <= calls /\ commands[1].call = calls
        BY <1>2, <1>5, <2>1, <4>1 DEF OwnPasv, IsPasv
      <4>3. commands[i + 1].call \in Nat
        BY <1>1, <4>1
      <4> QED
        BY <1>1, <4>2, <4>3
    <3> QED
      BY <3>1, <3>2
  <2>2. ASSUME NEW i \in 2..Len(commands), OwnPasv(commands, i)
        PROVE  \E h \in 1..Len(commands') : OwnPasv(commands, h)'
    <3>1. PICK h \in 1..Len(commands') : h = i - 1 /\ commands'[h] = commands[i]
      BY DEF Served
    <3>2. OwnPasv(commands, h)'
      BY <1>2, <2>2, <3>1 DEF OwnPasv
    <3> QED
      BY <3>2
  <2>3. CASE listening \in {-1, calls} /\ \A i \in 1..Len(commands) : ~IsPasv(commands, i)
    <3>1. c.cmd # "PASV"
      BY <1>2, <2>3 DEF IsPasv
    <3> QED
      BY <1>2, <1>3, <2>3, <3>1 DEF IsPasv
  <2>4. \/ \E i \in 1..Len(commands) : OwnPasv(commands, i)
        \/ listening \in {-1, calls} /\ \A i \in 1..Len(commands) : ~IsPasv(commands, i)
    BY <1>0, <1>2 DEF PasvOnce
  <2>5. \A i \in 1..Len(commands) : i = 1 \/ i \in 2..Len(commands)
    BY <1>2
  <2> QED
    BY <2>1, <2>2, <2>3, <2>4, <2>5
<1>10. Expecting' = Expecting /\ (PasvSent' => PasvSent) /\ pc' = pc
  BY <1>2 DEF Expecting, PasvSent
<1> QED
  BY <1>6, <1>7, <1>8, <1>9, <1>10 DEF PasvOnce

\* The order of what is left, when the first command has been served.
LEMMA ServedOrder ==
  ASSUME FtpInv, NEW c, NEW n, NEW d, Served(c, n, d)
  PROVE  Doomed' /\ Jobs' /\ Hung' /\ Announced' /\ OwnBefore'
<1>0. TypeOK /\ Numbers /\ Doomed /\ Jobs /\ Hung /\ Announced /\ OwnBefore /\ Following
  BY DEF FtpInv
<1>1. /\ calls \in Nat /\ listening \in Int
      /\ \A i \in 1..Len(commands) : commands[i].call \in Nat /\ commands[i].data \in Nat
      /\ (commands = <<>> <=> Len(commands) = 0) /\ (replies = <<>> <=> Len(replies) = 0)
  BY <1>0, Shapes
<1>2. /\ up /\ job = "none" /\ c = commands[1] /\ 1 \in 1..Len(commands) /\ Len(commands) \in Nat \ {0}
      /\ Len(replies) \in Nat /\ Len(replies') = Len(replies) + n /\ n \in {1, 2}
      /\ Len(commands') = Len(commands) - 1 /\ commands' \in Seq(Command)
      /\ listening' = IF c.cmd # "PASV" THEN listening ELSE IF d = 2 THEN c.call ELSE -1
      /\ UNCHANGED <<pc, todo, address, calls, offset, wire, moved>>
      /\ (c.cmd # "QUIT" => up') /\ (c.cmd = "QUIT" => ~up')
      /\ job' = IF d = 1 /\ n = 1 THEN c.cmd ELSE "none"
  BY DEF Served
<1>3. \A i \in 1..Len(commands') : commands'[i] = commands[i + 1] /\ i + 1 \in 1..Len(commands)
  BY DEF Served
<1>4. commands # <<>> /\ (Len(commands) = 1 => commands' = <<>>)
  BY <1>1, <1>2, EmptyIs
<1>5. /\ Expecting' = Expecting /\ Own' = Own /\ Transferring' = Transferring
  BY <1>2 DEF Expecting, Own, Transferring
<1>6. \A i \in 1..Len(replies') :
         \/ i \in 1..Len(replies) /\ replies'[i] = replies[i]
         \/ i = Len(replies) + 1 /\ replies'[i].code = d
         \/ i = Len(replies) + 2 /\ n = 2 /\ replies'[i].code = 4
  BY DEF Served
<1>7. Doomed'
  <2> SUFFICES ASSUME NEW i \in 1..Len(commands'), commands'[i].cmd \in Transfers, commands'[i].data # 0,
                      ~(pc = "preliminary" /\ Own)
               PROVE  /\ \A j \in 1..Len(commands') : IsPasv(commands, j)' => commands'[j].call > commands'[i].data
                      /\ commands'[i].data < commands'[i].call
                      /\ \/ listening' # commands'[i].data
                         \/ \E j \in 1..Len(commands') : j < i /\ IsPasv(commands, j)'
    BY <1>2, <1>5 DEF Doomed
  <2>1. i + 1 \in 1..Len(commands) /\ commands'[i] = commands[i + 1] /\ i \in Nat
    BY <1>3
  <2>2. /\ \A j \in 1..Len(commands) : IsPasv(commands, j) => commands[j].call > commands[i + 1].data
        /\ commands[i + 1].data < commands[i + 1].call
        /\ \/ listening # commands[i + 1].data
           \/ \E j \in 1..Len(commands) : j < i + 1 /\ IsPasv(commands, j)
    BY <1>0, <2>1 DEF Doomed
  <2>3. \A j \in 1..Len(commands') : IsPasv(commands, j)' => commands'[j].call > commands'[i].data
    BY <1>3, <2>1, <2>2 DEF IsPasv
  <2>4. CASE c.cmd = "PASV"
    <3>1. c.call > commands[i + 1].data /\ c.call \in Nat /\ commands[i + 1].data \in Nat
      BY <1>1, <1>2, <2>1, <2>2, <2>4 DEF IsPasv
    <3>2. listening' # commands'[i].data
      <4>1. listening' = c.call \/ listening' = -1
        BY <1>2, <2>4
      <4>2. c.call # commands[i + 1].data /\ -1 # commands[i + 1].data
        BY <3>1
      <4> QED
        BY <2>1, <4>1, <4>2
    <3> QED
      BY <2>1, <2>2, <2>3, <3>2
  <2>5. CASE c.cmd # "PASV"
    <3>1. ASSUME NEW j \in 1..Len(commands), j < i + 1, IsPasv(commands, j)
          PROVE  \E h \in 1..Len(commands') : h < i /\ IsPasv(commands, h)'
      <4>1. j # 1
        BY <1>2, <2>5, <3>1 DEF IsPasv
      <4>2. j \in 2..Len(commands) /\ j - 1 < i
        BY <1>2, <2>1, <3>1, <4>1
      <4>3. PICK h \in 1..Len(commands') : h = j - 1 /\ commands'[h] = commands[j]
        BY <4>2 DEF Served
      <4>4. h < i /\ IsPasv(commands, h)'
        BY <3>1, <4>2, <4>3 DEF IsPasv
      <4> QED
        BY <4>4
    <3> QED
      BY <1>2, <2>1, <2>2, <2>3, <2>5, <3>1
  <2> QED
    BY <2>4, <2>5
<1>8. Jobs'
  <2>1. /\ wire' > 0 => Transferring'
        /\ pc' \in {"start", "send", "reply", "preliminary"} => moved' = 0
    BY <1>0, <1>2, <1>5 DEF Jobs
  <2>2. ASSUME job' # "none"
        PROVE  up' /\ Transferring' /\ Own' /\ job' = Expecting' /\ commands' = <<>> /\ Begun'
    <3>1. d = 1 /\ n = 1 /\ job' = c.cmd
      BY <1>2, <2>2
    <3>2. Transferring /\ Own
      BY <3>1, BeginsOwn
    <3>3. /\ commands' = <<>> /\ up' /\ c.cmd = Expecting /\ Len(replies) = 0
      BY <3>2, OwnServed
    <3>4. Len(replies') = 1 /\ 1 \in 1..Len(replies')
      BY <1>2, <3>1, <3>3
    <3>5. replies'[1].code = 1
      BY <1>6, <3>1, <3>3, <3>4
    <3> QED
      BY <1>5, <3>1, <3>2, <3>3, <3>4, <3>5 DEF Begun
  <2> QED
    BY <2>1, <2>2 DEF Jobs
<1>9. Hung'
  <2>1. \A i \in 1..Len(commands) : commands[i].cmd = "QUIT" => i = Len(commands) /\ pc = "reply" /\ Expecting = "QUIT"
    BY <1>0 DEF Hung
  <2>2. ~up' => commands' = <<>>
    BY <1>2, <1>4, <2>1
  <2>3. ASSUME NEW i \in 1..Len(commands'), commands'[i].cmd = "QUIT"
        PROVE  i = Len(commands') /\ pc = "reply" /\ Expecting = "QUIT"
    <3>1. i + 1 = Len(commands) /\ pc = "reply" /\ Expecting = "QUIT"
      BY <1>3, <2>1, <2>3
    <3> QED
      BY <1>2, <3>1
  <2> QED
    BY <1>2, <1>5, <2>2, <2>3 DEF Hung
<1>10. Announced'
  <2> SUFFICES ASSUME NEW i \in 1..Len(replies'), replies'[i].code = 1
               PROVE  \/ i < Len(replies') /\ replies'[i + 1].code = 4
                      \/ pc = "preliminary" /\ Own /\ i = 1
    BY <1>2, <1>5 DEF Announced
  <2>1. CASE i \in 1..Len(replies) /\ replies'[i] = replies[i]
    <3>1. CASE i < Len(replies) /\ replies[i + 1].code = 4
      <4>1. i + 1 \in 1..Len(replies) /\ i < Len(replies')
        BY <1>2, <3>1
      <4>2. replies'[i + 1] = replies[i + 1]
        BY <4>1 DEF Served
      <4> QED
        BY <3>1, <4>1, <4>2
    <3> QED
      BY <1>0, <2>1, <3>1 DEF Announced
  <2>2. CASE i = Len(replies) + 1 /\ replies'[i].code = d
    <3>1. CASE n = 1
      <4>1. Transferring /\ Own
        BY <2>2, <3>1, BeginsOwn
      <4>2. pc = "preliminary" /\ Len(replies) = 0
        BY <4>1, OwnServed
      <4> QED
        BY <2>2, <4>1, <4>2
    <3>2. CASE n = 2
      <4>1. replies'[Len(replies) + 2].code = 4
        BY <3>2 DEF Served
      <4>2. i + 1 = Len(replies) + 2 /\ i < Len(replies')
        BY <1>2, <2>2, <3>2
      <4> QED
        BY <4>1, <4>2
    <3> QED
      BY <1>2, <3>1, <3>2
  <2> QED
    BY <1>6, <2>1, <2>2
<1>11. OwnBefore'
  <2>1. ~(pc = "send" /\ Expecting \in Transfers \cup {"REST"} /\ Own)
    BY <1>0, <1>2, <1>4 DEF OwnBefore
  <2>2. ASSUME pc = "reply", Expecting = "REST", Own
        PROVE  /\ listening' = calls' /\ commands' = <<>> /\ Len(replies') = 1
               /\ replies'[1].code = 3 => rest' = offset
    <3>1. /\ listening = calls /\ replies = <<>> /\ Len(commands) = 1
          /\ commands[1].cmd = "REST" /\ commands[1].at = offset
      BY <1>0, <1>2, <1>4, <2>2 DEF OwnBefore
    <3>2. c.cmd = "REST" /\ c.at = offset /\ Len(replies) = 0
      BY <1>1, <1>2, <3>1
    <3>3. n = 1 /\ rest' = IF c.cmd = "REST" /\ d = 3 THEN c.at ELSE 0
      BY <3>2 DEF Served
    <3>4. Len(replies') = 1 /\ 1 \in 1..Len(replies')
      BY <1>2, <3>2, <3>3
    <3>5. replies'[1].code = d
      BY <1>6, <3>2, <3>3, <3>4
    <3>6. listening' = calls'
      BY <1>2, <3>1, <3>2
    <3> QED
      BY <1>4, <3>1, <3>2, <3>3, <3>4, <3>5, <3>6
  <2>3. pc' = pc /\ offset' = offset
    BY <1>2
  <2> QED
    BY <1>5, <2>1, <2>2, <2>3 DEF OwnBefore
<1> QED
  BY <1>7, <1>8, <1>9, <1>10, <1>11

\* The transfer under way, when the first command has been served.
LEMMA ServedTransfer ==
  ASSUME FtpInv, NEW c, NEW n, NEW d, Served(c, n, d)
  PROVE  OwnTransfer' /\ OtherTransfer' /\ Pieces'
<1>0. TypeOK /\ OwnTransfer /\ OtherTransfer /\ Pieces /\ Jobs
  BY DEF FtpInv
<1>1. /\ Len(replies) \in Nat /\ wire \in Nat /\ moved \in Nat /\ Length \in Nat /\ offset \in Nat
      /\ offset <= Length /\ rest \in Nat
  BY <1>0, Shapes
<1>2. /\ job = "none" /\ Len(replies') = Len(replies) + n /\ n \in {1, 2}
      /\ job' = IF d = 1 /\ n = 1 THEN c.cmd ELSE "none"
      /\ from' = IF d = 1 /\ n = 1 THEN rest ELSE 0
      /\ at_server' = from'
      /\ UNCHANGED <<pc, todo, address, calls, call, offset, wire, moved, cut>>
      /\ \A i \in 1..Len(replies) : replies'[i] = replies[i]
  BY DEF Served
<1>3. /\ Expecting' = Expecting /\ Own' = Own /\ Transferring' = Transferring /\ Reading' = Reading
      /\ Final' = Final
  BY <1>2 DEF Expecting, Own, Transferring, Reading, Final
<1>4. from' \in Nat /\ at_server' - from' = 0
  BY <1>1, <1>2
<1>5. CASE Transferring /\ Own
  <2>1. /\ pc = "preliminary" /\ commands' = <<>> /\ n = 1 /\ Len(replies) = 0
        /\ rest = offset /\ wire = 0 /\ moved = 0 /\ calls > 0
    BY <1>5, OwnServed
  <2>2. Len(replies') = 1 /\ Final = 2
    BY <1>2, <2>1 DEF Final
  <2>3. replies'[1].code = d
    <3>1. 1 \in 1..Len(replies') /\ 1 = Len(replies) + 1
      BY <2>1, <2>2
    <3> QED
      BY <2>1, <3>1 DEF Served
  <2>4. Begun' => d = 1
    BY <1>2, <2>1, <2>3 DEF Begun
  <2>5. Begun' => from' = offset'
    BY <1>2, <2>1, <2>4
  <2>6. \A i \in 1..Len(replies') : ~(i > Final) /\ ~(i > 1)
    BY <2>2
  <2>7. OwnTransfer'
    BY <1>2, <1>3, <2>1, <2>2, <2>5, <2>6 DEF OwnTransfer
  <2>8. OtherTransfer'
    BY <1>3, <1>5 DEF OtherTransfer
  <2>9. Pieces'
    BY <1>1, <1>2, <1>3, <1>4, <2>1 DEF Pieces
  <2> QED
    BY <2>7, <2>8, <2>9
<1>6. CASE Transferring /\ ~Own
  <2>1. /\ pc # "preliminary" => Len(replies) > 0 /\ replies[1].code = 4
        /\ Reading \/ pc = "preliminary" => moved = 0 /\ wire = 0
    BY <1>0, <1>6 DEF OtherTransfer
  <2>2. job' = "none"
    BY <1>2, <1>6, BeginsOwn
  <2>3. pc # "preliminary" => Len(replies') > 0 /\ replies'[1].code = 4
    BY <1>1, <1>2, <2>1
  <2>4. OtherTransfer'
    BY <1>2, <1>3, <2>1, <2>3 DEF OtherTransfer
  <2>5. OwnTransfer'
    BY <1>3, <1>6 DEF OwnTransfer
  <2>6. /\ ~Reading => wire <= moved /\ moved <= Length - offset
        /\ pc = "final" => wire = 0
    BY <1>0, <1>2, <1>6 DEF Pieces
  <2>7. Reading => moved + wire <= 0
    BY <1>1, <2>1
  <2>8. Pieces'
    BY <1>2, <1>3, <1>4, <1>6, <2>2, <2>6, <2>7 DEF Pieces
  <2> QED
    BY <2>4, <2>5, <2>8
<1>7. CASE ~Transferring
  BY <1>3, <1>7 DEF OwnTransfer, OtherTransfer, Pieces
<1> QED
  BY <1>5, <1>6, <1>7

\* What the commands have come to, when the first of them has been served.
LEMMA ServedResults ==
  ASSUME FtpInv, NEW c, NEW n, NEW d, Served(c, n, d)
  PROVE  /\ Untouched' /\ Following' /\ InStep' /\ Done'
         /\ Settled' /\ SuccessIsReal' /\ WholeFileMoved'
<1>0. /\ TypeOK /\ Untouched /\ Following /\ InStep /\ Done
      /\ Settled /\ SuccessIsReal /\ WholeFileMoved
  BY DEF FtpInv
<1>1. (commands = <<>> <=> Len(commands) = 0) /\ (replies = <<>> <=> Len(replies) = 0)
  BY <1>0, Shapes
<1>2. /\ c = commands[1] /\ Len(commands) \in Nat \ {0} /\ Len(commands') = Len(commands) - 1
      /\ commands' \in Seq(Command) /\ carried \subseteq carried'
      /\ UNCHANGED <<pc, todo, address, calls, call, offset, response, result, moved, strayed, cut>>
  BY DEF Served
<1>3. commands # <<>> /\ (Len(commands) = 1 => commands' = <<>>)
  BY <1>1, <1>2, EmptyIs
<1>4. /\ Expecting' = Expecting /\ Own' = Own /\ Transferring' = Transferring
      /\ (PasvSent' => PasvSent) /\ Script(call)' = Script(call) /\ (Busy' <=> Busy)
  BY <1>2 DEF Expecting, Own, Transferring, PasvSent, Script, Access, Busy
<1>5. Untouched'
  BY <1>0, <1>2, <1>3 DEF Untouched
<1>6. Following'
  BY <1>0, <1>2, <1>4, FollowingKept DEF Following
<1>7. InStep'
  <2> SUFFICES ASSUME ~strayed PROVE InStep'
    BY <1>2 DEF InStep
  <2>1. pc \notin {"start", "idle", "send"}
    BY <1>0, <1>3 DEF InStep
  <2>2. ASSUME pc = "reply"
        PROVE  /\ commands' = <<>>
               /\ \A i \in 1..Len(replies') :
                    /\ i = 1
                    /\ replies'[1].cmd = Expecting /\ replies'[1].call = calls
                    /\ replies'[1].code \in {2, 3} => Expecting \in carried'
    <3>1. Len(commands) = 1 /\ replies = <<>> /\ commands[1].cmd = Expecting /\ commands[1].call = calls
      BY <1>0, <1>3, <2>2 DEF InStep
    <3>2. Expecting \notin Transfers
      BY <1>0, <2>2 DEF Following
    <3>3. c.cmd = Expecting /\ c.call = calls /\ c.cmd \notin Transfers /\ Len(replies) = 0
      BY <1>1, <1>2, <3>1, <3>2
    <3>4. n = 1 /\ Len(replies') = 1
      BY <3>3 DEF Served
    <3>5. 1 \in 1..Len(replies') /\ \A i \in 1..Len(replies') : i = 1
      BY <3>4
    <3>6. replies'[1].code = d /\ replies'[1].cmd = c.cmd /\ replies'[1].call = c.call
      BY <3>3, <3>4, <3>5 DEF Served
    <3>7. d \in {2, 3} => c.cmd \in carried'
      BY <3>3 DEF Served
    <3> QED
      BY <1>3, <3>1, <3>3, <3>5, <3>6, <3>7
  <2>3. (PasvSent /\ Expecting # "PASV" => Own) /\ (Transferring => Own)
    BY <1>0 DEF InStep
  <2> QED
    BY <1>2, <1>4, <2>1, <2>2, <2>3 DEF InStep
<1>8. Done'
  <2>1. call' = call /\ todo' = todo /\ pc' = pc /\ strayed' = strayed
    BY <1>2
  <2> QED
    BY <1>0, <1>2, <1>4, <2>1 DEF Done
<1>9. ~(Returned /\ call.name \in {"Get", "Put"} /\ cut = "no")
  BY <1>0, <1>3 DEF Settled
<1>10. Settled' /\ WholeFileMoved'
  BY <1>2, <1>9 DEF Settled, WholeFileMoved, Returned
<1>11. SuccessIsReal'
  <2>1. call' = call /\ result' = result /\ pc' = pc /\ strayed' = strayed
    BY <1>2
  <2> QED
    BY <1>0, <1>2, <1>4, <2>1 DEF SuccessIsReal, Returned
<1> QED
  BY <1>5, <1>6, <1>7, <1>8, <1>10, <1>11

\* The server serves a command, of this call or of an earlier one.
LEMMA ServeStep == ASSUME FtpInv, Serve PROVE FtpInv'
<1>1. PICK n, d : Served(commands[1], n, d) /\ TypeOK'
  BY ServedIs
<1>2. Numbers' /\ PasvOnce'
  BY <1>1, ServedNumbers
<1>3. Doomed' /\ Jobs' /\ Hung' /\ Announced' /\ OwnBefore'
  BY <1>1, ServedOrder
<1>4. OwnTransfer' /\ OtherTransfer' /\ Pieces'
  BY <1>1, ServedTransfer
<1>5. /\ Untouched' /\ Following' /\ InStep' /\ Done'
      /\ Settled' /\ SuccessIsReal' /\ WholeFileMoved'
  BY <1>1, ServedResults
<1> QED
  BY <1>1, <1>2, <1>3, <1>4, <1>5 DEF FtpInv

-------------------------------------------------------------------------------
(* The invariant.                                                          *)

\* It holds before Connect.
LEMMA InitInv == ASSUME Init PROVE FtpInv
<1> USE FtpAssumption
<1>1. /\ handle = "none" /\ is_connected = FALSE /\ offset = 0 /\ response = NoReply
      /\ call = [name |-> "Connect", at |-> 0] /\ pc = "start" /\ todo = <<>> /\ nData = FALSE
      /\ address = 0 /\ moved = 0 /\ result = "none" /\ commands = <<>> /\ replies = <<>> /\ wire = 0
      /\ up = FALSE /\ logged_in = FALSE /\ listening = -1 /\ rest = 0
      /\ job = "none" /\ from = 0 /\ at_server = 0
      /\ calls = 0 /\ carried = {} /\ strayed = FALSE /\ cut = "no"
      /\ Len(commands) = 0 /\ Len(replies) = 0 /\ Len(todo) = 0
  BY DEF Init
<1>2. TypeOK
  <2>1. nData = (pc \in {"preliminary", "data", "close"})
    <3>1. (pc \in {"preliminary", "data", "close"}) = FALSE
      BY <1>1
    <3> QED
      BY <1>1, <3>1, Zenon
  <2>2. (pc \in {"start", "idle"}) = (todo = <<>>)
    BY <1>1
  <2>3. /\ response \in Reply /\ call \in [name : Names \cup {"Connect"}, at : 0..Length]
        /\ todo \in Seq(Commands) /\ commands \in Seq(Command) /\ replies \in Seq(Reply)
    BY <1>1 DEF NoReply, Reply
  <2>4. is_connected \in BOOLEAN /\ up \in BOOLEAN /\ logged_in \in BOOLEAN /\ strayed \in BOOLEAN
    BY <1>1, Zenon
  <2>5. /\ offset \in 0..Length /\ address \in 0..MaxCalls /\ moved \in 0..Length /\ wire \in 0..Length
        /\ listening \in -1..MaxCalls /\ rest \in 0..Length /\ from \in 0..Length
        /\ at_server \in from..Length /\ calls \in 0..MaxCalls
    BY <1>1
  <2>6. /\ handle \in {"none", "open", "closed"} /\ result \in {"none", "ok", "failed", "list"}
        /\ pc \in PCs /\ job \in Transfers \cup {"none"} /\ carried \subseteq Commands
        /\ cut \in {"no", "disk", "reset"}
    BY <1>1 DEF PCs
  <2> QED
    BY <2>1, <2>2, <2>3, <2>4, <2>5, <2>6, Zenon DEF TypeOK, PCs, Command
<1>3. Untouched /\ Hung /\ Doomed /\ Announced /\ Settled
  BY <1>1 DEF Untouched, Hung, Doomed, Announced, Settled, Returned
<1>4. Following
  BY <1>1 DEF Following, Transferring
<1>5. Numbers
  BY <1>1 DEF Numbers
<1>6. PasvOnce
  BY <1>1 DEF PasvOnce, PasvAhead, PasvSent
<1>7. Jobs
  BY <1>1 DEF Jobs
<1>8. OwnBefore /\ OwnTransfer /\ OtherTransfer /\ Pieces
  BY <1>1 DEF OwnBefore, OwnTransfer, OtherTransfer, Pieces, Transferring
<1>9. InStep
  BY <1>1 DEF InStep, PasvSent, Transferring
<1>10. Done /\ SuccessIsReal /\ WholeFileMoved
  BY <1>1 DEF Done, Busy, SuccessIsReal, WholeFileMoved, Returned
<1> QED
  BY <1>2, <1>3, <1>4, <1>5, <1>6, <1>7, <1>8, <1>9, <1>10 DEF FtpInv

\* It says nothing of anything but the state.
LEMMA StutterStep == ASSUME FtpInv, UNCHANGED vars PROVE FtpInv'
<1>1. /\ UNCHANGED <<handle, is_connected, offset, response, call, pc, todo, nData, address, moved, result>>
      /\ UNCHANGED <<commands, replies, wire>>
      /\ UNCHANGED <<up, logged_in, listening, rest, job, from, at_server, calls, carried, strayed, cut>>
  BY DEF vars, client, server, history
<1>2. UNCHANGED <<client, calls, strayed, cut>> /\ UNCHANGED <<commands, replies, wire, up, logged_in,
        listening, rest, job, from, at_server, carried>>
  BY <1>1 DEF client
<1>0. /\ TypeOK /\ Untouched /\ Following /\ Numbers /\ PasvOnce /\ Doomed /\ Jobs /\ Hung
      /\ Announced /\ OwnBefore /\ OwnTransfer /\ OtherTransfer /\ Pieces
      /\ InStep /\ Done /\ Settled /\ SuccessIsReal /\ WholeFileMoved
  BY DEF FtpInv
<1>3. /\ Expecting' = Expecting /\ Own' = Own /\ Transferring' = Transferring /\ Reading' = Reading
      /\ Final' = Final /\ Script(call)' = Script(call) /\ Quitting' = Quitting
  BY <1>1 DEF Expecting, Own, Transferring, Reading, Final, Script, Access, Quitting
<1>4. TypeOK'
  <2>1. /\ commands' \in Seq(Command) /\ replies' \in Seq(Reply) /\ wire' \in 0..Length
        /\ up' \in BOOLEAN /\ logged_in' \in BOOLEAN /\ listening' \in -1..MaxCalls /\ rest' \in 0..Length
        /\ job' \in Transfers \cup {"none"} /\ from' \in 0..Length /\ at_server' \in from'..Length
        /\ carried' \subseteq Commands
    BY <1>0, <1>2, Zenon DEF TypeOK, Command
  <2>2. UNCHANGED <<client, calls, strayed, cut>>
    BY <1>2
  <2> QED
    BY <1>0, <2>1, <2>2, ServerTypes, Zenon
<1>5. Untouched' /\ Numbers' /\ Hung' /\ Doomed' /\ Announced'
  BY <1>0, <1>1, <1>3 DEF Untouched, Numbers, Hung, Doomed, Announced, IsPasv
<1>6. Following'
  BY <1>0, <1>1, <1>3, FollowingKept DEF Following
<1>7. PasvOnce' /\ OwnBefore'
  BY <1>0, <1>1, <1>3 DEF PasvOnce, OwnBefore, PasvAhead, PasvSent, OwnPasv, IsPasv
<1>8. Begun' = Begun
  BY <1>1 DEF Begun
<1>9. Jobs'
  BY <1>0, <1>1, <1>3, <1>8 DEF Jobs
<1>10. OwnTransfer' /\ OtherTransfer'
  BY <1>0, <1>1, <1>3, <1>8 DEF OwnTransfer, OtherTransfer
<1>11. Pieces'
  BY <1>0, <1>1, <1>3, <1>8 DEF Pieces
<1>12. InStep' /\ Done'
  BY <1>0, <1>1, <1>3 DEF InStep, Done, Busy, PasvSent
<1>13. Settled' /\ SuccessIsReal' /\ WholeFileMoved'
  BY <1>0, <1>1, <1>3 DEF Settled, SuccessIsReal, WholeFileMoved, Returned
<1> QED
  BY <1>4, <1>5, <1>6, <1>7, <1>9, <1>10, <1>11, <1>12, <1>13 DEF FtpInv

\* Every step keeps it.
LEMMA NextStep == ASSUME FtpInv, [Next]_vars PROVE FtpInv'
<1>1. CASE Client
  <2>1. CASE Connect
    BY <2>1, ConnectStep
  <2>2. CASE Send
    BY <2>2, SendStep
  <2>3. CASE SendFails
    BY <2>3, SendFailsStep
  <2>4. CASE ReadReply
    BY <2>4, ReadReplyStep
  <2>5. CASE ReadNothing
    BY <2>5, ReadNothingStep
  <2>6. CASE DataSocketFails
    BY <2>6, DataSocketFailsStep
  <2>7. CASE \E connected \in {TRUE, FALSE} : OpenData(connected)
    BY <2>7, OpenDataStep
  <2>8. CASE ReadPreliminary
    BY <2>8, ReadPreliminaryStep
  <2>9. CASE ReadPiece
    BY <2>9, ReadPieceStep
  <2>10. CASE ReadEnd
    BY <2>10, ReadEndStep
  <2>11. CASE WritePiece
    BY <2>11, WritePieceStep
  <2>12. CASE WriteEnd
    BY <2>12, WriteEndStep
  <2>13. CASE CloseData
    BY <2>13, CloseDataStep
  <2>14. CASE ReadFinal
    BY <2>14, ReadFinalStep
  <2> QED
    BY <1>1, <2>1, <2>2, <2>3, <2>4, <2>5, <2>6, <2>7, <2>8, <2>9, <2>10, <2>11, <2>12, <2>13, <2>14
       DEF Client
<1>2. CASE \E request \in Requests : Call(request)
  BY <1>2, CallStep
<1>3. CASE Answer
  BY <1>3, ServeStep, SendPieceStep, StorePieceStep, CompleteStep, AbortStep DEF Answer
<1>4. CASE HangUp
  BY <1>4, HangUpStep
<1>5. CASE UNCHANGED vars
  BY <1>5, StutterStep
<1> QED
  BY <1>1, <1>2, <1>3, <1>4, <1>5 DEF Next

-------------------------------------------------------------------------------
(* What follows from it.                                                   *)

\* The inductive invariant holds in every state, whatever the replies and whenever the
\* server hangs up: what the client takes for the reply to its PASV decides whether its
\* transfer is served (FtpOpenPasv, FtpAccess, FtpXfer).
THEOREM FtpInvariant == Spec => []FtpInv
<1>1. Init => FtpInv
  BY InitInv
<1>2. FtpInv /\ [Next]_vars => FtpInv'
  BY NextStep
<1> QED
  BY <1>1, <1>2, PTL DEF Spec

\* The variables keep their values: a data connection is open exactly while an operation
\* transfers, no more pieces are moved than the file has, and the server is never behind
\* the place where it started (ftphandle, FtpAccess, FtpClose).
THEOREM TypeCorrect == Spec => []TypeOK
<1>1. FtpInv => TypeOK
  BY DEF FtpInv
<1> QED
  BY <1>1, FtpInvariant, PTL

\* An operation that returns 1 has been carried out, command for command, unless a data
\* connection failed before and left its reply unread (FtpSendCmd, ReadResponse).
THEOREM SuccessHasHappened == Spec => []SuccessIsReal
<1>1. FtpInv => SuccessIsReal
  BY DEF FtpInv
<1> QED
  BY <1>1, FtpInvariant, PTL

\* A transfer that returns 1 has moved the whole file and read the reply to itself, also
\* when the client was behind with its replies (FtpXfer, FtpClose).
THEOREM WholeFileIsMoved == Spec => []WholeFileMoved
<1>1. FtpInv => WholeFileMoved
  BY DEF FtpInv
<1> QED
  BY <1>1, FtpInvariant, PTL

-------------------------------------------------------------------------------
(* Who takes itself for connected.                                         *)

\* The replies that grant a login come from a server that has granted it.
Granted == \A i \in 1..Len(replies) :
  replies[i].cmd \in {"USER", "PASS"} /\ replies[i].code = 2 => logged_in

\* While Connect has not gone on from USER, the response buffer holds the greeting; no
\* reply is left unread before the first call.
Greeted ==
  call.name = "Connect" =>
    /\ ~strayed
    /\ pc \in {"send", "reply"} /\ Expecting = "USER" => response.cmd = "HELLO"

\* Connect's script begins with the greeting; USER follows it.
LEMMA UserIsSecond ==
  ASSUME FtpInv, pc \in {"send", "reply"}, call.name = "Connect", Len(todo) > 1,
         Head(Tail(todo)) = "USER"
  PROVE  Expecting = "HELLO"
<1> DEFINE s == Script(call)
           n == Len(s) - Len(todo)
<1>1. s = <<"HELLO", "USER", "PASS">>
  BY DEF Script
<1>2. TypeOK /\ Following /\ Len(todo) \in 1..4
  BY Between
<1>3. /\ Len(todo) <= Len(s)
      /\ \A j \in 1..Len(todo) - 1 : Tail(todo)[j] = s[Len(s) - (Len(todo) - 1) + j]
      /\ s[Len(s) - Len(todo) + 1] = Expecting
      /\ Tail(todo) # <<>> /\ Head(Tail(todo)) = todo[2] /\ Tail(todo)[1] = todo[2]
  <2>1. pc # "undefined"
    OBVIOUS
  <2>2. 1 \in 1..Len(todo) - 1 /\ 1 + 1 = 2
    BY <1>2
  <2> QED
    BY <1>2, <2>1, <2>2, NextPosition
<1>4. Len(s) = 3 /\ s[1] = "HELLO" /\ s[2] = "USER" /\ s[3] = "PASS"
  BY <1>1
<1> HIDE DEF s
<1>5. n \in {0, 1} /\ s[n + 1] = Expecting /\ s[n + 2] = "USER"
  <2>1. Len(s) - (Len(todo) - 1) + 1 = n + 2 /\ 1 \in 1..Len(todo) - 1
    BY <1>2, <1>3, <1>4
  <2>2. Tail(todo)[1] = "USER"
    BY <1>3
  <2>3. n \in {0, 1}
    <3>1. Len(todo) \in 1..4 /\ Len(todo) <= 3 /\ Len(todo) > 1
      BY <1>2, <1>3, <1>4
    <3>2. Len(todo) \in {2, 3}
      <4>1. \A m \in 1..4 : m <= 3 /\ m > 1 => m \in {2, 3}
        OBVIOUS
      <4> QED
        BY <3>1, <4>1, Zenon
    <3>3. n = 3 - Len(todo)
      BY <1>4
    <3> QED
      BY <3>2, <3>3
  <2> QED
    BY <1>3, <2>1, <2>2, <2>3
<1> HIDE DEF n
<1>6. n = 0
  BY <1>4, <1>5
<1> QED
  BY <1>4, <1>5, <1>6

\* A refused command leaves nothing to do before which USER comes.
LEMMA RefusedUser ==
  ASSUME FtpInv, pc \in {"send", "reply"}, NEW last, Refused(last), call.name = "Connect",
         pc' \in {"send", "reply"}
  PROVE  Expecting' # "USER"
<1>1. TypeOK /\ Following /\ todo # <<>> /\ Expecting \in Commands
  BY Between
<1>2. Expecting # "CWD"
  <2>1. pc # "undefined"
    OBVIOUS
  <2>2. Expecting = "CWD" => call.name = "ListDir"
    BY <1>1, <2>1, Position
  <2> QED
    BY <2>2
<1>3. todo' = <<"QUIT">>
  BY <1>1, <1>2, RefusedIs
<1>4. Head(<<"QUIT">>) = "QUIT"
  OBVIOUS
<1> QED
  BY <1>3, <1>4 DEF Expecting

\* The first reply while nothing has strayed.
LEMMA FirstReply ==
  ASSUME FtpInv, pc = "reply", replies # <<>>, ~strayed, replies[1].code = 2
  PROVE  replies[1].cmd = Expecting
<1>1. 1 \in 1..Len(replies)
  BY Shapes DEF FtpInv
<1> QED
  BY <1>1 DEF FtpInv, InStep

\* A client in a transfer is behind Connect.
LEMMA BehindConnect ==
  ASSUME FtpInv, Transferring \/ (pc = "send" /\ Expecting \in Transfers)
  PROVE  call.name # "Connect"
<1>1. TypeOK /\ Following /\ todo # <<>> /\ pc # "undefined" /\ Expecting \in Transfers
  BY DEF FtpInv, TypeOK, Transferring, Following
<1>2. calls > 0 /\ calls \in Nat
  BY <1>1, Position, Shapes
<1> QED
  BY <1>1, <1>2 DEF Following

LEMMA GreetedStep == ASSUME FtpInv, Greeted, [Next]_vars PROVE Greeted'
<1>1. CASE Connect
  <2>1. /\ call' = call /\ strayed' = strayed /\ ~strayed
        /\ call.name = "Connect" /\ (pc' = "idle" \/ todo' = Script(call))
    BY <1>1 DEF Connect, FtpInv, Untouched, history, Return
  <2>2. Script(call) = <<"HELLO", "USER", "PASS">>
    BY <2>1 DEF Script
  <2>3. Head(<<"HELLO", "USER", "PASS">>) = "HELLO"
    OBVIOUS
  <2>4. pc' = "idle" \/ Expecting' = "HELLO"
    BY <2>1, <2>2, <2>3 DEF Expecting
  <2> QED
    BY <2>1, <2>4 DEF Greeted
<1>2. CASE Send
  BY <1>2 DEF Send, Greeted, Expecting, history
<1>3. CASE SendFails \/ ReadNothing
  <2>1. /\ call' = call /\ strayed' = strayed /\ pc \in {"send", "reply"}
        /\ Refused(response) \/ pc' = "idle"
    BY <1>3 DEF SendFails, ReadNothing, CloseControl, Return, history
  <2>2. call.name = "Connect" /\ pc' \in {"send", "reply"} => Expecting' # "USER"
    BY <2>1, RefusedUser
  <2> QED
    BY <2>1, <2>2 DEF Greeted
<1>4. CASE ReadReply
  <2>1. /\ call' = call /\ strayed' = strayed /\ pc = "reply" /\ replies # <<>>
        /\ response' = Head(replies)
        /\ \/ pc' = "idle"
           \/ Refused(Head(replies))
           \/ /\ Usable(Expecting, Head(replies)) /\ pc' = "send" /\ todo' = Tail(todo)
              /\ Len(todo) # 1
    BY <1>4 DEF ReadReply, CloseControl, Return, Accepted, GoOn, history
  <2>2. TypeOK /\ Len(todo) \in 1..4 /\ replies \in Seq(Reply)
    BY <2>1, Between DEF TypeOK
  <2>3. Head(replies) = replies[1]
    BY <2>1, <2>2, TailIs
  <2>4. CASE pc' = "idle" \/ Refused(Head(replies))
    <3>1. call.name = "Connect" /\ pc' \in {"send", "reply"} => Expecting' # "USER"
      BY <2>1, <2>4, RefusedUser
    <3> QED
      BY <2>1, <3>1 DEF Greeted
  <2>5. CASE Usable(Expecting, Head(replies)) /\ pc' = "send" /\ todo' = Tail(todo) /\ Len(todo) # 1
    <3> SUFFICES ASSUME call.name = "Connect", Expecting' = "USER"
                 PROVE  response'.cmd = "HELLO"
      BY <2>1 DEF Greeted
    <3>1. Expecting = "HELLO"
      <4>1. Head(Tail(todo)) = "USER"
        BY <2>5 DEF Expecting
      <4>2. Len(todo) > 1
        <5>1. Len(todo) \in 1..4 /\ Len(todo) # 1
          BY <2>2, <2>5
        <5>2. \A m \in 1..4 : m # 1 => m > 1
          OBVIOUS
        <5> QED
          BY <5>1, <5>2, Zenon
      <4> QED
        BY <2>1, <4>1, <4>2, UserIsSecond
    <3>2. replies[1].code = 2
      BY <2>3, <2>5, <3>1 DEF Usable, Expected
    <3> QED
      BY <2>1, <2>3, <3>1, <3>2, FirstReply DEF Greeted
  <2> QED
    BY <2>1, <2>4, <2>5
<1>5. CASE DataSocketFails \/ ReadFinal
  BY <1>5 DEF DataSocketFails, ReadFinal, GiveUp, Return, history, Greeted
<1>6. CASE \/ \E connected \in {TRUE, FALSE} : OpenData(connected)
           \/ ReadPreliminary \/ ReadPiece \/ ReadEnd \/ WritePiece \/ WriteEnd \/ CloseData
  <2>1. /\ call' = call
        /\ pc \in {"preliminary", "data", "close"} \/ (pc = "send" /\ Expecting \in Transfers)
    BY <1>6 DEF OpenData, ReadPreliminary, ReadPiece, ReadEnd, WritePiece, WriteEnd, CloseData
  <2>2. call.name # "Connect"
    BY <2>1, BehindConnect DEF Transferring
  <2> QED
    BY <2>1, <2>2 DEF Greeted
<1>7. ASSUME NEW request \in Requests, Call(request)
      PROVE  Greeted'
  <2>1. call'.name # "Connect"
    BY <1>7, FtpAssumption DEF Call, Names
  <2> QED
    BY <2>1 DEF Greeted
<1>8. CASE Answer \/ HangUp \/ UNCHANGED vars
  <2>1. UNCHANGED <<call, strayed, pc, todo, response>>
    BY <1>8 DEF Answer, Serve, SendPiece, StorePiece, Complete, Abort, HangUp, vars, client, history
  <2> QED
    BY <2>1 DEF Greeted, Expecting
<1> QED
  BY <1>1, <1>2, <1>3, <1>4, <1>5, <1>6, <1>7, <1>8 DEF Next, Client

\* Granted, when the replies are the old ones, what is left of them, or none.
LEMMA GrantedLess ==
  ASSUME FtpInv, Granted, replies' = <<>> \/ (replies' = replies /\ logged_in' = logged_in)
           \/ (replies # <<>> /\ replies' = Tail(replies) /\ logged_in' = logged_in)
  PROVE  Granted'
<1>1. replies \in Seq(Reply)
  BY DEF FtpInv, TypeOK
<1>2. CASE replies' = <<>>
  BY <1>2 DEF Granted
<1>3. CASE replies' = replies /\ logged_in' = logged_in
  BY <1>3 DEF Granted
<1>4. CASE replies # <<>> /\ replies' = Tail(replies) /\ logged_in' = logged_in
  <2>1. /\ Len(replies') = Len(replies) - 1 /\ Len(replies) \in Nat \ {0}
        /\ \A i \in 1..Len(replies') : replies'[i] = replies[i + 1]
    BY <1>1, <1>4, TailIs
  <2>2. \A i \in 1..Len(replies') : i + 1 \in 1..Len(replies)
    BY <2>1
  <2> QED
    BY <1>4, <2>1, <2>2 DEF Granted
<1> QED
  BY <1>2, <1>3, <1>4

\* ... and when there are more behind them.
LEMMA GrantedMore ==
  ASSUME FtpInv, Granted, NEW q \in Seq(Reply), replies' = replies \o q, logged_in => logged_in',
         \A i \in 1..Len(q) : q[i].cmd \in {"USER", "PASS"} /\ q[i].code = 2 => logged_in'
  PROVE  Granted'
<1>1. \A i \in 1..Len(replies') :
         \/ i \in 1..Len(replies) /\ replies'[i] = replies[i]
         \/ i - Len(replies) \in 1..Len(q) /\ replies'[i] = q[i - Len(replies)]
  BY MoreReplies DEF FtpInv
<1> QED
  BY <1>1 DEF Granted

LEMMA GrantedStep == ASSUME FtpInv, Granted, [Next]_vars PROVE Granted'
<1>0. TypeOK /\ replies \in Seq(Reply)
  BY DEF FtpInv, TypeOK
<1>1. CASE Connect
  <2>1. \/ replies' = <<>>
        \/ replies' = replies /\ logged_in' = logged_in
        \/ \E code \in {2, 4} : replies' = <<[code |-> code, cmd |-> "HELLO", call |-> 0]>>
    BY <1>1 DEF Connect
  <2>2. ASSUME NEW code \in {2, 4}, replies' = <<[code |-> code, cmd |-> "HELLO", call |-> 0]>>
        PROVE  Granted'
    <3>1. Len(replies') = 1 /\ replies'[1].cmd = "HELLO"
      BY <2>2
    <3>2. \A i \in 1..1 : i = 1
      OBVIOUS
    <3> QED
      BY <3>1, <3>2 DEF Granted
  <2> QED
    BY <2>1, <2>2, GrantedLess
<1>2. CASE SendFails \/ ReadNothing \/ ReadReply
  <2>1. \/ replies' = <<>>
        \/ replies' = replies /\ logged_in' = logged_in
        \/ replies # <<>> /\ replies' = Tail(replies) /\ logged_in' = logged_in
    BY <1>2 DEF SendFails, ReadNothing, ReadReply, CloseControl
  <2> QED
    BY <2>1, GrantedLess
<1>3. CASE ReadPreliminary \/ ReadFinal
  <2>1. TakeReply /\ logged_in' = logged_in
    BY <1>3 DEF ReadPreliminary, ReadFinal, server
  <2> QED
    BY <2>1, GrantedLess DEF TakeReply
<1>4. CASE \/ Send \/ DataSocketFails \/ \E connected \in {TRUE, FALSE} : OpenData(connected)
           \/ ReadPiece \/ ReadEnd \/ WritePiece \/ WriteEnd \/ CloseData
           \/ \E request \in Requests : Call(request)
           \/ SendPiece \/ StorePiece \/ UNCHANGED vars
  <2>1. replies' = replies /\ logged_in' = logged_in
    BY <1>4 DEF Send, DataSocketFails, OpenData, ReadPiece, ReadEnd, WritePiece, WriteEnd, CloseData,
                Call, SendPiece, StorePiece, vars, server
  <2> QED
    BY <2>1, GrantedLess
<1>5. CASE Serve
  <2> DEFINE c == Head(commands)
  <2>1. PICK code \in Codes(c) :
          /\ replies' = replies \o Answers(code, c)
          /\ logged_in' = (logged_in \/ (c.cmd \in {"USER", "PASS"} /\ code = <<2>>))
    BY <1>5 DEF Serve
  <2>2. c \in Command
    <3>1. commands \in Seq(Command) /\ commands # <<>>
      BY <1>0, <1>5, Shapes DEF Serve
    <3> QED
      BY <3>1, TailIs
  <2> HIDE DEF c
  <2>3. /\ \A i \in 1..Len(code) : code[i] \in 0..5
        /\ Len(code) \in {1, 2}
        /\ \/ Len(code) = 1 /\ code = <<code[1]>>
           \/ c.cmd \in Transfers
    BY <2>1, CodesIs
  <2> DEFINE q == Answers(code, c)
  <2>4. /\ q \in Seq(Reply) /\ Len(q) = Len(code)
        /\ \A i \in 1..Len(code) : q[i].code = code[i] /\ q[i].cmd = c.cmd
    <3>1. \A i \in 1..Len(code) : [code |-> code[i], cmd |-> c.cmd, call |-> c.call] \in Reply
      BY <2>2, <2>3 DEF Reply, Command
    <3>2. Len(code) \in Nat
      BY <2>3
    <3> QED
      BY <3>1, <3>2 DEF Answers
  <2>5. ASSUME NEW i \in 1..Len(q), q[i].cmd \in {"USER", "PASS"}, q[i].code = 2
        PROVE  logged_in'
    <3>1. c.cmd \in {"USER", "PASS"} /\ code[i] = 2
      BY <2>4, <2>5
    <3>2. Len(code) = 1 /\ code = <<code[1]>> /\ i = 1
      BY <2>3, <2>4, <3>1 DEF Transfers
    <3>3. code = <<2>>
      BY <3>1, <3>2
    <3> QED
      BY <2>1, <3>1, <3>3
  <2>6. logged_in => logged_in'
    BY <2>1
  <2>7. replies' = replies \o q
    BY <2>1
  <2> HIDE DEF q
  <2> QED
    BY <2>4, <2>5, <2>6, <2>7, GrantedMore
<1>6. CASE Complete \/ Abort
  <2>1. PICK code \in {2, 4} :
          /\ replies' = Append(replies, [code |-> code, cmd |-> job, call |-> calls])
          /\ logged_in' = logged_in
    BY <1>6 DEF Complete, Abort, FinalReply
  <2>2. job \in Transfers
    BY <1>0, <1>6 DEF Complete, Abort, TypeOK, Transfers
  <2> DEFINE r == [code |-> code, cmd |-> job, call |-> calls]
  <2>3. r \in Reply /\ r.cmd \notin {"USER", "PASS"}
    BY <1>0, <2>2 DEF Reply, Commands, TypeOK, Transfers
  <2> HIDE DEF r
  <2>4. /\ Len(replies') = Len(replies) + 1 /\ Len(replies) \in Nat
        /\ \A i \in 1..Len(replies) : replies'[i] = replies[i]
        /\ replies'[Len(replies) + 1] = r
    BY <1>0, <2>1, <2>3, AppendIs, EmptyIs DEF r
  <2>5. \A i \in 1..Len(replies') : i \in 1..Len(replies) \/ i = Len(replies) + 1
    BY <2>4
  <2> QED
    BY <2>1, <2>3, <2>4, <2>5 DEF Granted
<1>7. CASE HangUp
  <2> DEFINE bye == [code |-> 4, cmd |-> "none", call |-> 0]
  <2>1. PICK notice \in {<<>>, <<bye>>} : replies' = replies \o notice
    BY <1>7 DEF HangUp
  <2>2. logged_in' = logged_in
    BY <1>7 DEF HangUp
  <2>3. bye \in Reply /\ bye.code = 4
    BY <1>0, Shapes DEF Reply
  <2> HIDE DEF bye
  <2>4. notice \in Seq(Reply) /\ \A i \in 1..Len(notice) : notice[i].code = 4
    <3>1. CASE notice = <<>>
      BY <3>1
    <3>2. CASE notice = <<bye>>
      BY <2>3, <3>2
    <3> QED
      BY <2>1, <3>1, <3>2
  <2> QED
    BY <2>1, <2>2, <2>4, GrantedMore
<1> QED
  BY <1>1, <1>2, <1>3, <1>4, <1>5, <1>6, <1>7 DEF Next, Client, Answer

\* What a step may do to is_connected.
Explained == ~is_connected /\ is_connected' => logged_in' \/ response'.cmd = "HELLO"

\* Whatever the server answers and whenever it hangs up, the client takes itself for
\* connected only when the login was accepted, or the server was silent to USER and its
\* greeting is taken for the acceptance (Connect, LastResponse).
THEOREM ConnectionIsExplained == Spec => ConnectedExplained
<1>1. Init => Granted /\ Greeted
  <2> SUFFICES ASSUME Init
               PROVE  Granted /\ Greeted
    OBVIOUS
  <2>1. replies = <<>> /\ pc = "start" /\ strayed = FALSE
    BY DEF Init
  <2> QED
    BY <2>1 DEF Granted, Greeted
<1>2. FtpInv /\ Granted /\ Greeted /\ [Next]_vars => Granted' /\ Greeted'
  BY GrantedStep, GreetedStep
<1>3. FtpInv /\ Granted /\ Greeted /\ [Next]_vars => Explained
  <2> SUFFICES ASSUME FtpInv, Granted, Greeted, [Next]_vars, ~is_connected, is_connected'
               PROVE  logged_in' \/ response'.cmd = "HELLO"
    BY DEF Explained
  <2>1. CASE SendFails \/ ReadNothing
    <3>1. /\ pc \in {"send", "reply"} /\ response' = response
          /\ Expecting = "USER" /\ Refused(response)
      BY <2>1 DEF SendFails, ReadNothing, CloseControl, Refused
    <3>2. call.name = "Connect"
      BY <3>1, Between, Position
    <3> QED
      BY <3>1, <3>2 DEF Greeted
  <2>2. CASE ReadReply
    <3>1. replies \in Seq(Reply) /\ replies # <<>> /\ pc = "reply"
      BY <2>2 DEF ReadReply, FtpInv, TypeOK
    <3>2. Head(replies) = replies[1] /\ 1 \in 1..Len(replies)
      BY <3>1, TailIs
    <3>3. /\ logged_in' = logged_in /\ Expecting \in {"USER", "PASS"}
          /\ replies[1].code = 2
      BY <2>2, <3>2
      DEF ReadReply, CloseControl, Accepted, Refused, Usable, Expected, Welcome
    <3>4. call.name = "Connect"
      BY <3>1, <3>3, Between, Position
    <3>5. replies[1].cmd = Expecting
      BY <3>1, <3>3, <3>4, FirstReply DEF Greeted
    <3> QED
      BY <3>2, <3>3, <3>5 DEF Granted
  <2>3. CASE \/ Connect \/ Send \/ DataSocketFails
             \/ \E connected \in {TRUE, FALSE} : OpenData(connected)
             \/ ReadPreliminary \/ ReadPiece \/ ReadEnd \/ WritePiece \/ WriteEnd \/ CloseData
             \/ ReadFinal \/ \E request \in Requests : Call(request)
             \/ Answer \/ HangUp \/ UNCHANGED vars
    <3>1. is_connected' = is_connected
      BY <2>3 DEF Connect, Send, DataSocketFails, OpenData, ReadPreliminary, ReadPiece, ReadEnd,
                  WritePiece, WriteEnd, CloseData, ReadFinal, Call, Answer, Serve, SendPiece,
                  StorePiece, Complete, Abort, HangUp, vars, client
    <3> QED
      BY <3>1
  <2> QED
    BY <2>1, <2>2, <2>3 DEF Next, Client
<1>4. Spec => [][Explained]_vars
  BY <1>1, <1>2, <1>3, FtpInvariant, PTL DEF Spec
<1> QED
  BY <1>4 DEF ConnectedExplained, Explained

===============================================================================
