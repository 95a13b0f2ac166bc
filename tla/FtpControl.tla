------------------------------ MODULE FtpControl ------------------------------
(***************************************************************************)
(* The FTP client (clients/ftpclient.cpp): one public operation at a time  *)
(* sends its commands over the control connection, reads one reply to      *)
(* each, and moves a file or a listing over a data connection.             *)
(*                                                                         *)
(* The server is not part of the repository; it is modelled from the       *)
(* replies the client is prepared for: it answers the commands in order,   *)
(* each with one reply, a transfer with two, and may hang up at any time.  *)
(* A reply carries the command and the call it answers, which the client   *)
(* cannot see.  Files are Length pieces long; a listing is one as well.    *)
(*                                                                         *)
(* A number given back to the system by close is not handed out again      *)
(* here: a send on a closed handle fails.                                  *)
(***************************************************************************)
EXTENDS Integers, Sequences

CONSTANTS
  Length,     (* pieces of a file                                          *)
  Requests,   (* the calls the program makes: [name, at], at an offset     *)
  MaxCalls    (* bound: the number of calls after Connect                  *)

Names == {"Noop", "Delete", "Rename", "Size", "Get", "Put", "GetRange", "ListDir", "Quit"}

ASSUME FtpAssumption ==
  /\ Length \in Nat
  /\ Requests \subseteq [name : Names, at : 0..Length]
  /\ MaxCalls \in Nat

VARIABLES
  \* the client
  handle,         (* "none" (0), "open", or "closed" and not reset to 0       *)
  is_connected,
  offset,
  response,       (* the last reply read: [code, cmd, call]                   *)
  call,           (* the operation called last                                *)
  pc,
  todo,           (* the commands it has still to send, the awaited one first *)
  nData,          (* the client's end of the data connection is open          *)
  address,        (* the call whose PASV gave the address to connect to       *)
  moved,          (* pieces read from or written to the data connection       *)
  result,
  \* the two connections
  commands,
  replies,
  wire,           (* pieces under way in the data connection                  *)
  \* the server
  up,
  logged_in,
  listening,      (* the call whose PASV the server waits at the address of   *)
  rest,
  job,            (* the transfer it is at: "none", "RETR", "LIST" or "STOR"  *)
  from,           (* where that transfer started                              *)
  at_server,      (* the pieces it has sent or stored, counted from 0         *)
  \* history
  calls,          (* the number of the call under way                         *)
  carried,        (* the commands of it that the server carried out           *)
  strayed,        (* a command was sent whose reply nobody reads              *)
  cut             (* what ended the data loop early without the client seeing *)

client  == <<handle, is_connected, offset, response, call, pc, todo, nData, address, moved, result>>
server  == <<up, logged_in, listening, rest, job, from, at_server>>
history == <<calls, carried, strayed, cut>>
vars    == <<client, commands, replies, wire, server, history>>

Transfers == {"RETR", "STOR", "LIST"}

\* What the properties must not allow: the offset is not sent.
AccessFromStart(request, command) ==
  <<"TYPE", "PASV", command>>

Access(request, command) ==
  <<"TYPE", "PASV">> \o (IF request.at # 0 THEN <<"REST">> ELSE <<>>) \o <<command>>

\* The commands an operation sends when each of them is answered as expected.
Script(request) ==
  CASE request.name = "Noop"     -> <<"NOOP">>
    [] request.name = "Delete"   -> <<"DELE">>
    [] request.name = "Rename"   -> <<"RNFR", "RNTO">>
    [] request.name = "Size"     -> <<"TYPE", "SIZE">>
    [] request.name = "Get"      -> Access(request, "RETR")
    [] request.name = "GetRange" -> Access(request, "RETR")
    [] request.name = "Put"      -> Access(request, "STOR")
    [] request.name = "ListDir"  -> <<"CWD", "TYPE", "PASV", "LIST">>
    [] request.name = "Quit"     -> <<"QUIT">>
    [] request.name = "Connect"  -> <<"HELLO", "USER", "PASS">>

\* The first digits of a reply that FtpSendCmd takes as success.
Expected(command) ==
  CASE command = "NOOP" -> {2, 5}
    [] command \in {"USER", "REST", "RNFR"} -> {3}
    [] OTHER -> {2}

\* The reply does what the next line of the operation needs: a size that
\* sscanf finds, an address behind the parenthesis.
Usable(command, reply) ==
  /\ reply.code \in Expected(command)
  /\ command \in {"PASV", "SIZE"} => reply.cmd = command

NoReply == [code |-> 0, cmd |-> "none", call |-> 0]

Init ==
  /\ handle = "none" /\ is_connected = FALSE /\ offset = 0 /\ response = NoReply
  /\ call = [name |-> "Connect", at |-> 0]
  /\ pc = "start" /\ todo = <<>> /\ nData = FALSE /\ address = 0 /\ moved = 0
  /\ result = "none"
  /\ commands = <<>> /\ replies = <<>> /\ wire = 0
  /\ up = FALSE /\ logged_in = FALSE /\ listening = -1 /\ rest = 0
  /\ job = "none" /\ from = 0 /\ at_server = 0
  /\ calls = 0 /\ carried = {} /\ strayed = FALSE /\ cut = "no"
-------------------------------------------------------------------------------
(* Steps every operation is built from. *)

Return(value) ==
  /\ pc' = "idle" /\ result' = value /\ todo' = <<>>

\* The operation gives up.  ListDir has no way to say so: it returns what it has.
GiveUp == Return(IF call.name = "ListDir" THEN "list" ELSE "failed")

GoOn ==
  /\ todo' = Tail(todo)
  /\ pc' = "send"
  /\ UNCHANGED result

\* Connect gives up by calling Quit.
GoQuit ==
  /\ todo' = <<"QUIT">> /\ pc' = "send"
  /\ UNCHANGED result

Expecting == Head(todo)

EndSession ==
  /\ up' = FALSE /\ commands' = <<>> /\ listening' = -1 /\ rest' = 0 /\ job' = "none"

Session == <<up, commands, listening, rest, job>>

\* close(handle); the number is kept.
CloseControl ==
  /\ handle' = "closed" /\ is_connected' = FALSE
  /\ replies' = <<>> /\ logged_in' = FALSE
  /\ EndSession
  /\ Return(IF call.name = "Quit" THEN "ok" ELSE "failed")

\* What an operation does when the awaited command was answered as expected.
Accepted(reply) ==
  /\ address' = IF Expecting = "PASV" THEN reply.call ELSE address
  /\ is_connected' = (is_connected \/ Expecting = "PASS")
  /\ IF Len(todo) = 1 THEN Return("ok") ELSE GoOn

\* What the properties must not allow: any answer but a refusal is taken for a
\* login.
NotRefused(last) == last.code # 5

\* The response buffer Connect looks at when USER did not get a 3xx.
Welcome(last) == last.code = 2

\* ... and when it was not, or was not answered at all; last is what the
\* response buffer holds.  FtpAccess returns 1 when REST is refused, with the
\* data handle never set.
Refused(last) ==
  \/ /\ Expecting = "CWD"
     /\ GoOn
     /\ UNCHANGED is_connected
  \/ /\ Expecting = "REST"
     /\ pc' = "undefined"
     /\ UNCHANGED <<todo, result, is_connected>>
  \/ /\ Expecting = "USER" /\ Welcome(last)
     /\ is_connected' = TRUE
     /\ Return("ok")
  \/ /\ Expecting \in {"USER", "PASS"}
     /\ Expecting = "USER" => ~Welcome(last)
     /\ GoQuit
     /\ UNCHANGED is_connected
  \/ /\ Expecting \notin {"CWD", "REST", "USER", "PASS", "QUIT", "HELLO"}
     /\ GiveUp
     /\ UNCHANGED is_connected
-------------------------------------------------------------------------------
(* Connect: the server speaks first. *)

Connect ==
  /\ pc = "start"
  /\ \/ /\ handle' = "open"
        /\ \/ /\ up' = TRUE
              /\ \E code \in {2, 4} : replies' = <<[code |-> code, cmd |-> "HELLO", call |-> 0]>>
           \/ up' = FALSE /\ replies' = <<>>
        /\ pc' = "reply" /\ todo' = Script(call)
        /\ UNCHANGED result
     \/ /\ Return("failed")
        /\ UNCHANGED <<handle, up, replies>>
  /\ UNCHANGED <<is_connected, offset, response, call, nData, address, moved, commands, wire,
                 logged_in, listening, rest, job, from, at_server, history>>

\* A new operation.  After a Connect that failed the caller only quits.
Call(request) ==
  /\ pc = "idle" /\ calls < MaxCalls
  /\ call.name = "Connect" /\ result = "failed" => request.name = "Quit"
  /\ call' = request
  /\ offset' = CASE request.name \in {"Get", "GetRange", "Put"} -> request.at
                 [] request.name = "ListDir" -> 0
                 [] OTHER -> offset
  /\ calls' = calls + 1 /\ carried' = {} /\ cut' = "no"
  /\ moved' = 0
  /\ \/ /\ request.name = "Quit" /\ handle = "none"
        /\ Return("failed")
     \/ /\ request.name = "Quit" => handle # "none"
        /\ pc' = "send" /\ todo' = Script(request) /\ result' = "none"
     \/ /\ request.name \in {"Get", "Put"}   (* fopen fails *)
        /\ Return("failed")
  /\ UNCHANGED <<handle, is_connected, response, nData, address, commands, replies, wire,
                 server, strayed>>

\* FtpSendCmd up to its ReadResponse.  The send succeeds while the server's
\* end is closed, too; nobody reads the command then.
Send ==
  /\ pc = "send" /\ Expecting \notin Transfers
  /\ handle = "open"
  /\ commands' = IF up THEN Append(commands, [cmd |-> Expecting, call |-> calls, at |-> offset,
                                              data |-> 0])
                       ELSE commands
  /\ pc' = "reply"
  /\ UNCHANGED <<handle, is_connected, offset, response, call, todo, nData, address, moved,
                 result, replies, wire, server, history>>

\* FtpSendCmd without a handle, or with one the system does not know any more.
SendFails ==
  /\ pc = "send" /\ Expecting \notin Transfers
  /\ handle # "open" \/ ~up
  /\ \/ /\ Expecting # "QUIT"
        /\ Refused(response)
        /\ UNCHANGED <<handle, Session, logged_in, replies>>
     \/ /\ Expecting = "QUIT"
        /\ CloseControl
  /\ UNCHANGED <<offset, response, call, nData, address, moved, wire, from, at_server, history>>

\* ReadResponse behind FtpSendCmd, or behind the connect of Connect.
ReadReply ==
  /\ pc = "reply" /\ replies # <<>>
  /\ LET reply == Head(replies)
     IN /\ response' = reply
        /\ \/ /\ Expecting = "QUIT"
              /\ CloseControl
              /\ UNCHANGED address
           \/ /\ Expecting # "QUIT" /\ Usable(Expecting, reply)
              /\ Accepted(reply)
              /\ replies' = Tail(replies)
              /\ UNCHANGED <<handle, Session, logged_in>>
           \/ /\ Expecting = "HELLO" /\ ~Usable(Expecting, reply)
              /\ handle' = "none" /\ replies' = <<>>
              /\ EndSession
              /\ Return("failed")
              /\ UNCHANGED <<is_connected, address, logged_in>>
           \/ /\ ~Usable(Expecting, reply)
              /\ Refused(reply)
              /\ replies' = Tail(replies)
              /\ UNCHANGED <<handle, Session, logged_in, address>>
  /\ UNCHANGED <<offset, call, nData, moved, wire, from, at_server, history>>

\* What the properties must not allow: the end of the stream is not noticed.
ReadOnAtEnd ==
  /\ pc = "reply" /\ replies = <<>> /\ ~up
  /\ UNCHANGED vars

\* ReadResponse at the end of the stream: the buffer keeps the last reply.
ReadNothing ==
  /\ pc = "reply" /\ replies = <<>> /\ ~up
  /\ \/ /\ Expecting = "QUIT"
        /\ CloseControl
     \/ /\ Expecting = "HELLO"
        /\ handle' = "none"
        /\ Return("failed")
        /\ UNCHANGED <<is_connected, Session, logged_in, replies>>
     \/ /\ Refused(response)
        /\ UNCHANGED <<handle, Session, logged_in, replies>>
  /\ UNCHANGED <<offset, response, call, nData, address, moved, wire, from, at_server, history>>
-------------------------------------------------------------------------------
(* FtpOpenPasv from the socket on, the data loops, FtpClose. *)

\* The server listens at the address it gave last only.
Reachable == up /\ address = listening

\* The socket cannot be made, or the command cannot be sent.
DataSocketFails ==
  /\ pc = "send" /\ Expecting \in Transfers
  /\ GiveUp
  /\ UNCHANGED <<handle, is_connected, offset, response, call, nData, address, moved,
                 commands, replies, wire, server, history>>

\* The command is sent and then the data connection made, or not: then the
\* operation ends without waiting for the reply.
OpenData(connected) ==
  /\ pc = "send" /\ Expecting \in Transfers /\ handle = "open"
  /\ connected => Reachable
  /\ commands' = IF up THEN Append(commands, [cmd |-> Expecting, call |-> calls, at |-> offset,
                                              data |-> IF connected THEN address ELSE 0])
                       ELSE commands
  /\ nData' = connected
  /\ IF connected THEN pc' = "preliminary" /\ UNCHANGED <<todo, result>> ELSE GiveUp
  /\ strayed' = (strayed \/ ~connected)
  /\ UNCHANGED <<handle, is_connected, offset, response, call, address, moved, replies, wire,
                 server, calls, carried, cut>>

\* ReadResponse: a reply, or the end of the stream, which leaves the buffer alone.
TakeReply ==
  /\ replies # <<>> \/ ~up
  /\ response' = IF replies = <<>> THEN response ELSE Head(replies)
  /\ replies' = IF replies = <<>> THEN replies ELSE Tail(replies)

Got(code) == replies # <<>> /\ response'.code = code

\* What the properties must not allow: the data socket stays open when the
\* transfer is refused.
ReadPreliminaryAndKeep ==
  /\ pc = "preliminary" /\ TakeReply
  /\ IF Got(1)
     THEN pc' = "data" /\ UNCHANGED <<todo, result>>
     ELSE GiveUp
  /\ UNCHANGED <<handle, is_connected, offset, call, nData, address, moved, commands, wire,
                 server, history>>

\* ReadResponse("1"): the transfer begins, or the data connection is closed.
ReadPreliminary ==
  /\ pc = "preliminary" /\ TakeReply
  /\ \/ /\ Got(1)
        /\ pc' = "data"
        /\ UNCHANGED <<todo, result, nData>>
     \/ /\ ~Got(1)
        /\ nData' = FALSE
        /\ GiveUp
  /\ UNCHANGED <<handle, is_connected, offset, call, address, moved, commands, wire, server,
                 history>>

Reading == Expecting \in {"RETR", "LIST"}

\* A piece is read and passed on.  The loops go on when the piece was only
\* partly stored, and end when nothing of it was; GetRange, which wants one
\* piece, ends when it has read another.
ReadPiece ==
  /\ pc = "data" /\ Reading /\ wire > 0
  /\ wire' = wire - 1 /\ moved' = moved + 1
  /\ \/ /\ pc' = IF call.name = "GetRange" /\ moved > 0 THEN "close" ELSE "data"
        /\ UNCHANGED cut
     \/ /\ call.name = "Get"
        /\ cut' = "disk"
        /\ pc' \in {"data", "close"}
  /\ UNCHANGED <<handle, is_connected, offset, response, call, todo, nData, address, result,
                 commands, replies, server, calls, carried, strayed>>

\* recv returns 0 when the server has closed its end, or -1, which FtpRead
\* makes 0.  A server that is still at earlier commands leaves it open.
ReadEnd ==
  /\ pc = "data" /\ Reading
  /\ \/ /\ wire = 0 /\ job = "none" /\ commands = <<>>
        /\ UNCHANGED cut
     \/ cut' = "reset"
  /\ wire' = 0 /\ pc' = "close"
  /\ UNCHANGED <<handle, is_connected, offset, response, call, todo, nData, address, moved,
                 result, commands, replies, server, calls, carried, strayed>>

\* The send succeeds also while the server is still at earlier commands.
WritePiece ==
  /\ pc = "data" /\ Expecting = "STOR"
  /\ job = "STOR" \/ commands # <<>>
  /\ moved < Length - call.at
  /\ wire' = wire + 1 /\ moved' = moved + 1
  /\ UNCHANGED <<handle, is_connected, offset, response, call, pc, todo, nData, address, result,
                 commands, replies, server, history>>

\* The file is at its end, or fread or send fails.
WriteEnd ==
  /\ pc = "data" /\ Expecting = "STOR"
  /\ \/ /\ moved = Length - call.at
        /\ UNCHANGED cut
     \/ /\ job # "STOR" /\ commands = <<>>
        /\ UNCHANGED cut
     \/ /\ moved < Length - call.at
        /\ cut' = "disk"
  /\ pc' = "close"
  /\ UNCHANGED <<handle, is_connected, offset, response, call, todo, nData, address, moved,
                 result, commands, replies, wire, server, calls, carried, strayed>>

\* FtpClose up to its ReadResponse.
CloseData ==
  /\ pc = "close"
  /\ nData' = FALSE /\ pc' = "final"
  /\ wire' = IF job = "STOR" THEN wire ELSE 0
  /\ UNCHANGED <<handle, is_connected, offset, response, call, todo, address, moved, result,
                 commands, replies, server, history>>

\* What the properties must not allow: a result nobody asks for is not read.
ReadFinalIfWanted ==
  /\ pc = "final"
  /\ \/ /\ call.name \in {"GetRange", "ListDir"} /\ (replies # <<>> \/ ~up)
        /\ Return(IF call.name = "GetRange" THEN "ok" ELSE "list")
        /\ UNCHANGED <<response, replies>>
     \/ /\ call.name \in {"Get", "Put"}
        /\ TakeReply
        /\ Return(IF Got(2) THEN "ok" ELSE "failed")
  /\ offset' = IF call.name = "GetRange" THEN 0 ELSE offset
  /\ UNCHANGED <<handle, is_connected, call, nData, address, moved, commands, wire, server,
                 history>>

\* ReadResponse("2") of FtpClose.  GetRange returns 1 whatever it says and
\* forgets its offset.
ReadFinal ==
  /\ pc = "final" /\ TakeReply
  /\ \/ /\ call.name = "GetRange"
        /\ Return("ok")
     \/ /\ call.name = "ListDir"
        /\ Return("list")
     \/ /\ call.name \in {"Get", "Put"}
        /\ Return(IF Got(2) THEN "ok" ELSE "failed")
  /\ offset' = IF call.name = "GetRange" THEN 0 ELSE offset
  /\ UNCHANGED <<handle, is_connected, call, nData, address, moved, commands, wire, server,
                 history>>
-------------------------------------------------------------------------------
(* The server. *)

Answers(code, command) ==
  [i \in 1..Len(code) |-> [code |-> code[i], cmd |-> command.cmd, call |-> command.call]]

\* The replies a command may get.
Codes(command) ==
  CASE command.cmd = "USER" -> {<<2>>, <<3>>, <<5>>}
    [] command.cmd = "QUIT" -> {<<2>>}
    [] command.cmd \in {"REST", "RNFR"} /\ logged_in -> {<<3>>, <<5>>}
    [] command.cmd \in Transfers /\ logged_in ->
         IF command.data = listening THEN {<<1>>, <<5>>} ELSE {<<4>>, <<5>>, <<1, 4>>}
    [] /\ command.cmd \notin {"USER", "QUIT", "REST", "RNFR"} \cup Transfers
       /\ command.cmd = "PASS" \/ logged_in -> {<<2>>, <<5>>}
    [] OTHER -> {<<5>>}

CarriedOut(command) ==
  carried' = IF command.call = calls THEN carried \cup {command.cmd} ELSE carried

\* REST holds for the command behind it only.
Serve ==
  /\ up /\ job = "none" /\ commands # <<>>
  /\ LET command == Head(commands)
     IN \E code \in Codes(command) :
          /\ commands' = Tail(commands)
          /\ replies' = replies \o Answers(code, command)
          /\ up' = (command.cmd # "QUIT")
          /\ logged_in' = (logged_in \/ (command.cmd \in {"USER", "PASS"} /\ code = <<2>>))
          /\ listening' = IF command.cmd # "PASV" THEN listening
                          ELSE IF code = <<2>> THEN command.call ELSE -1
          /\ rest' = IF command.cmd = "REST" /\ code = <<3>> THEN command.at ELSE 0
          /\ job' = IF code = <<1>> THEN command.cmd ELSE "none"
          /\ from' = IF code = <<1>> THEN rest ELSE 0
          /\ at_server' = from'
          /\ IF code \in {<<2>>, <<3>>} THEN CarriedOut(command) ELSE UNCHANGED carried
  /\ UNCHANGED <<client, wire, calls, strayed, cut>>

SendPiece ==
  /\ job \in {"RETR", "LIST"} /\ at_server < Length /\ nData
  /\ at_server' = at_server + 1 /\ wire' = wire + 1
  /\ UNCHANGED <<client, commands, replies, up, logged_in, listening, rest, job, from, history>>

StorePiece ==
  /\ job = "STOR" /\ wire > 0
  /\ at_server' = at_server + 1 /\ wire' = wire - 1
  /\ UNCHANGED <<client, commands, replies, up, logged_in, listening, rest, job, from, history>>

FinalReply(code) ==
  Append(replies, [code |-> code, cmd |-> job, call |-> calls])

\* Everything was sent, or the client has closed the data connection and
\* everything it had sent is stored.
Complete ==
  /\ \/ job \in {"RETR", "LIST"} /\ at_server = Length
     \/ job = "STOR" /\ wire = 0 /\ ~nData
  /\ replies' = FinalReply(2) /\ job' = "none"
  /\ carried' = carried \cup {job}
  /\ UNCHANGED <<client, commands, wire, up, logged_in, listening, rest, from, at_server,
                 calls, strayed, cut>>

\* The server gives the transfer up, by itself or because the client closed
\* the data connection.
Abort ==
  /\ job # "none"
  /\ replies' = FinalReply(4) /\ job' = "none"
  /\ wire' = IF job = "STOR" THEN 0 ELSE wire
  /\ UNCHANGED <<client, commands, up, logged_in, listening, rest, from, at_server, history>>

\* The server closes the control connection, with a 421 or without.
HangUp ==
  /\ up
  /\ EndSession
  /\ \E notice \in {<<>>, <<[code |-> 4, cmd |-> "none", call |-> 0]>>} :
       replies' = replies \o notice
  /\ wire' = IF job = "STOR" THEN 0 ELSE wire
  /\ UNCHANGED <<client, logged_in, from, at_server, history>>
-------------------------------------------------------------------------------
Client ==
  \/ Connect
  \/ Send
  \/ SendFails
  \/ ReadReply
  \/ ReadNothing
  \/ DataSocketFails
  \/ \E connected \in {TRUE, FALSE} : OpenData(connected)
  \/ ReadPreliminary
  \/ ReadPiece
  \/ ReadEnd
  \/ WritePiece
  \/ WriteEnd
  \/ CloseData
  \/ ReadFinal

Answer ==
  \/ Serve
  \/ SendPiece
  \/ StorePiece
  \/ Complete
  \/ Abort

Next ==
  \/ Client
  \/ \E request \in Requests : Call(request)
  \/ Answer
  \/ HangUp

Spec == Init /\ [][Next]_vars

\* A server that answers, or hangs up, and a client whose thread runs on.
FairSpec == Spec /\ WF_vars(Client) /\ WF_vars(Answer)
-------------------------------------------------------------------------------
Commands == {"HELLO", "USER", "PASS", "QUIT", "NOOP", "DELE", "RNFR", "RNTO", "CWD", "TYPE",
             "SIZE", "PASV", "REST"} \cup Transfers

Reply == [code : 0..5, cmd : Commands \cup {"none"}, call : 0..MaxCalls]

\* The values of the variables, and that a data connection is open exactly
\* while an operation transfers (ftphandle, FtpAccess, FtpClose).
TypeOK ==
  /\ handle \in {"none", "open", "closed"}
  /\ is_connected \in BOOLEAN
  /\ offset \in 0..Length
  /\ response \in Reply
  /\ call \in [name : Names \cup {"Connect"}, at : 0..Length]
  /\ pc \in {"start", "idle", "send", "reply", "preliminary", "data", "close", "final", "undefined"}
  /\ todo \in Seq(Commands) /\ (pc \in {"start", "idle"}) = (todo = <<>>)
  /\ nData = (pc \in {"preliminary", "data", "close"})
  /\ address \in 0..MaxCalls
  /\ moved \in 0..Length
  /\ result \in {"none", "ok", "failed", "list"}
  /\ commands \in Seq([cmd : Commands, call : 0..MaxCalls, at : 0..Length, data : 0..MaxCalls])
  /\ replies \in Seq(Reply)
  /\ wire \in 0..Length
  /\ up \in BOOLEAN /\ logged_in \in BOOLEAN /\ listening \in -1..MaxCalls /\ rest \in 0..Length
  /\ job \in Transfers \cup {"none"}
  /\ from \in 0..Length /\ at_server \in from..Length
  /\ calls \in 0..MaxCalls /\ carried \subseteq Commands
  /\ strayed \in BOOLEAN /\ cut \in {"no", "disk", "reset"}

Returned == pc = "idle" /\ result = "ok"

\* An operation that returns 1 has been carried out by the server, command for
\* command: no reply to another command was taken for one of its own (FtpSendCmd,
\* ReadResponse), unless a data connection failed before and left its reply
\* unread.  GetRange does not wait for the end of the transfer.
SuccessIsReal ==
  Returned /\ call.name \in Names \ {"Noop", "Quit"} /\ ~strayed =>
    \A i \in 1..Len(Script(call)) :
      Script(call)[i] \in carried \/ (call.name = "GetRange" /\ Script(call)[i] = "RETR")

\* A transfer that returns 1 has moved the whole file from its offset on, and the
\* reply that says so is its own (FtpXfer, FtpClose): unless the local file or the
\* data connection failed on the way, which the data loops do not report.  Even a
\* client that reads the replies to earlier commands does not take another
\* transfer's end for that of its own.
WholeFileMoved ==
  Returned /\ call.name \in {"Get", "Put"} /\ cut = "no" =>
    /\ response.call = calls /\ response.cmd \in Transfers
    /\ from = call.at
    /\ at_server = Length
    /\ moved = Length - call.at

\* The client takes itself for connected when the server has accepted the login,
\* or when the server was silent to USER and the greeting, a 2xx, is still in the
\* response buffer (Connect, LastResponse).
ConnectedExplained ==
  [][~is_connected /\ is_connected' => logged_in' \/ response'.cmd = "HELLO"]_vars

\* Every operation returns, if the server answers or hangs up; except that
\* nothing is known of one that goes on after its REST was refused.
EveryCallReturns == pc # "idle" ~> pc \in {"idle", "undefined"}
===============================================================================
