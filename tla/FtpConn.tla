------------------------------- MODULE FtpConn -------------------------------
(***************************************************************************)
(* One pooled control connection (goftp/persistent_connection.go) through  *)
(* the operations its successive borrowers run on it (transfer.go,         *)
(* file_system.go), against an FTP server and a concurrent Client.Close.   *)
(*                                                                         *)
(* FTP answers carry no identifier: a reply is taken for the answer to     *)
(* whatever was asked last. A connection that goes back to the pool with a *)
(* reply still owed gives it to the next borrower. The broken flag is the  *)
(* code's way to keep such a connection from being used.                   *)
(*                                                                         *)
(* An operation is the record of its stages: each stage with the one that  *)
(* follows it when it succeeds. The stages are the commands, "dial", "get" *)
(* and "copy", and three that read a reply: "end" that of the transfer,    *)
(* "aborted" the one after the answer to ABOR, "again" a third one. A      *)
(* stage that fails ends the operation: the deferred returnConn makes the  *)
(* connection idle.                                                        *)
(*                                                                         *)
(* Definitions named after another one with a suffix are seeded bugs, used *)
(* to see that the properties below notice them.                           *)
(***************************************************************************)
EXTENDS Integers, Sequences

CONSTANTS
  Ops,              \* the operations run on the connection
  ActiveTransfers,  \* the values of config.ActiveTransfers
  AcceptMayFail,    \* whether an active data connection may not come in time
  ClientCloses      \* whether Client.Close may be called

ASSUME ConnAssumption ==
  /\ Ops \subseteq {"download", "upload", "resume", "list", "size", "rename"}
  /\ Ops # {}
  /\ AcceptMayFail \in BOOLEAN
  /\ ActiveTransfers \subseteq BOOLEAN /\ ActiveTransfers # {}
  /\ ClientCloses \in BOOLEAN

VARIABLES
  active,            \* config.ActiveTransfers of the Client
  resumes,           \* whether the program also resumes transfers with Retrieve
  op,                \* the operation in progress, or the last one
  offset,            \* its offset: 0, or 1 for any positive one
  pc,                \* its stage
  waiting,           \* the command of the stage is sent, its reply is not read
  broken,            \* pconn.broken
  currentType,       \* pconn.currentType
  epsvNotSupported,  \* pconn.epsvNotSupported
  data,              \* the client's data socket: only "open" is pconn.dataConn
  closed,            \* Client.Close has closed the connection
  sent,              \* the command on its way to the server
  replies,           \* the replies on their way to the client
  serverType,        \* the server's representation type
  marker,            \* the server's restart marker
  transfer           \* the command of the server's transfer in progress

clientVars == <<active, resumes, op, offset, currentType, epsvNotSupported>>
serverVars == <<serverType, marker, transfer>>
wireVars   == <<sent, replies>>
vars == <<active, resumes, op, offset, pc, waiting, broken, currentType, epsvNotSupported,
          data, closed, sent, replies, serverType, marker, transfer>>
-----------------------------------------------------------------------------
(* reply_codes.go                                                           *)
OkCode ==
  [type |-> 200, epsv |-> 229, pasv |-> 227, port |-> 200, rest |-> 350,
   retr |-> 150, stor |-> 150, mlsd |-> 150, size |-> 213, rnfr |-> 350, rnto |-> 250]
Commands == (DOMAIN OkCode) \cup {"abor"}
TransferCommands == {"retr", "stor", "mlsd"}
Refused == 550
Closing == 226    \* replyClosingDataConnection: the transfer is complete
NoTransfer == 225 \* replyDataConnectionOpen: nothing to abort
Aborted == 426    \* replyConnectionClosed
Local == 451      \* replyLocalError
Unavailable == 450
Unknown == 500    \* replyCommandSyntaxError: the server has no ABOR
Codes == {OkCode[c] : c \in DOMAIN OkCode}
           \cup {Refused, Closing, NoTransfer, Aborted, Local, Unavailable, Unknown}

Replies == [to : Commands, code : Codes]
Reply(c, code) == [to |-> c, code |-> code]

Waits == {"end", "aborted", "again"}
Stages == Commands \cup Waits \cup {"idle", "data", "dial", "get", "copy"}

(* TransferRangeDownload and TransferRangeUpload.                           *)
RangeTransferRestFirst(off, cmd) ==
  [type |-> IF off > 0 THEN "rest" ELSE "data", rest |-> "data", data |-> cmd,
   start |-> "get", get |-> "copy", copy |-> "abor", abor |-> "aborted"]
RangeTransfer(off, cmd) ==
  [type |-> "data", data |-> IF off > 0 THEN "rest" ELSE cmd, rest |-> cmd,
   start |-> "get", get |-> "copy", copy |-> "abor", abor |-> "aborted"]

(* transferFromOffset, for Retrieve (Store differs in the direction only).  *)
FromOffset(off) ==
  [type |-> IF off > 0 THEN "rest" ELSE "data", rest |-> "data", data |-> "retr",
   start |-> "get", get |-> "copy", copy |-> "end"]

(* dataStringList                                                           *)
StringList == [data |-> "mlsd", start |-> "get", get |-> "copy", copy |-> "end"]

Size == [type |-> "size", size |-> "idle"]
Rename == [rnfr |-> "rnto", rnto |-> "idle"]

Script(o, off) ==
  CASE o = "download" -> RangeTransfer(off, "retr")
    [] o = "upload" -> RangeTransfer(off, "stor")
    [] o = "resume" -> FromOffset(off)
    [] o = "list" -> StringList
    [] o = "size" -> Size
    [] o = "rename" -> Rename

First(o) == CASE o = "list" -> "data" [] o = "rename" -> "rnfr" [] OTHER -> "type"

(* "data" is the whole of prepareDataConn, which starts with one of three   *)
(* commands; "start" is whichever command starts the transfer.              *)
DataCommand ==
  IF active THEN "port" ELSE IF epsvNotSupported THEN "pasv" ELSE "epsv"
After(s) ==
  LET next == Script(op, offset)[s] IN IF next = "data" THEN DataCommand ELSE next

Init ==
  /\ active \in ActiveTransfers /\ resumes \in BOOLEAN
  /\ op = CHOOSE o \in Ops : TRUE
  /\ offset = 0
  /\ pc = "idle" /\ waiting = FALSE
  /\ broken = FALSE /\ currentType = "A" /\ epsvNotSupported \in BOOLEAN
  /\ data = "none" /\ closed = FALSE
  /\ sent = "none" /\ replies = <<>>
  /\ serverType = "A" /\ marker = 0 /\ transfer = "none"

Return == pc' = "idle" /\ waiting' = FALSE
-----------------------------------------------------------------------------
(* The client *)

(* getIdleConn hands the connection out, which it does not when broken.     *)
Begin(o, off) ==
  /\ pc = "idle" /\ ~broken
  /\ o = "resume" => resumes
  /\ op' = o /\ offset' = off
  /\ pc' = IF First(o) = "data" THEN DataCommand ELSE First(o)
  /\ data' = "none"
  /\ UNCHANGED <<active, resumes, waiting, broken, currentType, epsvNotSupported, closed,
                 wireVars, serverVars>>

(* A broken connection is dropped, and replaced by a new one.               *)
Replace ==
  /\ pc = "idle" /\ broken /\ ~closed
  /\ broken' = FALSE /\ currentType' = "A" /\ epsvNotSupported' \in BOOLEAN
  /\ data' = "none"
  /\ sent' = "none" /\ replies' = <<>>
  /\ serverType' = "A" /\ marker' = 0 /\ transfer' = "none"
  /\ UNCHANGED <<active, resumes, op, offset, pc, waiting, closed>>

(* setType: "type already set to I"                                         *)
SkipType ==
  /\ pc = "type" /\ ~waiting /\ currentType = "I"
  /\ pc' = After("type")
  /\ UNCHANGED <<clientVars, waiting, broken, data, closed, wireVars, serverVars>>

(* The writing half of sendCommand.                                         *)
Send ==
  /\ pc \in Commands /\ ~waiting /\ ~closed
  /\ pc = "type" => currentType # "I"
  /\ sent' = pc
  /\ waiting' = TRUE
  /\ UNCHANGED <<clientVars, pc, broken, data, closed, replies, serverVars>>

(* Its write fails, or its reply, or the one readResponse waits for, does   *)
(* not come in time or at all. An upload ignores that its ABOR has failed   *)
(* and reads on, on a connection that is broken whatever it then reads.     *)
BreaksOnlyOnWrite == pc \notin Waits
Breaks == TRUE
IOError ==
  /\ (pc \in Commands /\ (pc = "type" => currentType # "I")) \/ pc \in Waits
  /\ broken' = Breaks
  /\ currentType' = IF pc = "type" THEN "I" ELSE currentType
  /\ Return
  /\ UNCHANGED <<active, resumes, op, offset, epsvNotSupported, data, closed, wireVars, serverVars>>

Take == replies # <<>> /\ replies' = Tail(replies) /\ UNCHANGED sent
Code == Head(replies).code

(* setType records the type when the server has refused it.                 *)
TypeReply ==
  /\ pc = "type" /\ waiting /\ Take
  /\ currentType' = IF Code # OkCode.type THEN "I" ELSE currentType
  /\ pc' = IF Code = OkCode.type THEN After("type") ELSE "idle"
  /\ waiting' = FALSE
  /\ UNCHANGED <<active, resumes, op, offset, epsvNotSupported, broken, data, closed, serverVars>>

(* requestPassive: EPSV unless it has been refused before, then PASV. An    *)
(* EPSV answer that does not parse leads to PASV too.                       *)
EpsvReply ==
  /\ pc = "epsv" /\ waiting /\ Take
  /\ pc' \in IF Code = OkCode.epsv THEN {"dial", "pasv"} ELSE {"pasv"}
  /\ epsvNotSupported' = (Code # OkCode.epsv)
  /\ waiting' = FALSE
  /\ UNCHANGED <<active, resumes, op, offset, currentType, broken, data, closed, serverVars>>

PasvReply ==
  /\ pc = "pasv" /\ waiting /\ Take
  /\ pc' \in IF Code = OkCode.pasv THEN {"dial", "idle"} ELSE {"idle"}
  /\ waiting' = FALSE
  /\ UNCHANGED <<clientVars, broken, data, closed, serverVars>>

(* net.DialTimeout of prepareDataConn; only the getter sets pconn.dataConn. *)
Dial ==
  /\ pc = "dial"
  /\ \/ data' = "dialed" /\ pc' = After("data")
     \/ data' = "none" /\ pc' = "idle"
  /\ UNCHANGED <<clientVars, waiting, broken, closed, wireVars, serverVars>>

(* listenActive cannot listen, and sends nothing.                           *)
ListenFails ==
  /\ pc = "port" /\ ~waiting
  /\ pc' = "idle"
  /\ UNCHANGED <<clientVars, waiting, broken, data, closed, wireVars, serverVars>>

(* It listens, and has sent PORT or EPRT.                                   *)
PortReply ==
  /\ pc = "port" /\ waiting /\ Take
  /\ data' = "listening"
  /\ pc' = IF Code = OkCode.port THEN After("data") ELSE "idle"
  /\ waiting' = FALSE
  /\ UNCHANGED <<clientVars, broken, closed, serverVars>>

(* sendCommandExpected: REST, RNFR and RNTO, and SIZE, whose other codes    *)
(* are no error but end the operation as well.                              *)
SimpleReply ==
  /\ pc \in {"rest", "rnfr", "rnto", "size"} /\ waiting /\ Take
  /\ pc' = IF Code = OkCode[pc] THEN After(pc) ELSE "idle"
  /\ waiting' = FALSE
  /\ UNCHANGED <<clientVars, broken, data, closed, serverVars>>

(* RETR, STOR or MLSD: a preliminary reply, or a refusal.                   *)
StartReply ==
  /\ pc \in TransferCommands /\ waiting /\ Take
  /\ pc' = IF Code \div 100 = 1 THEN After("start") ELSE "idle"
  /\ waiting' = FALSE
  /\ UNCHANGED <<clientVars, broken, data, closed, serverVars>>

(* The getter of prepareDataConn: passive, it registers the socket that     *)
(* was dialed; active, it accepts the server's connection, if one comes.    *)
(* It is after the 150, and its error does not set broken.                  *)
Get ==
  /\ pc = "get"
  /\ \/ data' = "open" /\ pc' = After("get")
     \/ active /\ AcceptMayFail /\ data' = "closed" /\ pc' = "idle"
  /\ UNCHANGED <<clientVars, waiting, broken, closed, wireVars, serverVars>>

(* The copy of the data, then dc.Close, whose error (the socket is closed   *)
(* already) skips the ABOR of the range functions, and with it the replies  *)
(* that an upload reads because of it.                                      *)
Copy ==
  /\ pc = "copy"
  /\ pc' = IF data = "open" THEN After("copy") ELSE "end"
  /\ data' = "closed"
  /\ UNCHANGED <<clientVars, waiting, broken, closed, wireVars, serverVars>>

(* The copy fails. dataStringList reads the reply all the same; the others  *)
(* give the connection up.                                                  *)
CopyBreaksNot == FALSE
CopyBreaks == op # "list"
CopyFail ==
  /\ pc = "copy"
  /\ data' = "closed"
  /\ broken' = CopyBreaks
  /\ pc' = IF op = "list" THEN "end" ELSE "idle"
  /\ UNCHANGED <<clientVars, waiting, closed, wireVars, serverVars>>

(* The answer to ABOR, which is in fact the end of the transfer. A download *)
(* goes on to the next reply only after 226 or 451; an upload always does.  *)
KeepsAfterAbort(code) == op = "upload" \/ code \in {Closing, Local}
AborReply ==
  /\ pc = "abor" /\ waiting /\ Take
  /\ broken' = ~KeepsAfterAbort(Code)
  /\ pc' = IF KeepsAfterAbort(Code) THEN After("abor") ELSE "idle"
  /\ waiting' = FALSE
  /\ UNCHANGED <<clientVars, data, closed, serverVars>>

(* readResponse for what is still owed. Whatever it says, the connection is *)
(* returned; an upload that has sent ABOR reads one more after a 426.       *)
ReadsThirdNever(code) == FALSE
ReadsThird(code) == op = "upload" /\ pc = "aborted" /\ code = Aborted
EndReply ==
  /\ pc \in Waits /\ Take
  /\ pc' = IF ReadsThird(Code) THEN "again" ELSE "idle"
  /\ UNCHANGED <<clientVars, waiting, broken, data, closed, serverVars>>

(* persistentConn.close by removeConn of Client.Close.                      *)
Close ==
  /\ ClientCloses /\ ~closed
  /\ closed' = TRUE
  /\ data' = IF data = "open" THEN "closed" ELSE data
  /\ UNCHANGED <<clientVars, pc, waiting, broken, wireVars, serverVars>>

(* Nothing is left: the connection is broken and the client closed.         *)
Gone == pc = "idle" /\ broken /\ closed /\ UNCHANGED vars
-----------------------------------------------------------------------------
(* The server: one reply for each command, and for each transfer it accepts *)
(* a second one at its end. A restart marker lasts until the next transfer  *)
(* command.                                                                 *)

Answer(c, codes) ==
  /\ sent = c /\ sent' = "none"
  /\ \E code \in codes : replies' = Append(replies, Reply(c, code))

ServeType ==
  /\ \/ Answer("type", {OkCode.type}) /\ serverType' = "I"
     \/ Answer("type", {Refused}) /\ UNCHANGED serverType
  /\ UNCHANGED <<clientVars, pc, waiting, broken, data, closed, marker, transfer>>

ServeRest ==
  /\ \/ Answer("rest", {OkCode.rest})
        /\ marker' = IF op = "upload" THEN 0 ELSE offset
     \/ Answer("rest", {Refused}) /\ UNCHANGED marker
  /\ UNCHANGED <<clientVars, pc, waiting, broken, data, closed, serverType, transfer>>

ServeOther ==
  /\ sent \in {"epsv", "pasv", "port", "rnfr", "rnto", "size"}
  /\ Answer(sent, {OkCode[sent], Refused})
  /\ UNCHANGED <<clientVars, pc, waiting, broken, data, closed, serverVars>>

ServeStart ==
  /\ sent \in TransferCommands
  /\ \/ Answer(sent, {OkCode[sent]}) /\ transfer' = sent
     \/ Answer(sent, {Refused}) /\ UNCHANGED transfer
  /\ marker' = 0
  /\ UNCHANGED <<clientVars, pc, waiting, broken, data, closed, serverType>>

(* The transfer ends, well or not.                                          *)
ServerEnds ==
  /\ transfer # "none"
  /\ \E code \in {Closing, Aborted, Local} :
       replies' = Append(replies, Reply(transfer, code))
  /\ transfer' = "none"
  /\ UNCHANGED <<clientVars, pc, waiting, broken, data, closed, sent, serverType, marker>>

(* ABOR with no transfer, or one that has just ended.                       *)
ServeAbor ==
  /\ transfer = "none"
  /\ Answer("abor", {Closing, NoTransfer, Unknown})
  /\ UNCHANGED <<clientVars, pc, waiting, broken, data, closed, serverVars>>

(* ABOR of a transfer in progress: 426 for the transfer and 226 for ABOR;   *)
(* or the sequence 226, 426, 450 that TransferRangeUpload is written for.   *)
ServeAborInProgress ==
  /\ transfer # "none" /\ sent = "abor"
  /\ \/ replies' = replies \o <<Reply(transfer, Aborted), Reply("abor", Closing)>>
     \/ transfer = "stor"
        /\ replies' = replies \o <<Reply("abor", Closing), Reply(transfer, Aborted),
                                   Reply(transfer, Unavailable)>>
  /\ sent' = "none" /\ transfer' = "none"
  /\ UNCHANGED <<clientVars, pc, waiting, broken, data, closed, serverType, marker>>
-----------------------------------------------------------------------------
Offsets(o) == IF o \in {"download", "upload", "resume"} THEN {0, 1} ELSE {0}

Client ==
  \/ \E o \in Ops : \E off \in Offsets(o) : Begin(o, off)
  \/ Replace \/ SkipType \/ Send \/ IOError \/ TypeReply \/ EpsvReply \/ PasvReply
  \/ Dial \/ ListenFails \/ PortReply \/ SimpleReply \/ StartReply \/ Get \/ Copy \/ CopyFail
  \/ AborReply \/ EndReply

Server ==
  \/ ServeType \/ ServeRest \/ ServeOther \/ ServeStart \/ ServerEnds
  \/ ServeAbor \/ ServeAborInProgress

Next == Client \/ Server \/ Close \/ Gone

Spec == Init /\ [][Next]_vars
-----------------------------------------------------------------------------
TypeOK ==
  /\ active \in ActiveTransfers /\ resumes \in BOOLEAN
  /\ op \in Ops /\ offset \in {0, 1}
  /\ pc \in Stages \ {"data"} /\ waiting \in BOOLEAN
  /\ broken \in BOOLEAN /\ currentType \in {"A", "I"} /\ epsvNotSupported \in BOOLEAN
  /\ data \in {"none", "dialed", "listening", "open", "closed"}
  /\ closed \in BOOLEAN
  /\ sent \in Commands \cup {"none"} /\ replies \in Seq(Replies)
  /\ serverType \in {"A", "I"} /\ marker \in {0, 1}
  /\ transfer \in TransferCommands \cup {"none"}

(* The pool hands a connection to its next borrower with nothing owed on    *)
(* it: no command unanswered, no reply unread, no transfer unfinished. A    *)
(* connection for which this fails has been marked broken.                  *)
PoolSync ==
  pc = "idle" /\ ~broken =>
     sent = "none" /\ replies = <<>> /\ transfer = "none"

(* The reply a command reads is the server's answer to that command, except *)
(* for ABOR, which comes while a transfer is still to be answered: a        *)
(* borrower never takes a stale reply for its own.                          *)
NoStaleAnswer ==
  pc \in Commands \ {"abor"} /\ waiting /\ replies # <<>> => Head(replies).to = pc

(* The server starts each transfer where the operation asked: REST is sent  *)
(* only for a positive offset (0 for an upload), so a transfer that sends   *)
(* none must not find the marker of an earlier operation.                   *)
StartsAtOffset ==
  sent \in {"retr", "stor"} /\ ~closed =>
     marker = IF op = "upload" THEN 0 ELSE offset

(* So it is as long as the program keeps to the range transfers, as the    *)
(* command line does: they send REST last, after the data connection is    *)
(* there, and nothing can fail between it and the command that uses it.    *)
RangeStartsAtOffset == ~resumes => StartsAtOffset

(* currentType "tracks the current type (e.g. ASCII/Image) of connection".  *)
TypeTracked == pc = "idle" /\ ~broken /\ currentType = "I" => serverType = "I"
=============================================================================
