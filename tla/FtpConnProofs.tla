---------------------------- MODULE FtpConnProofs ----------------------------
(***************************************************************************)
(* In passive mode (or when the server's active connections always come),  *)
(* and whatever operations run on it, a control connection is never        *)
(* returned to the pool unbroken with a reply owed, and no command takes a *)
(* reply that answers another one.                                         *)
(*                                                                         *)
(* The inductive invariant counts, stage by stage, what the server still   *)
(* owes: a command on its way, the replies on their way back, and the end  *)
(* of the transfer in progress.                                            *)
(***************************************************************************)
EXTENDS FtpConn, SequenceTheorems, TLAPS

Count(x) == IF x = "none" THEN 0 ELSE 1
Owed == Count(sent) + Len(replies) + Count(transfer)

DataStages == {"epsv", "pasv", "port", "dial"}
Transfers == {"download", "upload", "resume", "list"}

(* The operations that go through each stage.                               *)
Fits(o, s) ==
  /\ s = "type" => o \notin {"list", "rename"}
  /\ s \in DataStages \cup {"get", "copy", "end"} => o \in Transfers
  /\ s = "rest" => o \in Transfers \ {"list"}
  /\ s = "retr" => o \in {"download", "resume"}
  /\ s \in {"stor", "again"} => o = "upload"
  /\ s = "mlsd" => o = "list"
  /\ s \in {"abor", "aborted"} => o \in {"download", "upload"}
  /\ s = "size" => o = "size"
  /\ s \in {"rnfr", "rnto"} => o = "rename"

StageOK ==
  /\ Fits(op, pc)
  /\ waiting => pc \in Commands
  /\ broken => pc = "idle"

(* Stages at which nothing is owed.                                         *)
QuietStage ==
  \/ pc \in {"idle", "dial"}
  \/ pc \in Commands \ {"abor"} /\ ~waiting

(* A command awaits its answer; a transfer it started may be over already.  *)
AwaitsAnswer ==
  /\ sent \in {"none", pc} /\ transfer \in {"none", pc}
  /\ pc \notin TransferCommands => transfer = "none"
  /\ \A i \in 1..Len(replies) : replies[i].to = pc
  /\ sent = pc => Owed = 1
  /\ sent = "none" =>
       /\ Len(replies) > 0
       /\ Owed = IF pc \in TransferCommands /\ Code \div 100 = 1 THEN 2 ELSE 1

(* The end of the transfer is owed, nothing else.                           *)
AwaitsEnd == sent = "none" /\ Owed = 1

(* ABOR is sent: its answer and the end of the transfer are owed, or the    *)
(* three replies an upload knows of are there.                              *)
AwaitsAbort ==
  /\ sent \in {"none", "abor"}
  /\ transfer # "none" => sent = "abor"
  /\ transfer = "stor" => op = "upload"
  /\ \/ Owed = 2
     \/ Len(replies) = 3 /\ Owed = 3 /\ op = "upload" /\ replies[2].code = Aborted

Owing ==
  ~broken =>
    /\ QuietStage => Owed = 0
    /\ pc \in Commands \ {"abor"} /\ waiting => AwaitsAnswer
    /\ pc \in {"get", "copy", "end"} => AwaitsEnd
    /\ pc = "abor" /\ ~waiting => AwaitsEnd
    /\ pc = "abor" /\ waiting => AwaitsAbort
    /\ pc = "aborted" =>
         \/ sent \in {"none", "abor"} /\ Owed = 1
         \/ sent = "none" /\ transfer = "none" /\ Len(replies) = 2
              /\ op = "upload" /\ Code = Aborted
    /\ pc = "again" => sent = "none" /\ transfer = "none" /\ Len(replies) <= 1
    /\ transfer = "stor" => op = "upload"

ConnInv == TypeOK /\ StageOK /\ Owing

(* A connection whose data connections come once they are promised: any in  *)
(* passive mode, where they are dialled before the transfer starts.         *)
DataComes == ~(active /\ AcceptMayFail)
-----------------------------------------------------------------------------
(* The scripts and the wire.                                                *)

AllOps == {"download", "upload", "resume", "list", "size", "rename"}

(* An operation is one of the six, and its offset zero or not.              *)
LEMMA KnownOps == ASSUME TypeOK PROVE op \in AllOps /\ offset \in {0, 1}
  BY ConnAssumption DEF TypeOK, AllOps

(* The command that prepares the data connection.                           *)
LEMMA DataCommandIs == DataCommand \in {"epsv", "pasv", "port"}
  BY DEF DataCommand

(* What follows TYPE in the functions that send it, ...                     *)
LEMMA AfterType ==
  ASSUME TypeOK, op \notin {"list", "rename"}
  PROVE  After("type") \in {"epsv", "pasv", "port", "rest", "size"} /\ Fits(op, After("type"))
  <1>1. After("type") = CASE op = "size" -> "size"
                          [] op = "resume" /\ offset > 0 -> "rest"
                          [] OTHER -> DataCommand
    BY KnownOps DEF AllOps, After, Script, RangeTransfer, FromOffset, Size
  <1> QED BY <1>1, KnownOps, DataCommandIs DEF AllOps, Fits, DataStages, Transfers

(* ... what follows the data connection, ...                                *)
LEMMA AfterData ==
  ASSUME TypeOK, op \in Transfers
  PROVE  After("data") \in {"rest", "retr", "stor", "mlsd"} /\ Fits(op, After("data"))
  <1>1. After("data") = CASE op = "list" -> "mlsd"
                          [] op = "resume" -> "retr"
                          [] op = "download" -> (IF offset > 0 THEN "rest" ELSE "retr")
                          [] op = "upload" -> (IF offset > 0 THEN "rest" ELSE "stor")
    BY KnownOps DEF AllOps, After, Script, RangeTransfer, FromOffset, StringList, Transfers
  <1> QED BY <1>1, KnownOps DEF AllOps, Fits, DataStages, Transfers

(* ... and REST, ...                                                        *)
LEMMA AfterRest ==
  ASSUME TypeOK, op \in Transfers \ {"list"}
  PROVE  After("rest") \in {"epsv", "pasv", "port", "retr", "stor"} /\ Fits(op, After("rest"))
  <1>1. After("rest") = CASE op = "resume" -> DataCommand
                          [] op = "download" -> "retr"
                          [] op = "upload" -> "stor"
    BY KnownOps DEF AllOps, After, Script, RangeTransfer, FromOffset, Transfers
  <1> QED BY <1>1, KnownOps, DataCommandIs DEF AllOps, Fits, DataStages, Transfers

(* ... how a transfer goes on once it is accepted, ...                      *)
LEMMA AfterTransfer ==
  ASSUME TypeOK, op \in Transfers
  PROVE  /\ After("start") = "get" /\ After("get") = "copy"
         /\ After("copy") = IF op \in {"download", "upload"} THEN "abor" ELSE "end"
         /\ op \in {"download", "upload"} => After("abor") = "aborted"
  BY KnownOps DEF AllOps, After, Script, RangeTransfer, FromOffset, StringList, Transfers

(* ... and what follows the commands of Size and Rename.                    *)
LEMMA AfterSimple ==
  /\ op = "size" => After("size") = "idle"
  /\ op = "rename" => After("rnfr") = "rnto" /\ After("rnto") = "idle"
  BY DEF After, Script, Size, Rename

(* Reading a reply takes the first of those on their way.                   *)
LEMMA TakeFacts ==
  ASSUME TypeOK, Take
  PROVE  /\ Len(replies) \in Nat \ {0} /\ Len(replies') = Len(replies) - 1
         /\ \A i \in 1..Len(replies') : replies'[i] = replies[i + 1]
         /\ replies' \in Seq(Replies) /\ sent' = sent
         /\ Head(replies) = replies[1] /\ Head(replies) \in Replies
  <1>1. replies \in Seq(Replies) /\ replies # <<>> /\ replies' = Tail(replies) /\ sent' = sent
    BY DEF TypeOK, Take
  <1>2. /\ Head(replies) \in Replies /\ Tail(replies) \in Seq(Replies)
        /\ Len(Tail(replies)) = Len(replies) - 1
        /\ \A i \in 1..Len(Tail(replies)) : Tail(replies)[i] = replies[i + 1]
    BY <1>1, HeadTailProperties
  <1>3. Len(replies) \in Nat \ {0}
    BY <1>1, EmptySeq
  <1> QED BY <1>1, <1>2, <1>3

(* Sending a reply puts it behind them.                                     *)
LEMMA PutFacts ==
  ASSUME TypeOK, NEW r \in Replies, replies' = Append(replies, r)
  PROVE  /\ Len(replies) \in Nat /\ Len(replies') = Len(replies) + 1
         /\ \A i \in 1..Len(replies) : replies'[i] = replies[i]
         /\ replies'[Len(replies')] = r
         /\ replies' \in Seq(Replies)
  <1>1. replies \in Seq(Replies) /\ Len(replies) \in Nat
    BY LenProperties DEF TypeOK
  <1>2. /\ replies' \in Seq(Replies) /\ Len(replies') = Len(replies) + 1
        /\ \A i \in 1..Len(replies) : replies'[i] = replies[i]
        /\ replies'[Len(replies) + 1] = r
    BY <1>1, AppendProperties
  <1> QED BY <1>1, <1>2

(* The head of a sequence is its first element.                             *)
LEMMA FirstReply ==
  ASSUME NEW q \in Seq(Replies), Len(q) # 0
  PROVE  Head(q) = q[1]
  <1>1. q # <<>>
    OBVIOUS
  <1> QED BY <1>1, HeadTailProperties

(* An answer uses up its command, and names it.                             *)
LEMMA AnswerFacts ==
  ASSUME TypeOK, NEW c \in Commands, NEW S \in SUBSET Codes, Answer(c, S)
  PROVE  \E r \in Replies :
           /\ r.to = c /\ r.code \in S /\ replies' = Append(replies, r)
           /\ sent = c /\ sent' = "none"
  BY DEF Answer, Reply, Replies

(* The codes and the commands, one by one.                                  *)
LEMMA CodesAre ==
  Codes = {200, 229, 227, 350, 150, 213, 250, 550, 226, 225, 426, 451, 450, 500}
  BY DEF Codes, OkCode, Refused, Closing, NoTransfer, Aborted, Local, Unavailable, Unknown

LEMMA CommandsAre ==
  Commands = {"type", "epsv", "pasv", "port", "rest", "retr", "stor", "mlsd",
              "size", "rnfr", "rnto", "abor"}
  BY DEF Commands, OkCode

(* A command or a transfer counts for one answer.                           *)
LEMMA CountType == \A x : Count(x) \in {0, 1} /\ (Count(x) = 0 <=> x = "none")
  BY DEF Count
-----------------------------------------------------------------------------
(* Types and stages, whatever is owed.                                      *)

(* As much is owed when the wire and the server stay as they are.           *)
LEMMA SameOwed ==
  ASSUME UNCHANGED <<wireVars, serverVars>>
  PROVE  /\ Owed' = Owed /\ sent' = sent /\ replies' = replies /\ transfer' = transfer
         /\ serverType' = serverType /\ marker' = marker
  BY DEF Owed, Count, wireVars, serverVars

(* Such a step keeps the types if it leads to a stage.                      *)
LEMMA PcTypes ==
  ASSUME TypeOK, pc' \in (Commands \cup Waits \cup {"idle", "dial", "get", "copy"}),
         UNCHANGED <<clientVars, waiting, closed>>, UNCHANGED <<wireVars, serverVars>>,
         broken' \in BOOLEAN, data' \in {"none", "dialed", "listening", "open", "closed"}
  PROVE  TypeOK'
  <1>1. /\ resumes' = resumes /\ active' = active /\ op' = op /\ offset' = offset
        /\ currentType' = currentType /\ epsvNotSupported' = epsvNotSupported
        /\ waiting' = waiting /\ closed' = closed
    BY DEF clientVars
  <1>2. pc' \in Stages \ {"data"}
    BY CommandsAre DEF Stages, Waits
  <1> QED BY <1>1, <1>2, SameOwed DEF TypeOK

(* A step that reads a reply keeps the types, ...                           *)
LEMMA ReplyTypes ==
  ASSUME TypeOK, Take, pc' \in Stages \ {"data"}, waiting' \in BOOLEAN,
         broken' \in BOOLEAN, currentType' \in {"A", "I"}, epsvNotSupported' \in BOOLEAN,
         data' \in {"none", "dialed", "listening", "open", "closed"},
         UNCHANGED <<active, resumes, op, offset, closed>>, UNCHANGED serverVars
  PROVE  TypeOK'
  <1>1. replies' \in Seq(Replies) /\ sent' = sent
    BY TakeFacts
  <1> QED BY <1>1 DEF TypeOK, serverVars

(* A step of the server keeps the types if its variables do, ...            *)
LEMMA ServerTypes ==
  ASSUME TypeOK, UNCHANGED <<clientVars, pc, waiting, broken, data, closed>>,
         sent' \in Commands \cup {"none"}, replies' \in Seq(Replies),
         serverType' \in {"A", "I"}, marker' \in {0, 1},
         transfer' \in TransferCommands \cup {"none"}
  PROVE  TypeOK'
  <1>1. /\ active' = active /\ resumes' = resumes /\ op' = op /\ offset' = offset /\ currentType' = currentType
        /\ epsvNotSupported' = epsvNotSupported /\ pc' = pc /\ waiting' = waiting
        /\ broken' = broken /\ data' = data /\ closed' = closed
    BY DEF clientVars
  <1> QED BY <1>1 DEF TypeOK

(* ... and leaves the client where it is.                                   *)
LEMMA SameStage ==
  ASSUME StageOK, UNCHANGED <<clientVars, pc, waiting, broken, data, closed>>
  PROVE  StageOK'
  BY DEF StageOK, Fits, DataStages, clientVars

(* Whatever the server does, the connection keeps its types and stays at a  *)
(* stage of its operation.                                                  *)
LEMMA ServerTypeStep ==
  ASSUME TypeOK, StageOK, Server PROVE TypeOK' /\ StageOK'
  <1>1. UNCHANGED <<clientVars, pc, waiting, broken, data, closed>> /\ sent' \in {"none", sent}
    BY DEF Server, ServeType, ServeRest, ServeOther, ServeStart, ServerEnds, ServeAbor,
       ServeAborInProgress, Answer, serverVars
  <1>2. replies' \in Seq(Replies)
    <2>1. replies \in Seq(Replies)
      BY DEF TypeOK
    <2>2. ASSUME NEW c \in Commands, NEW k \in Codes, replies' = Append(replies, Reply(c, k))
          PROVE  replies' \in Seq(Replies)
      <3>1. Reply(c, k) \in Replies
        BY DEF Reply, Replies
      <3> QED BY <2>1, <2>2, <3>1, AppendProperties
    <2>3. /\ OkCode.type \in Codes /\ OkCode.rest \in Codes
          /\ \A c \in DOMAIN OkCode : OkCode[c] \in Codes
          /\ {Refused, Closing, NoTransfer, Aborted, Local, Unavailable, Unknown} \subseteq Codes
      BY DEF Codes, OkCode
    <2>4. CASE ServeType
      <3>1. "type" \in Commands
        BY CommandsAre
      <3> QED BY <2>2, <2>3, <2>4, <3>1 DEF ServeType, Answer
    <2>5. CASE ServeRest
      <3>1. "rest" \in Commands
        BY CommandsAre
      <3> QED BY <2>2, <2>3, <2>5, <3>1 DEF ServeRest, Answer
    <2>6. CASE ServeOther
      <3>1. sent \in DOMAIN OkCode /\ sent \in Commands
        BY <2>6 DEF ServeOther, OkCode, Commands
      <3> QED BY <2>2, <2>3, <2>6, <3>1 DEF ServeOther, Answer
    <2>7. CASE ServeStart
      <3>1. sent \in DOMAIN OkCode /\ sent \in Commands
        BY <2>7 DEF ServeStart, OkCode, Commands, TransferCommands
      <3> QED BY <2>2, <2>3, <2>7, <3>1 DEF ServeStart, Answer
    <2>8. CASE ServerEnds
      <3>1. transfer \in Commands
        BY <2>8, CommandsAre DEF ServerEnds, TypeOK, TransferCommands
      <3> QED BY <2>2, <2>3, <2>8, <3>1 DEF ServerEnds
    <2>9. CASE ServeAbor
      <3>1. "abor" \in Commands
        BY CommandsAre
      <3> QED BY <2>2, <2>3, <2>9, <3>1 DEF ServeAbor, Answer
    <2>10. CASE ServeAborInProgress
      <3>1. transfer \in Commands /\ "abor" \in Commands
        BY <2>10, CommandsAre DEF ServeAborInProgress, TypeOK, TransferCommands
      <3>2. \A c \in {transfer, "abor"}, k \in Codes : Reply(c, k) \in Replies
        BY <3>1 DEF Reply, Replies
      <3>3. PICK q \in Seq(Replies) : replies' = replies \o q
        <4>1. <<Reply(transfer, Aborted), Reply("abor", Closing)>> \in Seq(Replies)
          BY <2>3, <3>2
        <4>2. <<Reply("abor", Closing), Reply(transfer, Aborted), Reply(transfer, Unavailable)>>
                \in Seq(Replies)
          BY <2>3, <3>2
        <4> QED BY <2>10, <4>1, <4>2 DEF ServeAborInProgress
      <3> QED BY <2>1, <3>3, ConcatProperties
    <2> QED BY <2>4, <2>5, <2>6, <2>7, <2>8, <2>9, <2>10 DEF Server
  <1>3. serverType' \in {"A", "I"} /\ marker' \in {0, 1}
    <2>1. serverType \in {"A", "I"} /\ marker \in {0, 1} /\ offset \in {0, 1}
      BY DEF TypeOK
    <2> QED BY <2>1 DEF Server, ServeType, ServeRest, ServeOther, ServeStart, ServerEnds,
            ServeAbor, ServeAborInProgress, serverVars
  <1>4. sent' \in Commands \cup {"none"} /\ transfer' \in TransferCommands \cup {"none"}
    <2>1. transfer' \in {transfer, "none"} \/ (transfer' = sent /\ sent \in TransferCommands)
      BY DEF Server, ServeType, ServeRest, ServeOther, ServeStart, ServerEnds, ServeAbor,
         ServeAborInProgress, serverVars
    <2> QED BY <1>1, <2>1 DEF TypeOK
  <1> QED BY <1>1, <1>2, <1>3, <1>4, ServerTypes, SameStage

(* The same of the client, however its commands are answered, and whether   *)
(* or not an active data connection comes.                                  *)
LEMMA ClientTypeStep ==
  ASSUME TypeOK, StageOK, Client PROVE TypeOK' /\ StageOK'
  <1>1. /\ Fits(op, pc) /\ (waiting => pc \in Commands) /\ (broken => pc = "idle")
        /\ \A o \in Ops : Fits(o, "idle")
    BY DEF StageOK, Fits, DataStages
  <1>2. ASSUME NEW o \in Ops, NEW off \in Offsets(o), Begin(o, off) PROVE TypeOK' /\ StageOK'
    <2>1. /\ pc = "idle" /\ ~broken /\ op' = o /\ offset' = off /\ data' = "none"
          /\ pc' = IF First(o) = "data" THEN DataCommand ELSE First(o)
          /\ UNCHANGED <<active, resumes, waiting, broken, currentType, epsvNotSupported, closed>>
          /\ UNCHANGED <<wireVars, serverVars>>
      BY <1>2 DEF Begin
    <2>2. /\ pc' \in {"type", "rnfr", "epsv", "pasv", "port"}
          /\ pc' = "type" => o \notin {"list", "rename"}
          /\ pc' = "rnfr" => o = "rename"
          /\ pc' \in {"epsv", "pasv", "port"} => o = "list"
      BY <2>1, DataCommandIs DEF First
    <2>3. ~waiting
      BY <1>1, <2>1, CommandsAre
    <2>4. StageOK'
      BY <2>1, <2>2, <2>3 DEF StageOK, Fits, DataStages, Transfers
    <2> QED BY <2>1, <2>2, <2>3, <2>4, SameOwed, CommandsAre DEF TypeOK, Stages, Offsets
  <1>3. CASE Replace
    <2>1. /\ pc = "idle" /\ UNCHANGED <<active, resumes, op, offset, pc, waiting, closed>>
          /\ broken' = FALSE /\ currentType' = "A" /\ epsvNotSupported' \in BOOLEAN
          /\ data' = "none" /\ sent' = "none" /\ replies' = <<>>
          /\ serverType' = "A" /\ marker' = 0 /\ transfer' = "none"
      BY <1>3 DEF Replace
    <2>2. StageOK'
      BY <1>1, <2>1 DEF StageOK, Fits
    <2> QED BY <2>1, <2>2, EmptySeq DEF TypeOK
  <1>4. CASE Send
    <2>1. /\ pc \in Commands /\ ~waiting /\ sent' = pc /\ waiting' = TRUE
          /\ UNCHANGED <<clientVars, pc, broken, data, closed, replies, serverVars>>
      BY <1>4 DEF Send
    <2>2. StageOK'
      BY <1>1, <2>1 DEF StageOK, Fits, clientVars
    <2> QED BY <2>1, <2>2 DEF TypeOK, clientVars, serverVars
  <1>5. CASE IOError
    <2>1. /\ broken' = TRUE /\ pc' = "idle" /\ waiting' = FALSE
          /\ currentType' \in {currentType, "I"}
          /\ UNCHANGED <<active, resumes, op, offset, epsvNotSupported, data, closed>>
          /\ UNCHANGED <<wireVars, serverVars>>
      BY <1>5 DEF IOError, Breaks, Return
    <2>2. StageOK'
      BY <2>1 DEF StageOK, Fits, DataStages
    <2> QED BY <2>1, <2>2, SameOwed DEF TypeOK, Stages
  <1>6. CASE SkipType \/ Dial \/ ListenFails \/ Get \/ Copy \/ CopyFail
    <2>1. /\ UNCHANGED <<clientVars, waiting, closed>> /\ UNCHANGED <<wireVars, serverVars>>
          /\ ~waiting /\ ~broken
      BY <1>1, <1>6, CommandsAre DEF SkipType, Dial, ListenFails, Get, Copy, CopyFail
    <2>2. /\ pc' \in Commands \cup {"idle", "get", "copy", "end"} /\ Fits(op, pc')
          /\ broken' => pc' = "idle"
      <3>1. Fits(op, "idle")
        BY DEF Fits, DataStages
      <3>2. CASE SkipType
        <4>1. After("type") \in Commands /\ Fits(op, After("type"))
          BY <1>1, <3>2, AfterType, CommandsAre DEF SkipType, Fits
        <4> QED BY <2>1, <3>2, <4>1 DEF SkipType
      <3>3. CASE Dial
        <4>1. After("data") \in Commands /\ Fits(op, After("data"))
          BY <1>1, <3>3, AfterData, CommandsAre DEF Dial, Fits, DataStages
        <4> QED BY <2>1, <3>1, <3>3, <4>1 DEF Dial
      <3>9. CASE ListenFails
        BY <2>1, <3>1, <3>9 DEF ListenFails
      <3>4. CASE Get
        <4>1. After("get") = "copy" /\ op \in Transfers
          BY <1>1, <3>4, AfterTransfer DEF Get, Fits
        <4>2. Fits(op, "copy")
          BY <4>1 DEF Fits, DataStages
        <4> QED BY <2>1, <3>1, <3>4, <4>1, <4>2 DEF Get
      <3>5. CASE Copy \/ CopyFail
        <4>1. /\ op \in Transfers
              /\ After("copy") = IF op \in {"download", "upload"} THEN "abor" ELSE "end"
          BY <1>1, <3>5, AfterTransfer DEF Copy, CopyFail, Fits
        <4>2. Fits(op, "end") /\ (op \in {"download", "upload"} => Fits(op, "abor"))
          BY <4>1 DEF Fits, DataStages
        <4>3. CASE Copy
          BY <2>1, <4>1, <4>2, <4>3, CommandsAre DEF Copy
        <4>4. CASE CopyFail
          <5>1. broken' => op # "list"
            BY <4>4 DEF CopyFail, CopyBreaks
          <5> QED BY <3>1, <4>2, <4>4, <5>1 DEF CopyFail
        <4> QED BY <3>5, <4>3, <4>4
      <3> QED BY <1>6, <3>2, <3>3, <3>4, <3>5, <3>9
    <2>3. StageOK'
      BY <2>1, <2>2 DEF StageOK, Fits, clientVars
    <2>4. broken' \in BOOLEAN /\ data' \in {"none", "dialed", "listening", "open", "closed"}
      <3>1. broken \in BOOLEAN /\ data \in {"none", "dialed", "listening", "open", "closed"}
        BY DEF TypeOK
      <3> QED BY <1>6, <3>1 DEF SkipType, Dial, ListenFails, Get, Copy, CopyFail, CopyBreaks
    <2> QED BY <2>1, <2>2, <2>3, <2>4, PcTypes DEF Waits
  <1>7. CASE TypeReply \/ EpsvReply \/ PasvReply \/ PortReply \/ SimpleReply
             \/ StartReply \/ AborReply \/ EndReply
    <2>1. /\ Take /\ ~broken /\ ~waiting' /\ UNCHANGED serverVars
          /\ UNCHANGED <<active, resumes, op, offset, closed>>
      BY <1>1, <1>7, CommandsAre DEF TypeReply, EpsvReply, PasvReply, PortReply, SimpleReply,
         StartReply, AborReply, EndReply, clientVars, Waits
    <2>2. /\ pc' \in Commands \cup {"idle", "dial", "get"} \cup Waits /\ Fits(op, pc')
          /\ broken' => pc' = "idle"
      <3>1. Fits(op, "idle")
        BY DEF Fits, DataStages
      <3>2. CASE TypeReply
        <4>1. After("type") \in Commands /\ Fits(op, After("type"))
          BY <1>1, <3>2, AfterType, CommandsAre DEF TypeReply, Fits
        <4> QED BY <2>1, <3>1, <3>2, <4>1 DEF TypeReply
      <3>3. CASE EpsvReply \/ PasvReply
        <4>1. op \in Transfers
          BY <1>1, <3>3 DEF EpsvReply, PasvReply, Fits, DataStages
        <4>2. pc' \in {"pasv", "dial", "idle"} /\ broken' = broken
          BY <3>3 DEF EpsvReply, PasvReply
        <4>3. Fits(op, "pasv") /\ Fits(op, "dial")
          BY <4>1 DEF Fits, DataStages
        <4> QED BY <2>1, <3>1, <4>2, <4>3, CommandsAre
      <3>4. CASE PortReply
        <4>1. After("data") \in Commands /\ Fits(op, After("data"))
          BY <1>1, <3>4, AfterData, CommandsAre DEF PortReply, Fits, DataStages
        <4> QED BY <2>1, <3>1, <3>4, <4>1 DEF PortReply
      <3>5. CASE SimpleReply
        <4>1. After(pc) \in Commands \cup {"idle"} /\ Fits(op, After(pc))
          <5>1. CASE pc = "rest"
            BY <1>1, <5>1, AfterRest, CommandsAre DEF Fits
          <5>2. CASE pc = "size"
            BY <1>1, <3>1, <5>2, AfterSimple DEF Fits
          <5>3. CASE pc \in {"rnfr", "rnto"}
            <6>1. op = "rename" /\ Fits("rename", "rnto")
              BY <1>1, <5>3 DEF Fits, DataStages
            <6> QED BY <3>1, <5>3, <6>1, AfterSimple, CommandsAre
          <5> QED BY <3>5, <5>1, <5>2, <5>3 DEF SimpleReply
        <4> QED BY <2>1, <3>1, <3>5, <4>1 DEF SimpleReply
      <3>6. CASE StartReply
        <4>1. op \in Transfers
          BY <1>1, <3>6 DEF StartReply, Fits, TransferCommands, Transfers
        <4>2. After("start") = "get" /\ Fits(op, "get")
          BY <4>1, AfterTransfer DEF Fits, DataStages
        <4> QED BY <2>1, <3>1, <3>6, <4>2 DEF StartReply
      <3>7. CASE AborReply
        <4>1. op \in {"download", "upload"}
          BY <1>1, <3>7 DEF AborReply, Fits
        <4>2. After("abor") = "aborted" /\ Fits(op, "aborted")
          BY <4>1, AfterTransfer DEF Fits, DataStages, Transfers
        <4> QED BY <2>1, <3>1, <3>7, <4>2 DEF AborReply, Waits
      <3>8. CASE EndReply
        <4>1. pc' \in {"again", "idle"} /\ broken' = broken
          BY <3>8 DEF EndReply
        <4>2. pc' = "again" => op = "upload"
          BY <3>8 DEF EndReply, ReadsThird
        <4> QED BY <2>1, <3>1, <4>1, <4>2 DEF Fits, DataStages, Waits
      <3> QED BY <1>7, <3>2, <3>3, <3>4, <3>5, <3>6, <3>7, <3>8
    <2>3. StageOK'
      BY <2>1, <2>2 DEF StageOK, Fits
    <2>4. /\ broken' \in BOOLEAN /\ currentType' \in {"A", "I"} /\ epsvNotSupported' \in BOOLEAN
          /\ data' \in {"none", "dialed", "listening", "open", "closed"}
          /\ waiting' \in BOOLEAN
      <3>1. /\ broken \in BOOLEAN /\ currentType \in {"A", "I"} /\ epsvNotSupported \in BOOLEAN
            /\ data \in {"none", "dialed", "listening", "open", "closed"}
            /\ waiting \in BOOLEAN
        BY DEF TypeOK
      <3>2. CASE EndReply
        BY <3>1, <3>2 DEF EndReply, clientVars
      <3>3. CASE TypeReply \/ EpsvReply
        BY <3>1, <3>3 DEF TypeReply, EpsvReply
      <3>4. CASE PasvReply \/ PortReply \/ SimpleReply \/ StartReply
        BY <3>1, <3>4 DEF PasvReply, PortReply, SimpleReply, StartReply, clientVars
      <3>5. CASE AborReply
        BY <3>1, <3>5 DEF AborReply, KeepsAfterAbort, clientVars
      <3> QED BY <1>7, <3>2, <3>3, <3>4, <3>5
    <2>5. pc' \in Stages \ {"data"}
      BY <2>2, CommandsAre DEF Stages, Waits
    <2> QED BY <2>1, <2>3, <2>4, <2>5, ReplyTypes
  <1> QED BY <1>2, <1>3, <1>4, <1>5, <1>6, <1>7 DEF Client

(* ... and of every step.                                                   *)
LEMMA TypesKept ==
  ASSUME TypeOK, StageOK, [Next]_vars PROVE TypeOK' /\ StageOK'
  <1>1. CASE Close
    <2>1. /\ closed' = TRUE /\ data' \in {"closed", data}
          /\ UNCHANGED <<clientVars, pc, waiting, broken>>
          /\ UNCHANGED <<wireVars, serverVars>>
      BY <1>1 DEF Close
    <2>2. TypeOK'
      BY <2>1, SameOwed DEF TypeOK, clientVars
    <2>3. StageOK'
      BY <2>1 DEF StageOK, Fits, clientVars
    <2> QED BY <2>2, <2>3
  <1>2. CASE Gone \/ UNCHANGED vars
    <2>1. /\ UNCHANGED <<clientVars, pc, waiting, broken, data, closed>>
          /\ UNCHANGED <<wireVars, serverVars>>
      BY <1>2 DEF Gone, vars, clientVars, wireVars, serverVars
    <2>2. TypeOK'
      BY <2>1, SameOwed DEF TypeOK, clientVars
    <2> QED BY <2>1, <2>2, SameStage
  <1> QED BY <1>1, <1>2, ClientTypeStep, ServerTypeStep DEF Next
-----------------------------------------------------------------------------
(* The client's steps that leave the wire alone.                            *)

(* An operation begins on a connection that owes nothing, ...               *)
LEMMA BeginInv ==
  ASSUME ConnInv, NEW o \in Ops, NEW off \in Offsets(o), Begin(o, off)
  PROVE  ConnInv'
  <1> DEFINE s == IF First(o) = "data" THEN DataCommand ELSE First(o)
  <1>1. /\ pc = "idle" /\ ~broken /\ op' = o /\ offset' = off /\ pc' = s
        /\ data' = "none"
        /\ UNCHANGED <<active, resumes, waiting, broken, currentType, epsvNotSupported, closed>>
        /\ UNCHANGED <<wireVars, serverVars>>
    BY DEF Begin
  <1>2. /\ s \in {"type", "rnfr", "epsv", "pasv", "port"}
        /\ s = "type" => o \notin {"list", "rename"}
        /\ s = "rnfr" => o = "rename"
        /\ s \in {"epsv", "pasv", "port"} => o = "list"
    BY DataCommandIs DEF First
  <1> HIDE DEF s
  <1>3. ~waiting
    BY <1>1, CommandsAre DEF ConnInv, StageOK
  <1>4. TypeOK' /\ StageOK'
    BY TypesKept DEF ConnInv, Next, Client
  <1>6. Owed = 0 /\ transfer = "none"
    <2>1. Owed = 0
      BY <1>1 DEF ConnInv, Owing, QuietStage
    <2>2. Len(replies) \in Nat
      BY LenProperties DEF ConnInv, TypeOK
    <2> QED BY <2>1, <2>2, CountType DEF Owed
  <1>7. Owing'
    BY <1>1, <1>2, <1>3, <1>6, SameOwed, CommandsAre DEF Owing, QuietStage
  <1> QED BY <1>4, <1>7 DEF ConnInv

(* ... TYPE is left out when the client takes it for set, ...               *)
LEMMA SkipTypeInv == ASSUME ConnInv, SkipType PROVE ConnInv'
  <1>1. /\ pc = "type" /\ ~waiting /\ pc' = After("type")
        /\ UNCHANGED <<clientVars, waiting, broken, data, closed>>
        /\ UNCHANGED <<wireVars, serverVars>>
    BY DEF SkipType
  <1>2. pc' \in {"epsv", "pasv", "port", "rest", "size"} /\ Fits(op, pc')
    BY <1>1, AfterType DEF ConnInv, StageOK, Fits
  <1>3. TypeOK' /\ StageOK'
    BY TypesKept DEF ConnInv, Next, Client
  <1>5. Owing'
    BY <1>1, <1>2, SameOwed, CommandsAre DEF ConnInv, Owing, QuietStage, clientVars
  <1> QED BY <1>3, <1>5 DEF ConnInv

(* ... the data connection is dialled or refused, ...                       *)
LEMMA DialInv == ASSUME ConnInv, Dial PROVE ConnInv'
  <1>1. /\ pc = "dial"
        /\ \/ data' = "dialed" /\ pc' = After("data")
           \/ data' = "none" /\ pc' = "idle"
        /\ UNCHANGED <<clientVars, waiting, broken, closed>>
        /\ UNCHANGED <<wireVars, serverVars>>
    BY DEF Dial
  <1>2. ~waiting /\ ~broken /\ op \in Transfers
    BY <1>1, CommandsAre DEF ConnInv, StageOK, Fits, DataStages
  <1>3. pc' \in {"rest", "retr", "stor", "mlsd", "idle"} /\ Fits(op, pc')
    BY <1>1, <1>2, AfterData DEF ConnInv, Fits, DataStages
  <1>4. TypeOK' /\ StageOK'
    BY TypesKept DEF ConnInv, Next, Client
  <1>6. Owing'
    BY <1>1, <1>2, <1>3, SameOwed, CommandsAre DEF ConnInv, Owing, QuietStage, clientVars
  <1> QED BY <1>4, <1>6 DEF ConnInv

(* ... the listener of active mode cannot be had, ...                       *)
LEMMA ListenFailsInv == ASSUME ConnInv, ListenFails PROVE ConnInv'
  <1>1. /\ pc = "port" /\ ~waiting /\ pc' = "idle"
        /\ UNCHANGED <<clientVars, waiting, broken, data, closed>>
        /\ UNCHANGED <<wireVars, serverVars>>
    BY DEF ListenFails
  <1>2. TypeOK' /\ StageOK'
    BY TypesKept DEF ConnInv, Next, Client
  <1>3. Owing'
    BY <1>1, SameOwed, CommandsAre DEF ConnInv, Owing, QuietStage, clientVars
  <1> QED BY <1>2, <1>3 DEF ConnInv

(* ... the getter returns it, if DataComes says so, ...                     *)
LEMMA GetInv ==
  ASSUME DataComes, ConnInv, Get PROVE ConnInv'
  <1>1. /\ pc = "get" /\ data' = "open" /\ pc' = After("get")
        /\ UNCHANGED <<clientVars, waiting, broken, closed>>
        /\ UNCHANGED <<wireVars, serverVars>>
    BY DEF Get, DataComes
  <1>2. ~waiting /\ ~broken /\ op \in Transfers
    BY <1>1, CommandsAre DEF ConnInv, StageOK, Fits, DataStages
  <1>3. pc' = "copy"
    BY <1>1, <1>2, AfterTransfer DEF ConnInv
  <1>4. TypeOK' /\ StageOK'
    BY TypesKept DEF ConnInv, Next, Client
  <1>6. Owing'
    BY <1>1, <1>2, <1>3, SameOwed, CommandsAre
    DEF ConnInv, Owing, QuietStage, AwaitsEnd, clientVars
  <1> QED BY <1>4, <1>6 DEF ConnInv

(* ... the data is copied or the copy fails, ...                            *)
LEMMA CopyInv == ASSUME ConnInv, Copy \/ CopyFail PROVE ConnInv'
  <1>1. /\ pc = "copy" /\ data' = "closed"
        /\ UNCHANGED <<clientVars, waiting, closed>>
        /\ UNCHANGED <<wireVars, serverVars>>
    BY DEF Copy, CopyFail
  <1>2. ~waiting /\ ~broken /\ op \in Transfers
    BY <1>1, CommandsAre DEF ConnInv, StageOK, Fits, DataStages
  <1>3. /\ broken' \in BOOLEAN
        /\ \/ ~broken' /\ pc' = "abor" /\ op \in {"download", "upload"}
           \/ ~broken' /\ pc' = "end"
           \/ broken' /\ pc' = "idle"
    <2>1. After("copy") = IF op \in {"download", "upload"} THEN "abor" ELSE "end"
      BY <1>2, AfterTransfer DEF ConnInv
    <2>2. CASE Copy
      <3>1. broken \in BOOLEAN /\ broken' = broken
        BY <2>2 DEF Copy, ConnInv, TypeOK
      <3>2. (pc' = "abor" /\ op \in {"download", "upload"}) \/ pc' = "end"
        BY <2>1, <2>2 DEF Copy
      <3> QED BY <1>2, <3>1, <3>2
    <2>3. CASE CopyFail
      BY <2>3 DEF CopyFail, CopyBreaks
    <2> QED BY <2>2, <2>3
  <1>4. TypeOK' /\ StageOK'
    BY TypesKept DEF ConnInv, Next, Client
  <1>6. Owing'
    BY <1>1, <1>2, <1>3, SameOwed, CommandsAre
    DEF ConnInv, Owing, QuietStage, AwaitsEnd, clientVars
  <1> QED BY <1>4, <1>6 DEF ConnInv

(* ... and a command is sent, for which an answer is owed.                  *)
LEMMA SendInv == ASSUME ConnInv, Send PROVE ConnInv'
  <1>1. /\ pc \in Commands /\ ~waiting /\ sent' = pc /\ waiting' = TRUE
        /\ UNCHANGED <<clientVars, pc, broken, data, closed, replies, serverVars>>
    BY DEF Send
  <1>2. ~broken
    BY <1>1, CommandsAre DEF ConnInv, StageOK
  <1>3. TypeOK' /\ StageOK'
    BY TypesKept DEF ConnInv, Next, Client
  <1>5. Len(replies) \in Nat
    BY LenProperties DEF ConnInv, TypeOK
  <1>6. replies' = replies /\ transfer' = transfer /\ pc' = pc /\ op' = op /\ broken' = broken
    BY <1>1 DEF clientVars, serverVars
  <1>7. CASE pc \in Commands \ {"abor"}
    <2>1. Owed = 0
      BY <1>1, <1>2, <1>7 DEF ConnInv, Owing, QuietStage
    <2>2. sent = "none" /\ transfer = "none" /\ Len(replies) = 0
      BY <2>1, <1>5, CountType DEF Owed
    <2>3. Owed' = 1 /\ sent' = pc /\ pc # "none"
      BY <2>2, <1>1, <1>5, <1>6, <1>7, CommandsAre DEF Owed, Count
    <2>4. AwaitsAnswer'
      BY <2>2, <2>3, <1>1, <1>6, <1>7, CommandsAre DEF AwaitsAnswer
    <2> QED BY <1>3, <1>1, <1>6, <1>7, <2>2, <2>4, CommandsAre
            DEF ConnInv, Owing, QuietStage
  <1>8. CASE pc = "abor"
    <2>1. AwaitsEnd
      BY <1>1, <1>2, <1>8 DEF ConnInv, Owing
    <2>2. Owed' = 2
      <3>1. Count(sent) = 0 /\ Count(sent') = 1 /\ Count(transfer) \in {0, 1}
        BY <2>1, <1>1, <1>8 DEF AwaitsEnd, Count
      <3> QED BY <2>1, <3>1, <1>5, <1>6 DEF AwaitsEnd, Owed
    <2>3. AwaitsAbort'
      BY <2>2, <1>1, <1>2, <1>6, <1>8 DEF AwaitsAbort, ConnInv, Owing
    <2> QED BY <1>3, <1>1, <1>2, <1>6, <1>8, <2>3, CommandsAre
            DEF ConnInv, Owing, QuietStage
  <1> QED BY <1>1, <1>7, <1>8

(* A broken connection is idle, and owes whatever it owes.                  *)
LEMMA IOErrorInv == ASSUME ConnInv, IOError PROVE ConnInv'
  <1>1. /\ broken' = TRUE /\ pc' = "idle" /\ waiting' = FALSE
        /\ currentType' \in {currentType, "I"}
        /\ UNCHANGED <<active, resumes, op, offset, epsvNotSupported, data, closed>>
        /\ UNCHANGED <<wireVars, serverVars>>
    BY DEF IOError, Breaks, Return
  <1>2. TypeOK' /\ StageOK'
    BY TypesKept DEF ConnInv, Next, Client
  <1> QED BY <1>1, <1>2 DEF ConnInv, Owing

(* A new connection in its place owes nothing.                              *)
LEMMA ReplaceInv == ASSUME ConnInv, Replace PROVE ConnInv'
  <1>1. /\ pc = "idle" /\ UNCHANGED <<active, resumes, op, offset, pc, waiting, closed>>
        /\ broken' = FALSE /\ currentType' = "A" /\ epsvNotSupported' \in BOOLEAN
        /\ data' = "none" /\ sent' = "none" /\ replies' = <<>>
        /\ serverType' = "A" /\ marker' = 0 /\ transfer' = "none"
    BY DEF Replace
  <1>2. TypeOK' /\ StageOK'
    BY TypesKept DEF ConnInv, Next, Client
  <1>4. Owed' = 0
    <2>1. Len(replies') = 0
      BY <1>1
    <2>2. Count(sent') = 0 /\ Count(transfer') = 0
      BY <1>1 DEF Count
    <2> QED BY <2>1, <2>2 DEF Owed
  <1>5. Owing'
    BY <1>1, <1>4, CommandsAre DEF Owing, QuietStage
  <1> QED BY <1>2, <1>5 DEF ConnInv

(* Client.Close may close its sockets at any stage.                         *)
LEMMA CloseInv == ASSUME ConnInv, Close PROVE ConnInv'
  <1>1. /\ closed' = TRUE /\ data' \in {"closed", data}
        /\ UNCHANGED <<clientVars, pc, waiting, broken>>
        /\ UNCHANGED <<wireVars, serverVars>>
    BY DEF Close
  <1>2. TypeOK' /\ StageOK'
    BY TypesKept DEF ConnInv, Next
  <1>4. Owing'
    BY <1>1, SameOwed DEF ConnInv, Owing, QuietStage, AwaitsAnswer, AwaitsEnd,
       AwaitsAbort, clientVars, Code
  <1> QED BY <1>2, <1>4 DEF ConnInv
-----------------------------------------------------------------------------
(* The client reads a reply.                                                *)

(* A reply read by a command that starts no transfer was all that was owed. *)
LEMMA TakeLast ==
  ASSUME ConnInv, Take, UNCHANGED transfer, ~broken, waiting,
         pc \in Commands \ {"abor"}, pc \notin TransferCommands
  PROVE  Owed' = 0
  <1>1. AwaitsAnswer
    BY DEF ConnInv, Owing
  <1>2. /\ Len(replies) \in Nat \ {0} /\ Len(replies') = Len(replies) - 1
        /\ sent' = sent
    BY TakeFacts DEF ConnInv
  <1>3. transfer = "none" /\ (sent = "none" \/ sent = pc) /\ pc # "none"
    BY <1>1, CommandsAre DEF AwaitsAnswer
  <1>4. sent = "none"
    BY <1>1, <1>2, <1>3 DEF AwaitsAnswer, Owed, Count
  <1>5. Owed = Len(replies) /\ Owed \in {1, 2}
    BY <1>1, <1>2, <1>3, <1>4 DEF AwaitsAnswer, Owed, Count
  <1>6. Owed = 1
    BY <1>1, <1>2, <1>4 DEF AwaitsAnswer
  <1>7. Count(sent') = 0 /\ Count(transfer') = 0
    BY <1>2, <1>3, <1>4 DEF Count
  <1>8. Len(replies) = 1
    BY <1>5, <1>6
  <1>9. Len(replies') = 0
    BY <1>2, <1>8
  <1> QED BY <1>7, <1>9 DEF Owed

(* Reading a reply leaves one less to come.                                 *)
LEMMA TakeOwed ==
  ASSUME TypeOK, Take, UNCHANGED transfer
  PROVE  /\ Owed' = Owed - 1 /\ Owed \in Nat \ {0}
         /\ Owed = 1 => sent = "none" /\ transfer = "none" /\ Len(replies) = 1
         /\ Owed = Len(replies) => sent = "none" /\ transfer = "none"
  <1>1. Len(replies) \in Nat \ {0} /\ Len(replies') = Len(replies) - 1 /\ sent' = sent
    BY TakeFacts
  <1>2. Owed' = Count(sent) + Len(replies') + Count(transfer)
    BY <1>1 DEF Owed, Count
  <1>3. /\ Count(sent) \in {0, 1} /\ Count(transfer) \in {0, 1}
        /\ Count(sent) = 0 <=> sent = "none"
        /\ Count(transfer) = 0 <=> transfer = "none"
    BY CountType
  <1>4. Owed = Count(sent) + Len(replies) + Count(transfer)
    BY DEF Owed
  <1>5. Owed' = Owed - 1 /\ Owed \in Nat \ {0}
    BY <1>1, <1>2, <1>3, <1>4
  <1>6. Owed = 1 => sent = "none" /\ transfer = "none" /\ Len(replies) = 1
    BY <1>1, <1>3, <1>4
  <1>7. Owed = Len(replies) => sent = "none" /\ transfer = "none"
    BY <1>1, <1>3, <1>4
  <1> QED BY <1>5, <1>6, <1>7

(* ... and nothing is owed after it if no transfer was started.             *)
LEMMA QuietReply ==
  ASSUME ConnInv, Take, UNCHANGED <<op, broken>>, UNCHANGED serverVars,
         waiting, ~waiting',
         pc \in Commands \ {"abor"}, pc \notin TransferCommands,
         pc' \in (Commands \ {"abor"}) \cup {"idle", "dial"}
  PROVE  Owing'
  <1>1. transfer' = transfer /\ op' = op /\ broken' = broken
    BY DEF serverVars
  <1>2. ~broken
    BY CommandsAre DEF ConnInv, StageOK
  <1>3. Owed' = 0
    BY <1>1, <1>2, TakeLast
  <1>4. transfer' = "stor" => op' = "upload"
    BY <1>1, <1>2 DEF ConnInv, Owing
  <1> QED BY <1>3, <1>4, CommandsAre DEF Owing, QuietStage

(* The steps that read a reply, each with what it leaves owed.              *)
LEMMA TypeReplyInv == ASSUME ConnInv, TypeReply PROVE ConnInv'
  <1>1. /\ pc = "type" /\ waiting /\ Take /\ ~waiting' /\ waiting' \in BOOLEAN
        /\ pc' \in {After("type"), "idle"} /\ currentType' \in {currentType, "I"}
        /\ UNCHANGED <<active, resumes, op, offset, epsvNotSupported, broken, data, closed>>
        /\ UNCHANGED serverVars
    BY DEF TypeReply
  <1>2. /\ pc' \in {"epsv", "pasv", "port", "rest", "size", "idle"} /\ Fits(op, pc')
        /\ ~broken
    <2>1. Fits(op, "idle")
      BY DEF Fits, DataStages
    <2> QED BY <2>1, <1>1, AfterType DEF ConnInv, StageOK, Fits
  <1>3. TypeOK' /\ StageOK'
    BY TypesKept DEF ConnInv, Next, Client
  <1>5. Owing'
    BY <1>1, <1>2, QuietReply, CommandsAre DEF TransferCommands
  <1> QED BY <1>3, <1>5 DEF ConnInv

LEMMA PassiveReplyInv == ASSUME ConnInv, EpsvReply \/ PasvReply PROVE ConnInv'
  <1>1. /\ pc \in {"epsv", "pasv"} /\ waiting /\ Take /\ ~waiting' /\ waiting' \in BOOLEAN
        /\ pc' \in {"pasv", "dial", "idle"} /\ epsvNotSupported' \in BOOLEAN
        /\ UNCHANGED <<active, resumes, op, offset, currentType, broken, data, closed>>
        /\ UNCHANGED serverVars
    BY DEF EpsvReply, PasvReply, ConnInv, TypeOK, clientVars
  <1>2. op \in Transfers /\ ~broken
    BY <1>1 DEF ConnInv, StageOK, Fits, DataStages
  <1>3. TypeOK' /\ StageOK'
    BY TypesKept DEF ConnInv, Next, Client
  <1>5. Owing'
    BY <1>1, <1>2, QuietReply, CommandsAre DEF TransferCommands
  <1> QED BY <1>3, <1>5 DEF ConnInv

LEMMA PortReplyInv == ASSUME ConnInv, PortReply PROVE ConnInv'
  <1>1. /\ pc = "port" /\ waiting /\ Take /\ ~waiting' /\ waiting' \in BOOLEAN
        /\ pc' \in {After("data"), "idle"} /\ data' = "listening"
        /\ UNCHANGED <<active, resumes, op, offset, currentType, epsvNotSupported, broken, closed>>
        /\ UNCHANGED serverVars
    BY DEF PortReply, clientVars
  <1>2. op \in Transfers /\ ~broken
    BY <1>1 DEF ConnInv, StageOK, Fits, DataStages
  <1>3. pc' \in {"rest", "retr", "stor", "mlsd", "idle"} /\ Fits(op, pc')
    BY <1>1, <1>2, AfterData DEF ConnInv, Fits, DataStages
  <1>4. TypeOK' /\ StageOK'
    BY TypesKept DEF ConnInv, Next, Client
  <1>6. Owing'
    BY <1>1, <1>3, QuietReply, CommandsAre DEF TransferCommands
  <1> QED BY <1>4, <1>6 DEF ConnInv

LEMMA SimpleReplyInv == ASSUME ConnInv, SimpleReply PROVE ConnInv'
  <1>1. /\ pc \in {"rest", "rnfr", "rnto", "size"}
        /\ waiting /\ Take /\ ~waiting' /\ waiting' \in BOOLEAN
        /\ pc' \in {After(pc), "idle"}
        /\ UNCHANGED <<active, resumes, op, offset, currentType, epsvNotSupported, broken, data, closed>>
        /\ UNCHANGED serverVars
    BY DEF SimpleReply, clientVars
  <1>2. Fits(op, pc) /\ ~broken
    BY <1>1 DEF ConnInv, StageOK
  <1>3. /\ pc' \in {"epsv", "pasv", "port", "retr", "stor", "rnto", "idle"}
        /\ Fits(op, pc')
    <2>1. Fits(op, "idle")
      BY DEF Fits, DataStages
    <2>2. CASE pc = "rest"
      BY <1>1, <1>2, <2>1, <2>2, AfterRest DEF ConnInv, Fits
    <2>3. CASE pc = "size"
      BY <1>1, <1>2, <2>1, <2>3, AfterSimple DEF Fits
    <2>4. CASE pc \in {"rnfr", "rnto"}
      BY <1>1, <1>2, <2>1, <2>4, AfterSimple DEF Fits, DataStages
    <2> QED BY <1>1, <2>2, <2>3, <2>4
  <1>4. TypeOK' /\ StageOK'
    BY TypesKept DEF ConnInv, Next, Client
  <1>6. Owing'
    BY <1>1, <1>3, QuietReply, CommandsAre DEF TransferCommands
  <1> QED BY <1>4, <1>6 DEF ConnInv

(* After a preliminary reply the end of the transfer is still owed.         *)
LEMMA StartReplyInv == ASSUME ConnInv, StartReply PROVE ConnInv'
  <1>1. /\ pc \in TransferCommands /\ waiting /\ Take /\ ~waiting' /\ waiting' \in BOOLEAN
        /\ pc' = IF Code \div 100 = 1 THEN After("start") ELSE "idle"
        /\ UNCHANGED <<active, resumes, op, offset, currentType, epsvNotSupported, broken, data, closed>>
        /\ UNCHANGED serverVars
    BY DEF StartReply, clientVars
  <1>2. op \in Transfers /\ ~broken
    BY <1>1 DEF ConnInv, StageOK, Fits, TransferCommands, Transfers
  <1>3. pc' = IF Code \div 100 = 1 THEN "get" ELSE "idle"
    BY <1>1, <1>2, AfterTransfer DEF ConnInv
  <1>4. TypeOK' /\ StageOK'
    BY TypesKept DEF ConnInv, Next, Client
  <1>6. transfer' = transfer /\ op' = op /\ broken' = broken /\ sent' = sent
    BY <1>1 DEF serverVars, Take
  <1>7. AwaitsAnswer
    BY <1>1, <1>2, CommandsAre DEF ConnInv, Owing, TransferCommands
  <1>8. Owed' = Owed - 1 /\ Len(replies) \in Nat \ {0}
    BY <1>1, <1>6, TakeOwed, TakeFacts DEF ConnInv
  <1>9. sent = "none"
    <2>1. Count(sent) \in {0, 1} /\ Count(transfer) \in {0, 1}
          /\ (Count(sent) = 0 <=> sent = "none")
      BY CountType
    <2>2. sent = pc => Count(sent) + Len(replies) + Count(transfer) = 1
      BY <1>7 DEF AwaitsAnswer, Owed
    <2>3. sent \in {"none", pc}
      BY <1>7 DEF AwaitsAnswer
    <2> QED BY <1>8, <2>1, <2>2, <2>3
  <1>10. Owed = IF Code \div 100 = 1 THEN 2 ELSE 1
    BY <1>1, <1>7, <1>9 DEF AwaitsAnswer
  <1>11. transfer' = "stor" => op' = "upload"
    BY <1>2, <1>6 DEF ConnInv, Owing
  <1>12. CASE Code \div 100 = 1
    <2>1. pc' = "get" /\ AwaitsEnd'
      BY <1>3, <1>6, <1>8, <1>9, <1>10, <1>12 DEF AwaitsEnd
    <2> QED BY <1>4, <1>11, <2>1, CommandsAre DEF ConnInv, Owing, QuietStage
  <1>13. CASE Code \div 100 # 1
    <2>1. pc' = "idle" /\ Owed' = 0
      BY <1>3, <1>8, <1>10, <1>13
    <2> QED BY <1>4, <1>11, <2>1, CommandsAre DEF ConnInv, Owing, QuietStage
  <1> QED BY <1>12, <1>13

LEMMA AborReplyInv == ASSUME ConnInv, AborReply PROVE ConnInv'
  <1>1. /\ pc = "abor" /\ waiting /\ Take /\ ~waiting' /\ waiting' \in BOOLEAN
        /\ broken' = ~KeepsAfterAbort(Code)
        /\ pc' = IF KeepsAfterAbort(Code) THEN After("abor") ELSE "idle"
        /\ UNCHANGED <<active, resumes, op, offset, currentType, epsvNotSupported, data, closed>>
        /\ UNCHANGED serverVars
    BY DEF AborReply, clientVars
  <1>2. op \in {"download", "upload"} /\ ~broken
    BY <1>1 DEF ConnInv, StageOK, Fits
  <1>3. After("abor") = "aborted"
    BY <1>2, AfterTransfer DEF ConnInv, Transfers
  <1>4. \/ broken' /\ pc' = "idle"
        \/ ~broken' /\ pc' = "aborted"
    BY <1>1, <1>3
  <1>5. TypeOK' /\ StageOK'
    BY TypesKept DEF ConnInv, Next, Client
  <1>7. transfer' = transfer /\ op' = op /\ sent' = sent
    BY <1>1 DEF serverVars, Take
  <1>8. AwaitsAbort /\ (transfer = "stor" => op = "upload")
    BY <1>1, <1>2, CommandsAre DEF ConnInv, Owing
  <1>9. /\ Owed' = Owed - 1
        /\ Owed = Len(replies) => sent = "none" /\ transfer = "none"
        /\ Len(replies) \in Nat \ {0} /\ Len(replies') = Len(replies) - 1
        /\ \A i \in 1..Len(replies') : replies'[i] = replies[i + 1]
    BY <1>1, <1>7, TakeOwed, TakeFacts DEF ConnInv
  <1>10. CASE Owed = 2
    <2>1. Owed' = 1 /\ sent' \in {"none", "abor"}
      BY <1>7, <1>8, <1>9, <1>10 DEF AwaitsAbort
    <2> QED BY <1>4, <1>5, <1>7, <1>8, <2>1, CommandsAre
            DEF ConnInv, Owing, QuietStage
  <1>11. CASE Len(replies) = 3 /\ Owed = 3 /\ op = "upload" /\ replies[2].code = Aborted
    <2>1. sent' = "none" /\ transfer' = "none" /\ Len(replies') = 2 /\ op' = "upload"
      BY <1>7, <1>9, <1>11
    <2>2. Head(replies') = replies[2]
      <3>1. replies' \in Seq(Replies)
        BY <1>5 DEF TypeOK
      <3>2. Head(replies') = replies'[1]
        BY <3>1, <2>1, HeadTailProperties, EmptySeq
      <3> QED BY <3>2, <1>9, <2>1
    <2>3. Code' = Aborted
      BY <2>2, <1>11 DEF Code
    <2> QED BY <1>4, <1>5, <2>1, <2>3, CommandsAre DEF ConnInv, Owing, QuietStage
  <1> QED BY <1>8, <1>10, <1>11 DEF AwaitsAbort

LEMMA EndReplyInv == ASSUME ConnInv, EndReply PROVE ConnInv'
  <1>1. /\ pc \in {"end", "aborted", "again"} /\ Take
        /\ pc' = IF ReadsThird(Code) THEN "again" ELSE "idle"
        /\ UNCHANGED <<active, resumes, op, offset, currentType, epsvNotSupported, waiting, broken, data, closed>>
        /\ UNCHANGED serverVars
    BY DEF EndReply, clientVars, Waits
  <1>2. ~waiting /\ ~broken
    BY <1>1, CommandsAre DEF ConnInv, StageOK
  <1>3. ReadsThird(Code) <=> op = "upload" /\ pc = "aborted" /\ Code = Aborted
    BY DEF ReadsThird
  <1>4. TypeOK' /\ StageOK'
    BY TypesKept DEF ConnInv, Next, Client
  <1>6. transfer' = transfer /\ op' = op /\ sent' = sent /\ broken' = broken /\ waiting' = waiting
    BY <1>1 DEF serverVars, Take
  <1>7. /\ Owed' = Owed - 1
        /\ Owed = 1 => sent = "none" /\ transfer = "none" /\ Len(replies) = 1
        /\ Len(replies) \in Nat \ {0} /\ Len(replies') = Len(replies) - 1
    BY <1>1, <1>6, TakeOwed, TakeFacts DEF ConnInv
  <1>8. sent' = "none" /\ transfer' = "none" /\ Len(replies') <= 1
    <2>1. \/ Owed = 1
          \/ sent = "none" /\ transfer = "none" /\ Len(replies) \in {1, 2}
      <3>1. CASE pc \in {"end", "aborted"}
        BY <1>2, <3>1 DEF ConnInv, Owing, AwaitsEnd
      <3>2. CASE pc = "again"
        <4>1. sent = "none" /\ transfer = "none" /\ Len(replies) <= 1
          BY <1>2, <3>2 DEF ConnInv, Owing
        <4> QED BY <4>1, <1>7
      <3> QED BY <1>1, <3>1, <3>2
    <2> QED BY <2>1, <1>6, <1>7
  <1>9. ~ReadsThird(Code) => Owed' = 0
    <2>1. CASE Owed = 1
      BY <1>7, <2>1
    <2>2. CASE pc = "again"
      <3>1. sent = "none" /\ transfer = "none" /\ Len(replies) <= 1
        BY <1>2, <2>2 DEF ConnInv, Owing
      <3>2. Len(replies) = 1
        BY <3>1, <1>7
      <3>3. Owed = 1
        BY <3>1, <3>2 DEF Owed, Count
      <3> QED BY <3>3, <1>7
    <2> QED BY <1>1, <1>2, <1>3, <2>1, <2>2 DEF ConnInv, Owing, AwaitsEnd
  <1>10. Owing'
    BY <1>1, <1>2, <1>6, <1>8, <1>9, CommandsAre DEF Owing, QuietStage
  <1> QED BY <1>4, <1>10 DEF ConnInv
-----------------------------------------------------------------------------
(* The server.                                                              *)

(* Who can be waiting when a command is on its way.                         *)
LEMMA SentWhen ==
  ASSUME ConnInv, ~broken, sent # "none"
  PROVE  \/ /\ pc \in Commands \ {"abor"} /\ waiting /\ sent = pc
            /\ transfer = "none" /\ Len(replies) = 0
         \/ /\ pc = "abor" /\ waiting /\ sent = "abor" /\ Owed = 2
         \/ /\ pc = "aborted" /\ ~waiting /\ sent = "abor" /\ Owed = 1
            /\ transfer = "none"
  <1>1. Len(replies) \in Nat
    BY LenProperties DEF ConnInv, TypeOK
  <1>2. Owed = 1 + Len(replies) + Count(transfer)
    BY DEF Owed, Count
  <1>3. Count(transfer) \in {0, 1} /\ (Count(transfer) = 0 <=> transfer = "none")
    BY CountType
  <1>4. Owed # 0 /\ (Owed = 1 => transfer = "none" /\ Len(replies) = 0)
    BY <1>1, <1>2, <1>3
  <1>5. Len(replies) = 3 => Owed # 3
    BY <1>1, <1>2, <1>3
  <1>6. pc \in {"idle", "dial", "get", "copy", "end", "aborted", "again"} \cup Commands
    BY DEF ConnInv, TypeOK, Stages, Waits
  <1>7. CASE pc \in Commands \ {"abor"}
    <2>1. waiting /\ AwaitsAnswer
      BY <1>4, <1>7 DEF ConnInv, Owing, QuietStage
    <2> QED BY <1>4, <1>7, <2>1 DEF AwaitsAnswer
  <1>8. CASE pc = "abor"
    <2>1. waiting /\ AwaitsAbort
      BY <1>8, CommandsAre DEF ConnInv, Owing, AwaitsEnd
    <2> QED BY <1>5, <1>8, <2>1 DEF AwaitsAbort
  <1>9. CASE pc \in {"idle", "dial", "get", "copy", "end", "aborted", "again"}
    <2>1. pc = "aborted" /\ sent = "abor" /\ Owed = 1
      BY <1>4, <1>9 DEF ConnInv, Owing, QuietStage, AwaitsEnd
    <2>2. ~waiting
      BY <2>1, CommandsAre DEF ConnInv, StageOK
    <2> QED BY <2>1, <2>2, <1>4
  <1> QED BY <1>6, <1>7, <1>8, <1>9

(* An answer that starts no transfer.                                       *)
LEMMA AnswerInv ==
  ASSUME ConnInv, NEW c \in Commands, NEW S \in SUBSET Codes, Answer(c, S),
         UNCHANGED <<clientVars, pc, waiting, broken, data, closed>>, UNCHANGED transfer,
         c \in TransferCommands => \A k \in S : k \div 100 # 1,
         c = "abor" => transfer = "none"
  PROVE  Owing'
  <1>1. PICK r \in Replies : /\ r.to = c /\ r.code \in S /\ replies' = Append(replies, r)
                             /\ sent = c /\ sent' = "none"
    BY AnswerFacts DEF ConnInv
  <1>2. /\ Len(replies) \in Nat /\ Len(replies') = Len(replies) + 1
        /\ replies'[Len(replies')] = r /\ replies' \in Seq(Replies)
    BY <1>1, PutFacts DEF ConnInv
  <1>3. op' = op /\ pc' = pc /\ waiting' = waiting /\ broken' = broken /\ transfer' = transfer
    BY DEF clientVars
  <1>4. sent # "none"
    BY <1>1, CommandsAre
  <1>5. Owed' = Owed
    <2>1. Owed = 1 + Len(replies) + Count(transfer)
      BY <1>4 DEF Owed, Count
    <2>2. Owed' = 0 + Len(replies') + Count(transfer)
      BY <1>1, <1>3 DEF Owed, Count
    <2>3. Count(transfer) \in {0, 1}
      BY CountType
    <2> QED BY <1>2, <2>1, <2>2, <2>3
  <1>6. ASSUME ~broken PROVE transfer' = "stor" => op' = "upload"
    BY <1>3, <1>6 DEF ConnInv, Owing
  <1>7. CASE ~broken /\ pc \in Commands \ {"abor"} /\ sent = pc /\ waiting
    <2>1. transfer = "none" /\ Len(replies) = 0
      BY <1>4, <1>7, SentWhen, CommandsAre
    <2>2. Len(replies') = 1 /\ replies'[1] = r /\ Head(replies') = r
      <3>1. Len(replies') = 1 /\ replies'[1] = r
        BY <1>2, <2>1
      <3>2. Head(replies') = replies'[1]
        BY <1>2, <3>1, FirstReply
      <3> QED BY <3>1, <3>2
    <2>3. Owed' = 1
      BY <2>1, <2>2, <1>1, <1>3 DEF Owed, Count
    <2>4. Code' = r.code
      BY <2>2 DEF Code
    <2>5. pc' \in TransferCommands => ~(Code' \div 100 = 1)
      BY <1>1, <1>3, <1>7, <2>4
    <2>6. \A i \in 1..Len(replies') : replies'[i].to = pc'
      BY <1>1, <1>3, <1>7, <2>2
    <2>7. AwaitsAnswer'
      BY <1>1, <1>3, <1>7, <2>1, <2>2, <2>3, <2>5, <2>6, CommandsAre DEF AwaitsAnswer
    <2> QED BY <1>3, <1>6, <1>7, <2>7, CommandsAre DEF Owing, QuietStage
  <1>8. CASE ~broken /\ pc = "abor" /\ waiting /\ sent = "abor" /\ Owed = 2
    <2>1. AwaitsAbort'
      BY <1>1, <1>3, <1>5, <1>6, <1>8 DEF AwaitsAbort
    <2> QED BY <1>3, <1>6, <1>8, <2>1, CommandsAre DEF Owing, QuietStage
  <1>9. CASE ~broken /\ pc = "aborted" /\ ~waiting /\ sent = "abor" /\ Owed = 1
    BY <1>1, <1>3, <1>5, <1>6, <1>9, CommandsAre DEF Owing, QuietStage
  <1>10. CASE broken
    BY <1>3, <1>10 DEF Owing
  <1> QED BY <1>4, <1>7, <1>8, <1>9, <1>10, SentWhen DEF ConnInv, TypeOK

(* A transfer command is refused, or accepted with its end owed.            *)
LEMMA ServeStartInv == ASSUME ConnInv, ServeStart PROVE ConnInv'
  <1>1. /\ sent \in TransferCommands /\ marker' = 0 /\ serverType' = serverType
        /\ UNCHANGED <<clientVars, pc, waiting, broken, data, closed>>
        /\ \/ Answer(sent, {OkCode[sent]}) /\ transfer' = sent
           \/ Answer(sent, {Refused}) /\ UNCHANGED transfer
    BY DEF ServeStart
  <1>2. sent \in Commands /\ sent \notin {"none", "abor"} /\ OkCode[sent] = 150
    BY <1>1, CommandsAre DEF TransferCommands, OkCode
  <1>3. {150} \in SUBSET Codes /\ {Refused} \in SUBSET Codes
    BY CodesAre DEF Refused
  <1>4. StageOK'
    BY TypesKept DEF ConnInv, Next, Server
  <1>5. CASE Answer(sent, {OkCode[sent]}) /\ transfer' = sent
    <2>1. PICK r \in Replies :
            /\ r.to = sent /\ r.code \in {150} /\ replies' = Append(replies, r)
            /\ sent' = "none"
      BY <1>2, <1>3, <1>5, AnswerFacts DEF ConnInv
    <2>2. /\ Len(replies) \in Nat /\ Len(replies') = Len(replies) + 1
          /\ replies'[Len(replies')] = r /\ replies' \in Seq(Replies)
      BY <2>1, PutFacts DEF ConnInv
    <2>3. TypeOK'
      BY TypesKept DEF ConnInv, Next, Server
    <2>4. CASE broken
      BY <1>1, <1>4, <2>3, <2>4 DEF ConnInv, Owing
    <2>5. CASE ~broken
      <3>1. /\ pc \in Commands \ {"abor"} /\ waiting /\ sent = pc
            /\ transfer = "none" /\ Len(replies) = 0
        BY <1>2, <2>5, SentWhen
      <3>2. Len(replies') = 1 /\ replies'[1] = r /\ Head(replies') = r
        <4>1. Len(replies') = 1 /\ replies'[1] = r
          BY <2>2, <3>1
        <4>2. Head(replies') = replies'[1]
          BY <2>2, <4>1, FirstReply
        <4> QED BY <4>1, <4>2
      <3>3. Owed' = 2
        BY <1>2, <1>5, <2>1, <3>2 DEF Owed, Count
      <3>4. Code' \div 100 = 1
        BY <2>1, <3>2 DEF Code
      <3>5. op' = op /\ pc' = pc /\ waiting' = waiting /\ broken' = broken
        BY <1>1 DEF clientVars
      <3>6. AwaitsAnswer'
        BY <1>1, <1>5, <2>1, <3>1, <3>2, <3>3, <3>4, <3>5, CommandsAre DEF AwaitsAnswer
      <3>7. transfer' = "stor" => op' = "upload"
        BY <1>5, <3>1, <3>5 DEF ConnInv, StageOK, Fits
      <3>8. Owing'
        BY <2>5, <3>1, <3>5, <3>6, <3>7, CommandsAre DEF Owing, QuietStage
      <3> QED BY <1>4, <2>3, <3>8 DEF ConnInv
    <2> QED BY <2>4, <2>5
  <1>6. CASE Answer(sent, {Refused}) /\ UNCHANGED transfer
    <2>1. Owing'
      <3>1. \A k \in {Refused} : k \div 100 # 1
        BY DEF Refused
      <3> QED BY <1>1, <1>2, <1>3, <1>6, <3>1, AnswerInv
    <2>2. TypeOK'
      BY TypesKept DEF ConnInv, Next, Server
    <2> QED BY <1>4, <2>1, <2>2 DEF ConnInv
  <1> QED BY <1>1, <1>5, <1>6

(* The commands that start no transfer and end none.                        *)
LEMMA ServePlainInv ==
  ASSUME ConnInv, ServeType \/ ServeRest \/ ServeOther \/ ServeAbor PROVE ConnInv'
  <1>1. PICK c \in Commands \ TransferCommands, S \in SUBSET Codes :
          /\ Answer(c, S) /\ (c = "abor" => transfer = "none")
          /\ transfer' = transfer
          /\ serverType' \in {"A", "I"} /\ marker' \in {0, 1}
    <2>0. serverType \in {"A", "I"} /\ marker \in {0, 1} /\ offset \in {0, 1}
      BY DEF ConnInv, TypeOK
    <2>1. CASE ServeType
      <3>1. "type" \in Commands \ TransferCommands
            /\ {OkCode.type} \in SUBSET Codes /\ {Refused} \in SUBSET Codes
        BY CommandsAre, CodesAre DEF OkCode, Refused, TransferCommands
      <3> QED BY <2>0, <2>1, <3>1 DEF ServeType
    <2>2. CASE ServeRest
      <3>1. "rest" \in Commands \ TransferCommands
            /\ {OkCode.rest} \in SUBSET Codes /\ {Refused} \in SUBSET Codes
        BY CommandsAre, CodesAre DEF OkCode, Refused, TransferCommands
      <3> QED BY <2>0, <2>2, <3>1 DEF ServeRest
    <2>3. CASE ServeOther
      <3>1. /\ sent \in {"epsv", "pasv", "port", "rnfr", "rnto", "size"}
            /\ Answer(sent, {OkCode[sent], Refused})
            /\ UNCHANGED <<serverType, marker, transfer>>
        BY <2>3 DEF ServeOther, serverVars
      <3>2. sent \in Commands \ TransferCommands /\ sent # "abor"
            /\ {OkCode[sent], Refused} \in SUBSET Codes
        BY <3>1, CommandsAre, CodesAre DEF OkCode, Refused, TransferCommands
      <3> QED BY <2>0, <3>1, <3>2
    <2>4. CASE ServeAbor
      <3>1. /\ transfer = "none" /\ Answer("abor", {Closing, NoTransfer, Unknown})
            /\ UNCHANGED <<serverType, marker, transfer>>
        BY <2>4 DEF ServeAbor, serverVars
      <3>2. "abor" \in Commands \ TransferCommands
            /\ {Closing, NoTransfer, Unknown} \in SUBSET Codes
        BY CommandsAre DEF Codes, TransferCommands
      <3> QED BY <2>0, <3>1, <3>2
    <2> QED BY <2>1, <2>2, <2>3, <2>4
  <1>2. UNCHANGED <<clientVars, pc, waiting, broken, data, closed>>
    BY DEF ServeType, ServeRest, ServeOther, ServeAbor
  <1>3. c \in Commands /\ c \notin TransferCommands
    BY <1>1
  <1>4. Owing'
    BY <1>1, <1>2, <1>3, AnswerInv
  <1>5. TypeOK'
    BY TypesKept DEF ConnInv, Next, Server
  <1> QED BY <1>2, <1>4, <1>5, SameStage DEF ConnInv

(* The transfer ends: the reply that was owed is on its way.                *)
LEMMA ServerEndsInv == ASSUME ConnInv, ServerEnds PROVE ConnInv'
  <1>1. /\ transfer # "none" /\ transfer' = "none"
        /\ UNCHANGED <<clientVars, pc, waiting, broken, data, closed>>
        /\ sent' = sent /\ serverType' = serverType /\ marker' = marker
    BY DEF ServerEnds
  <1>2. PICK r \in Replies : r.to = transfer /\ replies' = Append(replies, r)
    <2>1. transfer \in Commands
      BY <1>1, CommandsAre DEF ConnInv, TypeOK, TransferCommands
    <2>2. PICK code \in {Closing, Aborted, Local} :
            replies' = Append(replies, Reply(transfer, code))
      BY DEF ServerEnds
    <2>3. Reply(transfer, code) \in Replies /\ Reply(transfer, code).to = transfer
      BY <2>1 DEF Reply, Replies, Codes
    <2> QED BY <2>2, <2>3
  <1>3. /\ Len(replies) \in Nat /\ Len(replies') = Len(replies) + 1
        /\ \A i \in 1..Len(replies) : replies'[i] = replies[i]
        /\ replies'[Len(replies')] = r /\ replies' \in Seq(Replies)
    BY <1>2, PutFacts DEF ConnInv
  <1>4. TypeOK' /\ StageOK'
    BY TypesKept DEF ConnInv, Next, Server
  <1>6. op' = op /\ pc' = pc /\ waiting' = waiting /\ broken' = broken
    BY <1>1 DEF clientVars
  <1>7. CASE broken
    BY <1>4, <1>6, <1>7 DEF ConnInv, Owing
  <1>8. CASE ~broken
    <2>1. Owed = Count(sent) + Len(replies) + 1 /\ Owed' = Owed
      <3>1. Owed = Count(sent) + Len(replies) + 1
        BY <1>1 DEF Owed, Count
      <3>2. Owed' = Count(sent) + Len(replies') + 0
        BY <1>1 DEF Owed, Count
      <3> QED BY <1>3, <3>1, <3>2, CountType
    <2>2. /\ Owed # 0 /\ (Owed = 1 => Len(replies) = 0)
          /\ (sent # "none" => Owed # 1) /\ (Owed = 2 /\ Len(replies) = 0 => sent # "none")
          /\ (Owed = 3 => Len(replies) # 3)
      <3>1. Count(sent) \in {0, 1} /\ (Count(sent) = 0 <=> sent = "none")
        BY CountType
      <3> QED BY <1>3, <2>1, <3>1
    <2>3. pc \in {"idle", "dial", "get", "copy", "end", "aborted", "again"} \cup Commands
      BY DEF ConnInv, TypeOK, Stages, Waits
    <2>4. CASE pc \in Commands \ {"abor"}
      <3>1. waiting /\ AwaitsAnswer
        BY <1>8, <2>2, <2>4 DEF ConnInv, Owing, QuietStage
      <3>2. transfer = pc /\ pc \in TransferCommands /\ sent = "none" /\ Len(replies) > 0
        <4>1. sent \in {"none", pc} /\ (sent = pc => Owed = 1)
          BY <3>1 DEF AwaitsAnswer
        <4>2. sent = "none"
          BY <2>2, <2>4, <4>1, CommandsAre
        <4>3. Len(replies) > 0
          BY <3>1, <4>2 DEF AwaitsAnswer
        <4>4. transfer = pc /\ pc \in TransferCommands
          BY <1>1, <3>1 DEF AwaitsAnswer
        <4> QED BY <4>2, <4>3, <4>4
      <3>3. Code' = Code
        <4>1. replies \in Seq(Replies) /\ Len(replies) # 0 /\ Len(replies') # 0
          <5>1. replies \in Seq(Replies)
            BY DEF ConnInv, TypeOK
          <5>2. Len(replies) # 0
            BY <1>3, <3>2
          <5>3. Len(replies') # 0
            BY <1>3
          <5> QED BY <5>1, <5>2, <5>3
        <4>2. Head(replies') = replies'[1] /\ Head(replies) = replies[1]
          BY <1>3, <4>1, FirstReply
        <4> QED BY <1>3, <3>2, <4>2 DEF Code
      <3>4. \A i \in 1..Len(replies') : replies'[i].to = pc
        <4>1. \A i \in 1..Len(replies) : replies[i].to = pc
          BY <3>1 DEF AwaitsAnswer
        <4>2. \A i \in 1..Len(replies') : i \in 1..Len(replies) \/ i = Len(replies')
          BY <1>3
        <4> QED BY <1>2, <1>3, <3>2, <4>1, <4>2
      <3>5. AwaitsAnswer'
        <4>1. Owed = IF Code \div 100 = 1 THEN 2 ELSE 1
          BY <3>1, <3>2 DEF AwaitsAnswer
        <4>2. Owed' = IF Code' \div 100 = 1 THEN 2 ELSE 1
          BY <2>1, <3>3, <4>1
        <4> QED BY <1>1, <1>3, <1>6, <3>2, <3>4, <4>2, CommandsAre DEF AwaitsAnswer
      <3> QED BY <1>1, <1>4, <1>6, <1>8, <2>4, <3>1, <3>5, CommandsAre
              DEF ConnInv, Owing, QuietStage
    <2>5. CASE pc = "abor" /\ waiting
      <3>1. AwaitsAbort
        BY <1>8, <2>5 DEF ConnInv, Owing
      <3>2. AwaitsAbort'
        BY <1>1, <2>1, <2>2, <3>1 DEF AwaitsAbort
      <3> QED BY <1>1, <1>4, <1>6, <1>8, <2>5, <3>2, CommandsAre
              DEF ConnInv, Owing, QuietStage
    <2>6. CASE pc \in {"get", "copy", "end"} \/ (pc = "abor" /\ ~waiting)
      <3>1. AwaitsEnd'
        BY <1>1, <1>8, <2>1, <2>6 DEF ConnInv, Owing, AwaitsEnd
      <3> QED BY <1>1, <1>4, <1>6, <1>8, <2>6, <3>1, CommandsAre
              DEF ConnInv, Owing, QuietStage
    <2>7. CASE pc = "aborted"
      <3>1. sent' = "none" /\ Owed' = 1
        BY <1>1, <1>8, <2>1, <2>2, <2>7 DEF ConnInv, Owing
      <3> QED BY <1>1, <1>4, <1>6, <1>8, <2>7, <3>1, CommandsAre
              DEF ConnInv, Owing, QuietStage
    <2>8. CASE pc \in {"idle", "dial", "again"}
      BY <1>1, <1>8, <2>2, <2>8 DEF ConnInv, Owing, QuietStage
    <2> QED BY <2>3, <2>4, <2>5, <2>6, <2>7, <2>8
  <1> QED BY <1>7, <1>8 DEF ConnInv, TypeOK

(* ABOR finds the transfer in progress: both replies are on their way.      *)
LEMMA ServeAborInProgressInv == ASSUME ConnInv, ServeAborInProgress PROVE ConnInv'
  <1>1. /\ transfer # "none" /\ sent = "abor" /\ sent' = "none" /\ transfer' = "none"
        /\ UNCHANGED <<clientVars, pc, waiting, broken, data, closed>>
        /\ serverType' = serverType /\ marker' = marker
    BY DEF ServeAborInProgress
  <1>2. transfer \in Commands /\ "abor" \in Commands
    BY <1>1, CommandsAre DEF ConnInv, TypeOK, TransferCommands
  <1>3. /\ Reply(transfer, Aborted) \in Replies /\ Reply("abor", Closing) \in Replies
        /\ Reply(transfer, Unavailable) \in Replies
    BY <1>2 DEF Reply, Replies, Codes
  <1>4. PICK q \in Seq(Replies) :
          /\ replies' = replies \o q
          /\ \/ Len(q) = 2
             \/ Len(q) = 3 /\ transfer = "stor" /\ q[2].code = Aborted
    <2>1. CASE replies' = replies \o <<Reply(transfer, Aborted), Reply("abor", Closing)>>
      <3>1. Len(<<Reply(transfer, Aborted), Reply("abor", Closing)>>) = 2
        OBVIOUS
      <3>2. <<Reply(transfer, Aborted), Reply("abor", Closing)>> \in Seq(Replies)
        BY <1>3
      <3> QED BY <2>1, <3>1, <3>2
    <2>2. CASE /\ transfer = "stor"
               /\ replies' = replies \o <<Reply("abor", Closing), Reply(transfer, Aborted),
                                          Reply(transfer, Unavailable)>>
      <3> DEFINE q3 == <<Reply("abor", Closing), Reply(transfer, Aborted),
                         Reply(transfer, Unavailable)>>
      <3>1. Len(q3) = 3 /\ q3[2] = Reply(transfer, Aborted)
        OBVIOUS
      <3>2. q3 \in Seq(Replies)
        BY <1>3
      <3>3. q3[2].code = Aborted
        BY <3>1 DEF Reply
      <3>4. replies' = replies \o q3
        BY <2>2
      <3> HIDE DEF q3
      <3> QED BY <2>2, <3>1, <3>2, <3>3, <3>4
    <2> QED BY <2>1, <2>2 DEF ServeAborInProgress
  <1>5. /\ replies \in Seq(Replies) /\ Len(replies) \in Nat
        /\ replies' \in Seq(Replies) /\ Len(replies') = Len(replies) + Len(q)
        /\ \A i \in 1..Len(replies') :
             replies'[i] = IF i <= Len(replies) THEN replies[i] ELSE q[i - Len(replies)]
    <2>1. replies \in Seq(Replies)
      BY DEF ConnInv, TypeOK
    <2> QED BY <1>4, <2>1, LenProperties, ConcatProperties
  <1>6. TypeOK' /\ StageOK'
    BY TypesKept DEF ConnInv, Next, Server
  <1>8. op' = op /\ pc' = pc /\ waiting' = waiting /\ broken' = broken
    BY <1>1 DEF clientVars
  <1>9. CASE broken
    BY <1>6, <1>8, <1>9 DEF ConnInv, Owing
  <1>10. CASE ~broken
    <2>1. pc = "abor" /\ waiting /\ Owed = 2 /\ (transfer = "stor" => op = "upload")
      BY <1>1, <1>10, SentWhen DEF ConnInv, Owing
    <2>2. Len(replies) = 0
      <3>1. Owed = 1 + Len(replies) + 1
        BY <1>1 DEF Owed, Count
      <3> QED BY <1>5, <2>1, <3>1
    <2>3. Owed' = Len(replies') /\ Len(replies') = Len(q)
      <3>1. Owed' = 0 + Len(replies') + 0
        BY <1>1 DEF Owed, Count
      <3>2. Len(replies') = Len(q)
        BY <1>4, <1>5, <2>2
      <3> QED BY <1>4, <3>1, <3>2
    <2>4. Len(q) = 3 => replies'[2] = q[2]
      BY <1>5, <2>2, <2>3
    <2>5. AwaitsAbort'
      BY <1>1, <1>4, <1>8, <2>1, <2>3, <2>4 DEF AwaitsAbort
    <2> QED BY <1>1, <1>6, <1>8, <1>10, <2>1, <2>5, CommandsAre
            DEF ConnInv, Owing, QuietStage
  <1> QED BY <1>9, <1>10
-----------------------------------------------------------------------------
(* ConnInv holds at the start, ...                                          *)
LEMMA InitInv == Init => ConnInv
  <1> SUFFICES ASSUME Init PROVE ConnInv
    OBVIOUS
  <1>1. op \in Ops
    BY ConnAssumption DEF Init
  <1>2. TypeOK
    BY <1>1, EmptySeq DEF Init, TypeOK, Stages
  <1>3. Owed = 0
    <2>1. Len(replies) = 0
      BY DEF Init
    <2>2. Count(sent) = 0 /\ Count(transfer) = 0
      BY DEF Init, Count
    <2> QED BY <2>1, <2>2 DEF Owed
  <1> QED BY <1>2, <1>3, CommandsAre DEF Init, ConnInv, StageOK, Fits, Owing, QuietStage, DataStages

(* ... a step that changes nothing keeps it, ...                            *)
LEMMA IdleInv == ASSUME ConnInv, UNCHANGED vars PROVE ConnInv'
  <1>1. /\ UNCHANGED <<active, resumes, op, offset, pc, waiting, broken, currentType, epsvNotSupported>>
        /\ UNCHANGED <<data, closed>> /\ UNCHANGED <<wireVars, serverVars>>
    BY DEF vars, wireVars, serverVars
  <1>2. TypeOK'
    BY <1>1, SameOwed DEF ConnInv, TypeOK
  <1>3. StageOK'
    BY <1>1 DEF ConnInv, StageOK, Fits
  <1>4. Owing'
    BY <1>1, SameOwed DEF ConnInv, Owing, QuietStage, AwaitsAnswer, AwaitsEnd, AwaitsAbort, Code
  <1> QED BY <1>2, <1>3, <1>4 DEF ConnInv

(* ... and so does every other, ...                                         *)
LEMMA NextInv ==
  ASSUME DataComes, ConnInv, [Next]_vars PROVE ConnInv'
  <1>1. CASE Client
    <2>1. ASSUME NEW o \in Ops, NEW off \in Offsets(o), Begin(o, off) PROVE ConnInv'
      BY <2>1, BeginInv
    <2> QED BY <1>1, <2>1, ReplaceInv, SkipTypeInv, SendInv, IOErrorInv, TypeReplyInv,
               PassiveReplyInv, DialInv, ListenFailsInv, PortReplyInv, SimpleReplyInv, StartReplyInv,
               GetInv, CopyInv, AborReplyInv, EndReplyInv DEF Client
  <1>2. CASE Server
    BY <1>2, ServePlainInv, ServeStartInv, ServerEndsInv, ServeAborInProgressInv DEF Server
  <1>3. CASE Close \/ Gone \/ UNCHANGED vars
    BY <1>3, CloseInv, IdleInv DEF Gone
  <1> QED BY <1>1, <1>2, <1>3 DEF Next

(* ... and which data connections come is settled from the start.           *)
LEMMA ModeKept == [Next]_vars => UNCHANGED <<active, resumes>>
  BY DEF Next, Client, Server, Begin, Replace, SkipType, Send, IOError, TypeReply, EpsvReply,
     PasvReply, Dial, ListenFails, PortReply, SimpleReply, StartReply, Get, Copy, CopyFail, AborReply,
     EndReply, ServeType, ServeRest, ServeOther, ServeStart, ServerEnds, ServeAbor,
     ServeAborInProgress, Close, Gone, clientVars, vars

LEMMA AlwaysConnInv == Spec => [](DataComes => ConnInv)
  <1>1. Init => (DataComes => ConnInv)
    BY InitInv
  <1>2. (DataComes => ConnInv) /\ [Next]_vars => (DataComes' => ConnInv')
    <2>1. [Next]_vars => (DataComes' <=> DataComes)
      BY ModeKept DEF DataComes
    <2> QED BY <2>1, NextInv
  <1> QED BY <1>1, <1>2, PTL DEF Spec

(* Every variable of the connection and of its server keeps its type, in    *)
(* every mode and whatever fails.                                           *)
THEOREM TypeCorrect == Spec => []TypeOK
  <1>1. Init => TypeOK /\ StageOK
    BY InitInv DEF ConnInv
  <1>2. TypeOK /\ StageOK /\ [Next]_vars => (TypeOK /\ StageOK)'
    BY TypesKept
  <1> QED BY <1>1, <1>2, PTL DEF Spec

(* persistentConn.broken and the code that sets it: whatever operations a   *)
(* connection has run, failed, timed out or aborted, it is not returned     *)
(* unbroken with an answer or a transfer still to come.                     *)
THEOREM PoolStaysInSync == Spec => [](DataComes => PoolSync)
  <1>1. ConnInv => PoolSync
    <2> SUFFICES ASSUME ConnInv, pc = "idle", ~broken
                 PROVE  sent = "none" /\ replies = <<>> /\ transfer = "none"
      BY DEF PoolSync
    <2>1. Owed = 0
      BY DEF ConnInv, Owing, QuietStage
    <2>2. replies \in Seq(Replies) /\ Len(replies) \in Nat
      BY LenProperties DEF ConnInv, TypeOK
    <2>3. sent = "none" /\ transfer = "none" /\ Len(replies) = 0
      BY <2>1, <2>2, CountType DEF Owed
    <2> QED BY <2>2, <2>3, EmptySeq
  <1> QED BY <1>1, AlwaysConnInv, PTL

(* sendCommand and readResponse: a command (other than ABOR) never takes    *)
(* for its answer a reply to another one.                                   *)
THEOREM NoAnswerIsStale == Spec => [](DataComes => NoStaleAnswer)
  <1>1. ConnInv => NoStaleAnswer
    <2> SUFFICES ASSUME ConnInv, pc \in Commands \ {"abor"}, waiting, replies # <<>>
                 PROVE  Head(replies).to = pc
      BY DEF NoStaleAnswer
    <2>1. AwaitsAnswer
      BY CommandsAre DEF ConnInv, StageOK, Owing
    <2>2. replies \in Seq(Replies) /\ Len(replies) \in Nat \ {0}
      BY LenProperties, EmptySeq DEF ConnInv, TypeOK
    <2>3. Head(replies) = replies[1]
      BY <2>2, FirstReply
    <2> QED BY <2>1, <2>2, <2>3 DEF AwaitsAnswer
  <1> QED BY <1>1, AlwaysConnInv, PTL
-----------------------------------------------------------------------------
(* The restart marker of a program that uses the range transfers only.      *)

Target == IF op = "upload" THEN 0 ELSE offset

(* The server has answered REST and the client has not read it; ...         *)
RestAnswered == pc = "rest" /\ waiting /\ sent = "none"

(* ... the command that uses the marker is next, or on its way.             *)
RestArmed == pc \in {"retr", "stor"} /\ (waiting => sent = pc)

MarkerInv ==
  ~resumes =>
    /\ op = "resume" => pc = "idle" /\ sent = "none"
    /\ sent \in {"retr", "stor"} => marker = Target
    /\ ~broken /\ RestAnswered => marker = IF Code = OkCode.rest THEN Target ELSE 0
    /\ ~broken /\ RestArmed => marker = Target
    /\ ~broken /\ ~RestAnswered /\ ~RestArmed => marker = 0

(* A step that leaves the marker alone, and neither waits for the answer to *)
(* REST nor comes from it.                                                  *)
LEMMA MarkerStays ==
  ASSUME MarkerInv, UNCHANGED <<resumes, op, offset, marker, sent>>, pc # "idle",
         \/ broken'
         \/ /\ ~broken /\ ~RestAnswered /\ ~RestArmed
            /\ ~RestAnswered' /\ (RestArmed' => Target = 0)
  PROVE  MarkerInv'
  BY DEF MarkerInv, Target

(* Without REST no transfer is armed, unless none is needed.                *)
LEMMA DataNeedsRest ==
  ASSUME TypeOK, op \in Transfers \ {"resume"}, After("data") \in {"retr", "stor"}
  PROVE  Target = 0
  <1>1. After("data") = CASE op = "list" -> "mlsd"
                          [] op = "download" -> (IF offset > 0 THEN "rest" ELSE "retr")
                          [] op = "upload" -> (IF offset > 0 THEN "rest" ELSE "stor")
    BY KnownOps DEF AllOps, After, Script, RangeTransfer, StringList, Transfers
  <1> QED BY <1>1, KnownOps DEF Target, Transfers

(* No answer but that to REST arms a transfer that needs a marker.          *)
LEMMA MarkerOnReply ==
  ASSUME ConnInv, MarkerInv, ~resumes,
         \/ TypeReply \/ EpsvReply \/ PasvReply \/ PortReply
         \/ SimpleReply /\ pc # "rest"
  PROVE  MarkerInv'
  <1>1. /\ pc \in {"type", "epsv", "pasv", "port", "rnfr", "rnto", "size"}
        /\ waiting /\ ~waiting'
        /\ UNCHANGED <<resumes, op, offset, marker, sent>>
    BY DEF TypeReply, EpsvReply, PasvReply, PortReply, SimpleReply, Take, clientVars, serverVars
  <1>2. ~broken /\ Fits(op, pc) /\ op # "resume"
    BY <1>1 DEF ConnInv, StageOK, MarkerInv
  <1>3. ASSUME pc' \in {"retr", "stor"} PROVE Target = 0
    <2>1. CASE PortReply
      <3>1. After("data") \in {"retr", "stor"}
        BY <1>3, <2>1 DEF PortReply
      <3>2. op \in Transfers \ {"resume"}
        BY <1>2, <2>1 DEF PortReply, Fits, DataStages
      <3> QED BY <3>1, <3>2, DataNeedsRest DEF ConnInv
    <2>2. CASE TypeReply
      <3>1. op \notin {"list", "rename"}
        BY <1>2, <2>2 DEF TypeReply, Fits
      <3> QED BY <1>3, <2>2, <3>1, AfterType DEF ConnInv, TypeReply
    <2>3. CASE EpsvReply \/ PasvReply
      BY <1>3, <2>3 DEF EpsvReply, PasvReply
    <2>4. CASE SimpleReply /\ pc # "rest"
      <3>1. After(pc) \in {"idle", "rnto"}
        BY <1>2, <2>4, AfterSimple DEF SimpleReply, Fits
      <3> QED BY <1>3, <2>4, <3>1 DEF SimpleReply
    <2> QED BY <2>1, <2>2, <2>3, <2>4
  <1> QED BY <1>1, <1>2, <1>3, MarkerStays DEF RestAnswered, RestArmed

(* The answer to REST decides.                                              *)
LEMMA MarkerOnRest ==
  ASSUME ConnInv, MarkerInv, ~resumes, SimpleReply, pc = "rest"
  PROVE  MarkerInv'
  <1>1. /\ waiting /\ ~waiting' /\ Take
        /\ pc' = IF Code = OkCode.rest THEN After("rest") ELSE "idle"
        /\ UNCHANGED <<resumes, op, offset, marker, sent, broken>>
        /\ UNCHANGED transfer
    BY DEF SimpleReply, Take, clientVars, serverVars
  <1>2. ~broken /\ op \in Transfers \ {"list"} /\ op # "resume"
    BY <1>1 DEF ConnInv, StageOK, Fits, MarkerInv
  <1>3. sent = "none"
    <2>1. sent # "none" => Len(replies) = 0
      BY <1>2, SentWhen
    <2>2. Len(replies) # 0
      BY <1>1, TakeFacts DEF ConnInv
    <2> QED BY <2>1, <2>2
  <1>4. After("rest") \in {"retr", "stor"}
    BY <1>2, KnownOps DEF ConnInv, AllOps, After, Script, RangeTransfer, Transfers
  <1>5. marker = IF Code = OkCode.rest THEN Target ELSE 0
    BY <1>1, <1>2, <1>3 DEF MarkerInv, RestAnswered
  <1>6. Target' = Target /\ ~RestAnswered'
    BY <1>1 DEF Target, RestAnswered
  <1>7. RestArmed' <=> Code = OkCode.rest
    BY <1>1, <1>4 DEF RestArmed
  <1> QED BY <1>1, <1>2, <1>3, <1>5, <1>6, <1>7 DEF MarkerInv

(* The client's other steps after its first.                                *)
LEMMA MarkerOnClient ==
  ASSUME ConnInv, MarkerInv, ~resumes,
         \/ SkipType \/ Dial \/ ListenFails \/ Get \/ Copy \/ CopyFail \/ StartReply
         \/ AborReply \/ EndReply \/ IOError
  PROVE  MarkerInv'
  <1>1. UNCHANGED <<resumes, op, offset, marker, sent>> /\ pc # "idle"
    BY CommandsAre DEF SkipType, Dial, ListenFails, Get, Copy, CopyFail, StartReply, AborReply, EndReply, IOError,
       Take, clientVars, serverVars, wireVars, TransferCommands, Waits
  <1>2. op # "resume" /\ ~broken /\ Fits(op, pc)
    BY <1>1 DEF MarkerInv, ConnInv, StageOK
  <1>3. CASE SkipType
    <2>1. After("type") \notin {"retr", "stor"}
      BY <1>2, <1>3, AfterType DEF SkipType, ConnInv, Fits
    <2> QED BY <1>1, <1>2, <1>3, <2>1, MarkerStays DEF SkipType, RestAnswered, RestArmed
  <1>4. CASE Dial
    <2>1. op \in Transfers \ {"resume"} /\ ~waiting
      BY <1>2, <1>4, CommandsAre DEF Dial, Fits, DataStages, ConnInv, StageOK
    <2>2. pc' \in {"retr", "stor"} => Target = 0
      BY <1>4, <2>1, DataNeedsRest DEF Dial, ConnInv
    <2> QED BY <1>1, <1>2, <1>4, <2>1, <2>2, MarkerStays DEF Dial, RestAnswered, RestArmed
  <1>5. CASE Get \/ Copy \/ CopyFail
    <2>1. pc \in {"get", "copy"} /\ op \in Transfers
      BY <1>2, <1>5 DEF Get, Copy, CopyFail, Fits
    <2>2. pc' \in {"copy", "abor", "end", "idle"}
      BY <1>5, <2>1, AfterTransfer DEF Get, Copy, CopyFail, ConnInv
    <2> QED BY <1>1, <1>2, <2>1, <2>2, MarkerStays DEF RestAnswered, RestArmed
  <1>6. CASE StartReply
    <2>1. pc \in TransferCommands /\ waiting /\ Take /\ op \in Transfers /\ ~waiting'
      BY <1>2, <1>6 DEF StartReply, Fits, TransferCommands, Transfers
    <2>2. pc' \in {"get", "idle"}
      BY <1>6, <2>1, AfterTransfer DEF StartReply, ConnInv
    <2>3. sent # pc
      <3>1. sent # "none" => Len(replies) = 0 \/ pc \notin TransferCommands
        BY <1>2, SentWhen DEF TransferCommands
      <3>2. Len(replies) # 0
        BY <2>1, TakeFacts DEF ConnInv
      <3> QED BY <2>1, <3>1, <3>2, CommandsAre DEF TransferCommands
    <2> QED BY <1>1, <1>2, <2>1, <2>2, <2>3, MarkerStays
            DEF RestAnswered, RestArmed, TransferCommands
  <1>7. CASE AborReply
    <2>1. pc = "abor" /\ After("abor") = "aborted"
      BY <1>2, <1>7, AfterTransfer DEF AborReply, Fits, ConnInv, Transfers
    <2> QED BY <1>1, <1>2, <1>7, <2>1, MarkerStays DEF AborReply, RestAnswered, RestArmed
  <1>8. CASE EndReply
    BY <1>1, <1>2, <1>8, MarkerStays DEF EndReply, RestAnswered, RestArmed, Waits
  <1>9. CASE IOError
    BY <1>1, <1>9, MarkerStays DEF IOError, Breaks
  <1>10. CASE ListenFails
    BY <1>1, <1>2, <1>10, MarkerStays DEF ListenFails, RestAnswered, RestArmed
  <1> QED BY <1>3, <1>4, <1>5, <1>6, <1>7, <1>8, <1>9, <1>10

(* Operations and connections begin without one; Send leaves it.            *)
LEMMA MarkerOnBegin ==
  ASSUME ConnInv, MarkerInv, ~resumes, NEW o \in Ops, NEW off \in Offsets(o),
         Begin(o, off) \/ Replace \/ Send
  PROVE  MarkerInv'
  <1>1. CASE Begin(o, off)
    <2>1. /\ pc = "idle" /\ ~broken /\ op' # "resume"
          /\ UNCHANGED <<resumes, waiting, broken, sent, marker>>
      BY <1>1 DEF Begin, wireVars, serverVars
    <2>2. pc' \in {"type", "rnfr", "epsv", "pasv", "port"}
      BY <1>1, DataCommandIs DEF Begin, First
    <2>3. sent = "none" /\ marker = 0
      BY <2>1, SentWhen, CommandsAre DEF MarkerInv, RestAnswered, RestArmed
    <2> QED BY <2>1, <2>2, <2>3 DEF MarkerInv, RestAnswered, RestArmed
  <1>2. CASE Replace
    BY <1>2 DEF Replace, MarkerInv, RestAnswered, RestArmed
  <1>3. CASE Send
    <2>1. /\ pc \in Commands /\ ~waiting /\ sent' = pc /\ waiting'
          /\ UNCHANGED <<resumes, op, offset, pc, broken, marker>>
      BY <1>3 DEF Send, clientVars, serverVars
    <2>2. pc # "idle" /\ pc # "none" /\ ~broken /\ op # "resume"
      BY <2>1, CommandsAre DEF ConnInv, StageOK, MarkerInv
    <2>3. Target' = Target /\ ~RestAnswered /\ ~RestAnswered' /\ (RestArmed' <=> RestArmed)
      BY <2>1, <2>2 DEF Target, RestAnswered, RestArmed
    <2>4. sent' \in {"retr", "stor"} => RestArmed
      BY <2>1 DEF RestArmed
    <2> QED BY <2>1, <2>2, <2>3, <2>4 DEF MarkerInv
  <1> QED BY <1>1, <1>2, <1>3

(* The server sets the marker at REST, and uses it up at RETR or STOR.      *)
LEMMA MarkerOnServer ==
  ASSUME ConnInv, MarkerInv, ~resumes, Server
  PROVE  MarkerInv'
  <1>1. UNCHANGED <<resumes, op, offset, pc, waiting, broken>> /\ Target' = Target
    BY DEF Server, ServeType, ServeRest, ServeOther, ServeStart, ServerEnds,
       ServeAbor, ServeAborInProgress, clientVars, Target
  <1>2. CASE ServeRest
    <2>1. /\ sent = "rest" /\ sent' = "none"
          /\ \E code \in {OkCode.rest, Refused} :
               /\ replies' = Append(replies, Reply("rest", code))
               /\ marker' = IF code = OkCode.rest THEN Target ELSE marker
      BY <1>2 DEF ServeRest, Answer, Target, OkCode, Refused
    <2>2. op # "resume"
      BY <2>1 DEF MarkerInv
    <2>3. CASE broken
      BY <1>1, <2>1, <2>2, <2>3 DEF MarkerInv
    <2>4. CASE ~broken
      <3>1. pc = "rest" /\ waiting /\ Len(replies) = 0
        BY <2>1, <2>4, SentWhen
      <3>2. marker = 0
        BY <2>1, <2>4, <3>1 DEF MarkerInv, RestAnswered, RestArmed
      <3>3. replies = <<>>
        BY <3>1, EmptySeq DEF ConnInv, TypeOK
      <3>4. marker' = IF Code' = OkCode.rest THEN Target ELSE 0
        <4>1. PICK code \in {OkCode.rest, Refused} :
                /\ replies' = Append(replies, Reply("rest", code))
                /\ marker' = IF code = OkCode.rest THEN Target ELSE marker
          BY <2>1
        <4>2. replies' = <<Reply("rest", code)>>
          BY <3>3, <4>1
        <4>3. Code' = code
          BY <4>2 DEF Code, Reply
        <4> QED BY <3>2, <4>1, <4>3
      <3>5. RestAnswered' /\ ~RestArmed'
        BY <1>1, <2>1, <3>1 DEF RestAnswered, RestArmed
      <3> QED BY <1>1, <2>1, <2>2, <2>4, <3>4, <3>5 DEF MarkerInv
    <2> QED BY <2>3, <2>4
  <1>3. CASE ServeStart
    <2>1. sent \in TransferCommands /\ sent' = "none" /\ marker' = 0
      BY <1>3 DEF ServeStart, Answer
    <2>2. op # "resume" /\ sent # "none"
      BY <2>1, CommandsAre DEF MarkerInv, TransferCommands
    <2>3. ~broken => pc = sent /\ waiting
      BY <2>1, <2>2, SentWhen DEF TransferCommands
    <2>4. ~broken => ~RestAnswered' /\ ~RestArmed'
      BY <1>1, <2>1, <2>3 DEF RestAnswered, RestArmed, TransferCommands
    <2> QED BY <1>1, <2>1, <2>2, <2>4 DEF MarkerInv
  <1>4. CASE ServeType \/ ServeOther \/ ServeAbor \/ ServeAborInProgress
    <2>1. /\ sent \notin {"none", "rest", "retr", "stor"} /\ sent' = "none"
          /\ marker' = marker
      BY <1>4 DEF ServeType, ServeOther, ServeAbor, ServeAborInProgress, Answer, serverVars
    <2>2. ~broken => pc \notin {"rest", "retr", "stor"}
      BY <2>1, SentWhen
    <2> QED BY <1>1, <2>1, <2>2 DEF MarkerInv, RestAnswered, RestArmed
  <1>5. CASE ServerEnds
    <2>1. transfer # "none" /\ sent' = sent /\ marker' = marker
      BY <1>5 DEF ServerEnds
    <2>2. ASSUME ~broken, RestAnswered PROVE FALSE
      <3>1. AwaitsAnswer
        BY <2>2, CommandsAre DEF ConnInv, Owing, RestAnswered
      <3> QED BY <2>1, <2>2, <3>1 DEF AwaitsAnswer, RestAnswered, TransferCommands
    <2>3. (RestAnswered' <=> RestAnswered) /\ (RestArmed' <=> RestArmed)
      BY <1>1, <2>1 DEF RestAnswered, RestArmed
    <2> QED BY <1>1, <2>1, <2>2, <2>3 DEF MarkerInv
  <1> QED BY <1>2, <1>3, <1>4, <1>5 DEF Server

(* So every step keeps MarkerInv.                                           *)
LEMMA MarkerStep == ASSUME ConnInv, MarkerInv, [Next]_vars PROVE MarkerInv'
  <1>1. resumes' = resumes
    BY ModeKept
  <1>2. CASE resumes
    BY <1>1, <1>2 DEF MarkerInv
  <1>3. CASE ~resumes /\ Client
    <2>1. ASSUME NEW o \in Ops, NEW off \in Offsets(o), Begin(o, off) PROVE MarkerInv'
      BY <1>3, <2>1, MarkerOnBegin
    <2>2. CASE Replace \/ Send
      <3>1. PICK o \in Ops : TRUE
        BY ConnAssumption
      <3>2. 0 \in Offsets(o)
        BY DEF Offsets
      <3> QED BY <1>3, <2>2, <3>1, <3>2, MarkerOnBegin
    <2>3. CASE SimpleReply
      BY <1>3, <2>3, MarkerOnReply, MarkerOnRest
    <2> QED BY <1>3, <2>1, <2>2, <2>3, MarkerOnReply, MarkerOnClient DEF Client
  <1>4. CASE ~resumes /\ Server
    BY <1>4, MarkerOnServer
  <1>5. CASE Close \/ Gone \/ UNCHANGED vars
    <2>1. UNCHANGED <<resumes, op, offset, pc, waiting, broken, sent, replies, marker>>
      BY <1>5 DEF Close, Gone, vars, clientVars, wireVars, serverVars
    <2> QED BY <2>1 DEF MarkerInv, Target, RestAnswered, RestArmed, Code
  <1> QED BY <1>2, <1>3, <1>4, <1>5 DEF Next

(* TransferRangeDownload and TransferRangeUpload: in a program that only    *)
(* uses these, every RETR and STOR finds the restart marker of its own      *)
(* operation, whatever the operations before it have left undone.           *)
THEOREM RangesStartAtOffset == Spec => [](DataComes => RangeStartsAtOffset)
  <1>1. Init => (DataComes => MarkerInv)
    BY DEF Init, MarkerInv, RestAnswered, RestArmed
  <1>2. /\ (DataComes => ConnInv) /\ (DataComes => MarkerInv) /\ [Next]_vars
        => (DataComes' => MarkerInv')
    <2>1. [Next]_vars => (DataComes' <=> DataComes)
      BY ModeKept DEF DataComes
    <2> QED BY <2>1, MarkerStep
  <1>3. MarkerInv => RangeStartsAtOffset
    BY DEF MarkerInv, Target, RangeStartsAtOffset, StartsAtOffset
  <1> QED BY <1>1, <1>2, <1>3, AlwaysConnInv, PTL DEF Spec
=============================================================================
