-------------------------- MODULE ResumedTransfer --------------------------
(***************************************************************************)
(* Client.Retrieve and Client.Store (goftp/transfer.go) over connections   *)
(* that break: one goroutine repeats transferFromOffset from where it is   *)
(* as long as the last one moved something, and compares sizes at the end. *)
(* Store has a source that can seek here, and resumes at the size the      *)
(* server has by then; bytes of an earlier transfer may still be arriving. *)
(*                                                                         *)
(* The server is the built-in one (module FtpServer: clients above a limit *)
(* are refused, a client whose connection broke is counted until the       *)
(* server notices), or one of the same kind that keeps what is stored.     *)
(* The pool has one idle connection at most, since one goroutine uses it.  *)
(*                                                                         *)
(* Definitions named after another one with a suffix are seeded bugs, used *)
(* to see that the properties below notice them.                           *)
(***************************************************************************)
EXTENDS Integers, Sequences, FiniteSets

CONSTANTS
  Handlers,        \* see FtpServer: the connections there can be at a time
  Others,          \* those of other users
  MaxConnections,
  FileLength,      \* the length of the file, and of Store's source
  Directions       \* "download": Retrieve, "upload": Store

None == "none"

ASSUME TransferAssumption ==
  /\ IsFiniteSet(Handlers) /\ Others \subseteq Handlers /\ None \notin Handlers
  /\ MaxConnections \in Nat /\ FileLength \in Nat
  /\ Directions \subseteq {"download", "upload"}

VARIABLES
  (* The client. *)
  direction,
  canResume,   \* the variable canResume
  pc,          \* where Retrieve or Store is
  hand,        \* the pool's connection that is not broken, if there is one
  bytesSoFar, n,
  size,        \* the size to compare with at the end, -1 if not known
  source,      \* the position of Store's source
  dest,        \* what has been written to dest, as positions of the file
  (* The server. *)
  builtIn,     \* it is the built-in one, which keeps nothing
  restStream,  \* its FEAT has REST STREAM
  remote,      \* what has been stored in the file
  wire,        \* what has been sent to each handler and is not stored yet
  crossed,     \* a file was emptied while an earlier transfer still wrote to it
  nbClients, phase, offset

S == INSTANCE FtpServer WITH FileSize <- FileLength

server == <<nbClients, phase, offset>>
choice == <<direction, builtIn, restStream>>
loop   == <<canResume, bytesSoFar, n, size>>
data   == <<source, dest, remote, wire, crossed>>
vars == <<choice, pc, hand, loop, data, server>>
-----------------------------------------------------------------------------
Mine == Handlers \ Others

Init ==
  /\ direction \in Directions
  /\ builtIn \in BOOLEAN /\ restStream \in BOOLEAN
  /\ canResume = FALSE
  /\ pc = IF direction = "download" THEN "size" ELSE "features"
  /\ hand = None
  /\ bytesSoFar = 0 /\ n = 0 /\ size = -1
  /\ source = 0 /\ dest = <<>>
  /\ remote = <<>> /\ wire = [h \in Handlers |-> <<>>] /\ crossed = FALSE
  /\ S!Init

Go(label) == pc' = label
-----------------------------------------------------------------------------
(* Connections *)

(* Each call of getIdleConn without an idle connection opens one. Without   *)
(* one canResume is just false, and anything else fails.                    *)
WithoutConnection ==
  IF pc = "features" THEN canResume' = FALSE /\ Go("transfer")
                     ELSE Go("failed") /\ UNCHANGED canResume

NeedsConnection == pc \in {"size", "features", "transfer", "resume", "verify"} /\ hand = None

Connect ==
  /\ NeedsConnection
  /\ \E h \in Mine :
       /\ S!WelcomeUser(h)
       /\ IF phase'[h] = "welcome"
          THEN hand' = h /\ UNCHANGED <<pc, canResume>>
          ELSE WithoutConnection /\ UNCHANGED hand
  /\ UNCHANGED <<choice, bytesSoFar, n, size, data>>

ConnectFails ==
  /\ NeedsConnection
  /\ WithoutConnection
  /\ UNCHANGED <<choice, hand, bytesSoFar, n, size, data, server>>

(* A handler sees that its client has gone, or is refused: what was still   *)
(* on the way to it is lost.                                                *)
Leave(h) ==
  /\ h # hand
  /\ S!UserLeft(h)
  /\ wire' = [wire EXCEPT ![h] = <<>>]
  /\ UNCHANGED <<choice, pc, hand, loop, source, dest, remote, crossed>>

OtherArrives(h) ==
  /\ h \in Others
  /\ S!WelcomeUser(h)
  /\ UNCHANGED <<choice, pc, hand, loop, data>>
-----------------------------------------------------------------------------
(* One-command operations *)

(* canResume: what FEAT said.                                               *)
Features ==
  /\ pc = "features" /\ hand # None
  /\ canResume' = restStream
  /\ Go("transfer")
  /\ UNCHANGED <<choice, hand, bytesSoFar, n, size, data, server>>

(* What SIZE answers. The built-in server knows the size from the name.     *)
RemoteSize == IF direction = "download" \/ builtIn THEN FileLength ELSE Len(remote)
Answers == {RemoteSize, -1}

(* size(path) gets an answer, which may be that the server does not know.   *)
(* Retrieve asks first; ...                                                 *)
SizeOfFile ==
  /\ pc = "size" /\ hand # None
  /\ size' \in Answers
  /\ Go("features")
  /\ UNCHANGED <<choice, hand, canResume, bytesSoFar, n, data, server>>

(* ... Store asks before it resumes: seek there and go on, or give up; ...  *)
SeekNot(answer) == source
Seek(answer) == answer
ResumeUpload ==
  /\ pc = "resume" /\ hand # None
  /\ \E answer \in Answers :
       IF answer = -1
       THEN Go("failed") /\ UNCHANGED <<bytesSoFar, source>>
       ELSE /\ source' = Seek(answer)
            /\ bytesSoFar' = answer
            /\ Go("transfer")
  /\ UNCHANGED <<choice, hand, canResume, n, size, dest, remote, wire, crossed, server>>

(* ... and at the end.                                                      *)
MatchesAnything(answer) == TRUE
Matches(answer) == answer \in {-1, bytesSoFar}
VerifyUpload ==
  /\ pc = "verify" /\ hand # None
  /\ size' \in Answers
  /\ Go(IF Matches(size') THEN "ok" ELSE "failed")
  /\ UNCHANGED <<choice, hand, canResume, bytesSoFar, n, data, server>>

(* An I/O error of any of the two.                                          *)
SizeFails ==
  /\ pc \in {"size", "resume", "verify"} /\ hand # None
  /\ hand' = None
  /\ Go("failed")
  /\ UNCHANGED <<choice, loop, data, server>>
-----------------------------------------------------------------------------
(* transferFromOffset *)

(* It returns n bytes and an error. Store has to ask where it is.           *)
KeepsAll(moved) == bytesSoFar
AddAll(moved) == bytesSoFar + moved
ResumesAnyway(moved) == canResume
Resumes(moved) == moved > 0 /\ canResume
TransferFails(moved) ==
  /\ bytesSoFar' = AddAll(moved) /\ n' = 0
  /\ Go(IF ~Resumes(moved) THEN "failed"
        ELSE IF direction = "download" THEN "transfer" ELSE "resume")
  /\ UNCHANGED <<canResume, size>>

(* REST if bytesSoFar > 0, and RETR or STOR. STOR without REST empties the  *)
(* file. A marker counts for the next transfer only.                        *)
Empties == direction = "upload" /\ ~builtIn /\ bytesSoFar = 0
Marker == bytesSoFar
Open ==
  /\ pc = "transfer" /\ hand # None
  /\ S!OpenFile(hand, Marker)
  /\ remote' = IF Empties THEN <<>> ELSE remote
  /\ crossed' = (crossed \/ (Empties /\ \E h \in Handlers : wire[h] # <<>>))
  /\ n' = 0
  /\ Go("copy")
  /\ UNCHANGED <<choice, hand, canResume, bytesSoFar, size, source, dest, wire>>

(* Refused, or an I/O error before the data.                                *)
OpenFails ==
  /\ pc = "transfer" /\ hand # None
  /\ hand' \in {hand, None}
  /\ TransferFails(0)
  /\ UNCHANGED <<choice, data, server>>

(* io.Copy in a download: the handler reads its file, the client writes     *)
(* what arrives.                                                            *)
CopyDown ==
  /\ pc = "copy" /\ direction = "download"
  /\ S!Readable(hand, 1) > 0
  /\ S!Advance(hand, 1)
  /\ dest' = Append(dest, offset[hand])
  /\ n' = n + 1
  /\ UNCHANGED <<choice, pc, hand, canResume, bytesSoFar, size, source, remote, wire, crossed>>

(* io.Copy in an upload: the source is read and handed to the connection.   *)
CopyUp ==
  /\ pc = "copy" /\ direction = "upload"
  /\ source < FileLength
  /\ wire' = [wire EXCEPT ![hand] = Append(@, source)]
  /\ source' = source + 1
  /\ n' = n + 1
  /\ UNCHANGED <<choice, pc, hand, canResume, bytesSoFar, size, dest, remote, crossed, server>>

(* A handler stores what arrives, also after its client has given up. A     *)
(* write behind the end of the file leaves a hole (-1).                     *)
Put(file, at, byte) ==
  [i \in 1..(IF at < Len(file) THEN Len(file) ELSE at + 1) |->
     IF i = at + 1 THEN byte ELSE IF i <= Len(file) THEN file[i] ELSE -1]
Deliver(h) ==
  /\ wire[h] # <<>>
  /\ S!Advance(h, 1)
  /\ remote' = IF builtIn THEN remote ELSE Put(remote, offset[h], Head(wire[h]))
  /\ wire' = [wire EXCEPT ![h] = Tail(@)]
  /\ UNCHANGED <<choice, pc, hand, loop, source, dest, crossed>>

(* The data ends, and the server says that the transfer is complete. The    *)
(* built-in one says so when it has sent its file, or taken all there was;  *)
(* another may end a download early, or lose the end of an upload.          *)
EndOfData ==
  IF direction = "download"
  THEN S!Readable(hand, 1) = 0 \/ ~builtIn
  ELSE source = FileLength /\ (wire[hand] = <<>> \/ ~builtIn)

(* transferFromOffset returns no error: Retrieve compares with the size it  *)
(* asked for.                                                               *)
ShortUnnoticed(total) == FALSE
Short(total) == size \notin {-1, total}
CopyEnds ==
  /\ pc = "copy" /\ EndOfData
  /\ bytesSoFar' = bytesSoFar + n /\ n' = 0
  /\ Go(IF direction = "upload" THEN "verify"
        ELSE IF Short(bytesSoFar + n) THEN "failed" ELSE "ok")
  /\ wire' = [wire EXCEPT ![hand] = <<>>]
  /\ UNCHANGED <<choice, hand, canResume, size, source, dest, remote, crossed, server>>

(* The data or the reply after it does not come through: the connection is  *)
(* broken, but its handler may not know.                                    *)
CopyBreaks ==
  /\ pc = "copy"
  /\ hand' = None
  /\ TransferFails(n)
  /\ UNCHANGED <<choice, data, server>>

(* The server ends the transfer with an error. The connection stays.        *)
CopyRefused ==
  /\ pc = "copy"
  /\ TransferFails(n)
  /\ wire' = [wire EXCEPT ![hand] = <<>>]
  /\ UNCHANGED <<choice, hand, source, dest, remote, crossed, server>>
-----------------------------------------------------------------------------
Client ==
  \/ Connect \/ ConnectFails \/ Features \/ SizeOfFile \/ ResumeUpload
  \/ VerifyUpload \/ SizeFails \/ Open \/ OpenFails \/ CopyDown \/ CopyUp
  \/ CopyEnds \/ CopyBreaks \/ CopyRefused

Environment == \E h \in Handlers : Leave(h) \/ OtherArrives(h) \/ Deliver(h)

Next == Client \/ Environment

(* The client goes on, because all its I/O has deadlines.                   *)
Spec == Init /\ [][Next]_vars /\ WF_vars(Client)
-----------------------------------------------------------------------------
Positions(length) == [i \in 1..length |-> i - 1]
Moved == bytesSoFar + n

TypeOK ==
  /\ S!TypeOK
  /\ direction \in Directions /\ builtIn \in BOOLEAN /\ restStream \in BOOLEAN
  /\ pc \in {"size", "features", "transfer", "copy", "resume", "verify", "ok", "failed"}
  /\ hand \in Mine \cup {None}
  /\ bytesSoFar \in Nat /\ n \in Nat /\ size \in -1..FileLength
  /\ canResume \in BOOLEAN /\ crossed \in BOOLEAN
  /\ source \in 0..FileLength

(* The server counts its clients right and keeps its limit, with clients    *)
(* that vanish, come back before it has noticed, and are refused.           *)
CountsClients == S!CountsClients
WithinLimit == S!WithinLimit

(* The connection in hand is one the server serves: a client that was       *)
(* refused or dropped is never used for a transfer.                         *)
HandIsServed == hand # None => phase[hand] = "welcome"

(* Retrieve: over any number of failed transfers, dest gets the bytes of    *)
(* the file from the first on, each once and in order, and bytesSoFar, from *)
(* which REST is made, says how many they are.                              *)
DestIsPrefix ==
  direction = "download" => dest = Positions(Moved) /\ Moved <= FileLength

(* "Retrieve will also verify the file's size": no error means all of it,   *)
(* if the server knows the size or ends no file early.                      *)
RetrieveIsComplete ==
  direction = "download" /\ pc = "ok" /\ (size # -1 \/ builtIn) => dest = Positions(FileLength)

(* Store: every byte on the server is the one of its position, and they     *)
(* have no gap, although the size is asked for and used while bytes of an   *)
(* earlier transfer arrive. Only emptying the file under such bytes makes a *)
(* hole.                                                                    *)
StoredInPlace ==
  /\ \A i \in DOMAIN remote : remote[i] \in {i - 1, -1}
  /\ ~crossed => remote = Positions(Len(remote))

(* "Store will also verify the remote file's size": without a hole, no      *)
(* error means that all of the source is there.                             *)
StoreIsComplete ==
  direction = "upload" /\ pc = "ok" /\ ~builtIn /\ size # -1 /\ ~crossed
     => remote = Positions(FileLength)

(* "... as long as it continues making progress": Retrieve ends, and Store  *)
(* ends unless again and again what it hands to the connection is lost. Its *)
(* progress is what it has sent, not what has come.                         *)
Stalled == pc = "copy" /\ pc' = "resume" /\ Len(remote) <= bytesSoFar
TransferEnds == <>(pc \in {"ok", "failed"}) \/ (direction = "upload" /\ []<><<Stalled>>_vars)
=============================================================================
