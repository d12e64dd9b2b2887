----------------------------- MODULE HttpSession -----------------------------
(***************************************************************************)
(* The HTTP interface (http.go): requests start, restart and stop the      *)
(* download and the upload session, each of which runs in a goroutine of   *)
(* its own (perf.go ftp) that moves one file with Retrieve or Store        *)
(* (goftp/transfer.go) through an FTPData and its Gauge (gauge.go). The    *)
(* only way to stop a session is Gauge.terminate: it sets g.Err, which     *)
(* the next Gauge.progress returns, without the lock, to the copy.         *)
(*                                                                         *)
(* These gauges have no duration, so g.isTimeUp never holds. Bytes are     *)
(* counted in buffers of the copy.                                         *)
(*                                                                         *)
(* Definitions named after another one with a suffix are seeded bugs, used *)
(* to see that the properties below notice them.                           *)
(***************************************************************************)
EXTENDS Integers, FiniteSets

CONSTANTS
  Starters,    \* the goroutines of the HTTP server that serve start and restart
  Stoppers,    \* those that serve stop
  FileLength,  \* the length of the file, in buffers
  Surplus,     \* bound: buffers a server sends of a file beyond its length
  MaxSessions  \* bound: sessions started

ASSUME HttpAssumption == FileLength \in Nat /\ Surplus \in Nat /\ MaxSessions \in Nat

Requests == Starters \cup Stoppers
Directions == {"download", "upload"}
Sessions == 1..MaxSessions
None == 0            \* the nil *Gauge

VARIABLES
  current,     \* config.downloadGauge and config.uploadGauge
  request,     \* what each request is doing: its stage and local gauge
  direction,   \* which of the two handlers started each session
  terminated,  \* the sessions whose g.Err is set
  ended,       \* the sessions whose g.Ended is set
  transBytes,  \* g.TransBytes of each session
  pc,          \* where each session's goroutine is
  bytesSoFar,  \* bytesSoFar of Retrieve or Store
  n,           \* the bytes io.Copy has written in the transfer in progress
  canResume,   \* canResume of Retrieve or Store
  sizeKnown,   \* the size Retrieve has asked for is not -1
  failed,      \* the sessions in which ftp panics with an error
  late,        \* history: the buffers counted since terminate
  overlapped   \* history: the sessions whose gauge was stored while another
               \* start of their handler was between its load and its store

requestVars == <<current, request, direction, overlapped>>
copyVars    == <<transBytes, late>>
loopVars    == <<bytesSoFar, n, canResume, sizeKnown>>
vars == <<current, request, direction, terminated, ended, transBytes, pc,
          bytesSoFar, n, canResume, sizeKnown, failed, late, overlapped>>
-----------------------------------------------------------------------------
Stages == {"idle", "loaded", "store", "go"}
PCs == {"none", "dial", "prepare", "transfer", "copy", "count", "check",
        "verify", "close", "done"}

Idle == [stage |-> "idle", kind |-> "stop", dir |-> "download", gauge |-> None]

Init ==
  /\ current = [d \in Directions |-> None]
  /\ request = [r \in Requests |-> Idle]
  /\ direction = [s \in Sessions |-> "download"]
  /\ terminated = {} /\ ended = {} /\ failed = {} /\ overlapped = {}
  /\ transBytes = [s \in Sessions |-> 0] /\ late = [s \in Sessions |-> 0]
  /\ pc = [s \in Sessions |-> "none"]
  /\ bytesSoFar = [s \in Sessions |-> 0] /\ n = [s \in Sessions |-> 0]
  /\ canResume = [s \in Sessions |-> FALSE]
  /\ sizeKnown = [s \in Sessions |-> FALSE]

GoTo(s, label) == pc' = [pc EXCEPT ![s] = label]
Stage(r, label) == request' = [request EXCEPT ![r].stage = label]
Answered(r) == request' = [request EXCEPT ![r] = Idle]

(* The sessions whose gauge has been made.                                  *)
Made == {s \in Sessions : pc[s] # "none"}
                   \cup {request[r].gauge : r \in {q \in Requests : request[q].stage = "go"}}
-----------------------------------------------------------------------------
(* The handlers download and upload *)

(* A start of d that has loaded a gauge and not yet stored its own.         *)
Replacing(r, d) ==
  /\ request[r].stage \in {"loaded", "store"}
  /\ request[r].kind = "start" /\ request[r].dir = d

(* The bound on sessions leaves one for each start that is served.          *)
SessionsLeft ==
  Cardinality({r \in Requests : \E d \in Directions : Replacing(r, d)})
    < Cardinality(Sessions \ Made)

(* gauge = config.downloadGauge.Load()                                      *)
Load(r, d, kind) ==
  /\ request[r].stage = "idle"
  /\ r \in (IF kind = "start" THEN Starters ELSE Stoppers)
  /\ kind = "start" => SessionsLeft
  /\ request' = [request EXCEPT ![r] =
       [stage |-> "loaded", kind |-> kind, dir |-> d, gauge |-> current[d]]]
  /\ UNCHANGED <<current, direction, overlapped, terminated, ended, copyVars, pc, loopVars,
                 failed>>

(* if gauge != nil { gauge.terminate() }, which keeps an error already set; *)
(* a stop is done with that.                                                *)
OnStartNot(g) == terminated
OnStart(g) == terminated \cup ({g} \ {None})
OnStop(g) == terminated \cup ({g} \ {None})
Terminate(r) ==
  /\ request[r].stage = "loaded"
  /\ IF request[r].kind = "start"
     THEN terminated' = OnStart(request[r].gauge) /\ Stage(r, "store")
     ELSE terminated' = OnStop(request[r].gauge) /\ Answered(r)
  /\ UNCHANGED <<current, direction, overlapped, ended, copyVars, pc, loopVars, failed>>

(* A new Gauge takes the place of whatever gauge is there now, which need   *)
(* not be the one that has been terminated ...                              *)
StoreGauge(r) ==
  /\ request[r].stage = "store"
  /\ \E s \in Sessions \ Made :
     /\ \A t \in Sessions \ Made : s <= t
     /\ current' = [current EXCEPT ![request[r].dir] = s]
     /\ direction' = [direction EXCEPT ![s] = request[r].dir]
     /\ request' = [request EXCEPT ![r] =
          [stage |-> "go", kind |-> "start", dir |-> request[r].dir, gauge |-> s]]
     /\ overlapped' = IF \E q \in Requests \ {r} : Replacing(q, request[r].dir)
                      THEN overlapped \cup {s} ELSE overlapped
  /\ UNCHANGED <<terminated, ended, copyVars, pc, loopVars, failed>>

(* ... and its session is started: go ftp(gauge, ...).                      *)
GoFtp(r) ==
  /\ request[r].stage = "go"
  /\ GoTo(request[r].gauge, "dial")
  /\ Answered(r)
  /\ UNCHANGED <<current, direction, overlapped, terminated, ended, copyVars, loopVars, failed>>
-----------------------------------------------------------------------------
(* The session: ftp, with Retrieve or Store *)

(* panice(err): the deferred functions close the client and end the gauge.  *)
Panic(s) == failed' = failed \cup {s} /\ GoTo(s, "close")

(* DialConfig *)
Dial(s) ==
  /\ pc[s] = "dial"
  /\ \/ GoTo(s, "prepare") /\ UNCHANGED failed
     \/ Panic(s)
  /\ UNCHANGED <<requestVars, terminated, ended, copyVars, loopVars>>

(* Retrieve asks for the size and for what the server can resume. Store     *)
(* cannot resume: an FTPData is not an io.Seeker.                           *)
Prepare(s) ==
  /\ pc[s] = "prepare"
  /\ \/ /\ GoTo(s, "transfer")
        /\ IF direction[s] = "download"
           THEN \E can, known \in BOOLEAN :
                  /\ canResume' = [canResume EXCEPT ![s] = can]
                  /\ sizeKnown' = [sizeKnown EXCEPT ![s] = known]
           ELSE UNCHANGED <<canResume, sizeKnown>>
        /\ UNCHANGED failed
     \/ /\ direction[s] = "download"
        /\ Panic(s)
        /\ UNCHANGED <<canResume, sizeKnown>>
  /\ UNCHANGED <<requestVars, terminated, ended, copyVars, bytesSoFar, n>>

(* transferFromOffset returns sent bytes and an error: Retrieve goes on     *)
(* where it is as long as it moves something and can resume.                *)
AddedUnlessFailed(s, sent) == bytesSoFar
Added(s, sent) == [bytesSoFar EXCEPT ![s] = @ + sent]
ResumesAnyway(s, sent) == canResume[s]
Resumes(s, sent) == sent > 0 /\ canResume[s]
TransferFails(s, sent) ==
  /\ bytesSoFar' = Added(s, sent) /\ n' = [n EXCEPT ![s] = 0]
  /\ IF Resumes(s, sent)
     THEN GoTo(s, "transfer") /\ UNCHANGED failed
     ELSE Panic(s)
  /\ UNCHANGED <<canResume, sizeKnown>>

(* It returns without an error: Retrieve compares its count with the size,  *)
(* Store has yet to ask for the size.                                       *)
ShortUnnoticed(s, total) == FALSE
Short(s, total) == sizeKnown[s] /\ total # FileLength
TransferReturns(s) ==
  /\ bytesSoFar' = [bytesSoFar EXCEPT ![s] = @ + n[s]] /\ n' = [n EXCEPT ![s] = 0]
  /\ IF direction[s] = "upload"
     THEN GoTo(s, "verify") /\ UNCHANGED failed
     ELSE IF Short(s, bytesSoFar[s] + n[s])
     THEN Panic(s)
     ELSE GoTo(s, "close") /\ UNCHANGED failed
  /\ UNCHANGED <<canResume, sizeKnown>>

(* transferFromOffset up to the copy.                                       *)
Open(s) ==
  /\ pc[s] = "transfer"
  /\ GoTo(s, "copy")
  /\ UNCHANGED <<requestVars, terminated, ended, copyVars, loopVars, failed>>

OpenFails(s) ==
  /\ pc[s] = "transfer"
  /\ TransferFails(s, 0)
  /\ UNCHANGED <<requestVars, terminated, ended, copyVars>>

(* The most buffers a session moves. FTPData.Read ends an upload at the     *)
(* size of the file; a download takes whatever the server sends.            *)
Most(s) == IF direction[s] = "upload" THEN FileLength ELSE FileLength + Surplus

(* One buffer goes through FTPData.Write or FTPData.Read, and the locked    *)
(* part of progress counts it.                                              *)
Count(s) ==
  /\ pc[s] = "copy"
  /\ bytesSoFar[s] + n[s] < Most(s)
  /\ transBytes' = [transBytes EXCEPT ![s] = @ + 1]
  /\ late' = [late EXCEPT ![s] = @ + (IF s \in terminated THEN 1 ELSE 0)]
  /\ GoTo(s, "check")
  /\ UNCHANGED <<requestVars, terminated, ended, loopVars, failed>>

(* return g.Err, read without the lock. FTPData.Write has taken the buffer  *)
(* whatever it returns. After FTPData.Read the buffer has yet to be written *)
(* to the data connection, which may fail.                                  *)
ReadsErrNot(s) == FALSE
ReadsErr(s) == s \in terminated
Check(s) ==
  /\ pc[s] = "check"
  /\ \E written \in (IF direction[s] = "download" THEN {1} ELSE {0, 1}) :
       IF ReadsErr(s) \/ written = 0
       THEN TransferFails(s, n[s] + written)
       ELSE /\ n' = [n EXCEPT ![s] = @ + 1]
            /\ GoTo(s, "copy")
            /\ UNCHANGED <<bytesSoFar, canResume, sizeKnown, failed>>
  /\ UNCHANGED <<requestVars, terminated, ended, copyVars>>

(* The data connection fails, or the reply after the data is bad or late.   *)
CopyFails(s) ==
  /\ pc[s] = "copy"
  /\ TransferFails(s, n[s])
  /\ UNCHANGED <<requestVars, terminated, ended, copyVars>>

(* The data ends and the server says that it is complete. A server may end  *)
(* a download early; FTPData.Read ends an upload at its size.               *)
CopyEnds(s) ==
  /\ pc[s] = "copy"
  /\ direction[s] = "upload" => bytesSoFar[s] + n[s] = FileLength
  /\ TransferReturns(s)
  /\ UNCHANGED <<requestVars, terminated, ended, copyVars>>

(* Store compares the size of the remote file with what it has sent.        *)
Verify(s) ==
  /\ pc[s] = "verify"
  /\ \/ GoTo(s, "close") /\ UNCHANGED failed
     \/ Panic(s)
  /\ UNCHANGED <<requestVars, terminated, ended, copyVars, loopVars>>

(* client.Close(), g.finish if there was an error, and g.end.               *)
End(s) ==
  /\ pc[s] = "close"
  /\ ended' = ended \cup {s}
  /\ GoTo(s, "done")
  /\ UNCHANGED <<requestVars, terminated, copyVars, loopVars, failed>>
-----------------------------------------------------------------------------
Session(s) ==
  \/ Dial(s) \/ Prepare(s) \/ Open(s) \/ OpenFails(s) \/ Count(s) \/ Check(s)
  \/ CopyFails(s) \/ CopyEnds(s) \/ Verify(s) \/ End(s)

Handle(r) == Terminate(r) \/ StoreGauge(r) \/ GoFtp(r)

Next ==
  \/ \E r \in Requests : Handle(r) \/ \E d \in Directions, k \in {"start", "stop"} : Load(r, d, k)
  \/ \E s \in Sessions : Session(s)

(* The scheduler runs every goroutine, and the session's dials, commands    *)
(* and data reads and writes carry deadlines, so it keeps taking steps.     *)
Fairness == \A s \in Sessions : WF_vars(Session(s))

Spec == Init /\ [][Next]_vars /\ Fairness
-----------------------------------------------------------------------------
TypeOK ==
  /\ current \in [Directions -> Sessions \cup {None}]
  /\ request \in [Requests -> [stage : Stages, kind : {"start", "stop"},
                               dir : Directions, gauge : Sessions \cup {None}]]
  /\ direction \in [Sessions -> Directions]
  /\ terminated \subseteq Sessions /\ ended \subseteq Sessions /\ failed \subseteq Sessions
  /\ transBytes \in [Sessions -> Nat] /\ late \in [Sessions -> Nat]
  /\ pc \in [Sessions -> PCs]
  /\ bytesSoFar \in [Sessions -> 0..(FileLength + Surplus)]
  /\ n \in [Sessions -> 0..(FileLength + Surplus)]
  /\ overlapped \subseteq Sessions
  /\ canResume \in [Sessions -> BOOLEAN] /\ sizeKnown \in [Sessions -> BOOLEAN]

Running(s) == pc[s] \notin {"none", "done"}

(* start and restart in http.go terminate one gauge and replace another,    *)
(* with no lock around the two: a session that runs and is not the one its  *)
(* handler would stop next has been told to stop, with any number of starts *)
(* and stops served at once, unless its gauge was stored while another      *)
(* start of its direction had loaded the gauge before it. Otherwise the     *)
(* session runs on and no request can reach it.                             *)
OnlyCurrentRuns ==
  \A s \in Sessions :
    Running(s) => s \in terminated \/ current[direction[s]] = s \/ s \in overlapped

(* terminate is heard: it costs at most the buffer being counted. Only a    *)
(* download from a server that can resume goes on, because Retrieve takes   *)
(* g.Err for a failed transfer.                                             *)
StopIsHeard == \A s \in Sessions : late[s] <= 1 \/ canResume[s]

(* What status shows is what has been moved: g.TransBytes is Retrieve's own *)
(* count, over all the transfers it takes, but for the buffer in progress;  *)
(* an upload may have counted one more that the connection did not take.    *)
CountAgrees(s) ==
  LET ahead == transBytes[s] - (bytesSoFar[s] + n[s]) IN
  IF direction[s] = "download"
  THEN ahead = IF pc[s] = "check" THEN 1 ELSE 0
  ELSE ahead \in (IF pc[s] = "check" THEN {1} ELSE IF s \in failed THEN {0, 1} ELSE {0})
CountsAgree == \A s \in Sessions : CountAgrees(s)

(* Retrieve "will also verify the file's size": a session that ends without *)
(* an error has moved the whole file, if the server can tell its size.      *)
NoErrorMeansComplete ==
  \A s \in ended \ failed :
    sizeKnown[s] \/ direction[s] = "upload" => bytesSoFar[s] = FileLength

(* Every session ends, and says so: Retrieve resumes only a transfer that   *)
(* has moved something.                                                     *)
SessionsEnd == \A s \in Sessions : pc[s] = "dial" ~> s \in ended
=============================================================================
