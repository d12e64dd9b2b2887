----------------------------- MODULE FtpSession -----------------------------
(***************************************************************************)
(* One transfer session from dial to end (perf.go ftpTransfer): the main   *)
(* goroutine dials a Client, asks for the size through its pool, starts    *)
(* parallels workers, waits for them and closes the client. Each worker    *)
(* takes pieces as long as there are some and moves each over a connection *)
(* of the pool (piece-dispatcher.go transferWorker). The pool is the one   *)
(* of ConnPool, which this module extends: every step of the session is a  *)
(* step of one goroutine in the pool, or leaves the pool alone. The pieces *)
(* are only counted here, PieceDispatcher says which bytes they are.       *)
(*                                                                         *)
(* The pool is dimensioned by the flag -parallels (perf.go:61), while the  *)
(* number of workers may come from the URI (parseURI, perf.go:40).         *)
(*                                                                         *)
(* Definitions named after another one with a suffix are seeded bugs, used *)
(* to see that the properties below notice them.                           *)
(***************************************************************************)
EXTENDS ConnPool

CONSTANTS
  MaxParallels,  \* bound: the parallels a URI may ask for
  Methods,       \* config.method or the URI's: "download", "upload"
  Pieces         \* bound: the pieces slice hands out before the file ends

Main == 0
TransferWorkers == 1..MaxParallels

(* The client's goroutines are those of the session. ConnectionsPerHost is  *)
(* the flag. No goroutine is kept from a call: it makes one for each piece, *)
(* the main goroutine two.                                                  *)
ASSUME SessionAssumption ==
  /\ MaxParallels \in Nat \ {0}
  /\ Methods \subseteq {"download", "upload"}
  /\ Pieces \in Nat
  /\ Workers = {Main} \cup TransferWorkers
  /\ Closers = {Main} /\ RawUsers = {}
  /\ OpenMayFail
  /\ MaxCalls >= Pieces + 2

VARIABLES
  method,       \* the session's method
  parallels,    \* how many workers it starts
  openMayFail,  \* whether opening a connection can fail in this session
  mainPc,       \* where ftpTransfer is
  sizeOk,       \* whether client.Size returned a size
  running,      \* the workers that have not left transferWorker
  left,         \* how many pieces slice can still hand out
  timed         \* a 150 has started the session's timer

choice == <<method, parallels, openMayFail>>
work   == <<running, left, timed>>
pool   == vars
sessionVars == <<choice, mainPc, sizeOk, work, pool>>
-----------------------------------------------------------------------------
SessionInit ==
  /\ method \in Methods
  /\ parallels \in 1..MaxParallels
  /\ openMayFail \in BOOLEAN
  /\ mainPc = "dial" /\ sizeOk = FALSE
  /\ running = {} /\ left = Pieces /\ timed = FALSE
  /\ Init

(* A step of goroutine g inside a method of the client.                     *)
InPool(g) ==
  /\ Step(g)
  /\ openMayFail \/ pc'[g] # "openFailed"

Back(g) == pc[g] = "idle"
-----------------------------------------------------------------------------
(* ftpTransfer *)

(* goftp.DialConfig only resolves the host. Its error panics before the     *)
(* client.Close is deferred.                                                *)
Dial ==
  /\ mainPc = "dial"
  /\ \/ mainPc' = IF method = "upload" THEN "start" ELSE "size"
     \/ openMayFail /\ mainPc' = "ended"
  /\ UNCHANGED <<choice, sizeOk, work, pool>>

(* client.Size(file)                                                        *)
Size ==
  /\ mainPc = "size"
  /\ Call(Main)
  /\ mainPc' = "sizing"
  /\ UNCHANGED <<choice, sizeOk, work>>

(* Only a connection that was obtained can tell the size.                   *)
Sizing ==
  /\ mainPc = "sizing"
  /\ InPool(Main)
  /\ IF pc[Main] = "using" THEN sizeOk' \in BOOLEAN ELSE UNCHANGED sizeOk
  /\ UNCHANGED <<choice, mainPc, work>>

(* panice(err): an error goes straight to the deferred client.Close().      *)
Sized ==
  /\ mainPc = "sizing" /\ Back(Main)
  /\ mainPc' = IF sizeOk THEN "start" ELSE "close"
  /\ UNCHANGED <<choice, sizeOk, work, pool>>

(* The loop that starts the workers. Nothing happens between two of them    *)
(* that a late first step of the second could not also explain.             *)
StartWorkersWhileSizing ==
  /\ mainPc = "sizing"
  /\ running' = 1..parallels
  /\ mainPc' = "wait"
  /\ UNCHANGED <<choice, sizeOk, left, timed, pool>>

StartWorkers ==
  /\ mainPc = "start"
  /\ running' = 1..parallels
  /\ mainPc' = "wait"
  /\ UNCHANGED <<choice, sizeOk, left, timed, pool>>

(* wg.Wait()                                                                *)
WaitedForOne == \E w \in 1..parallels : w \notin running
Waited == running = {}

(* client.Close(), deferred: everything before it is over.                  *)
Close ==
  /\ \/ mainPc = "wait" /\ Waited
     \/ mainPc = "close"
  /\ CloseBegin(Main)
  /\ mainPc' = "closing"
  /\ UNCHANGED <<choice, sizeOk, work>>

Shutting ==
  /\ mainPc = "closing"
  /\ InPool(Main)
  /\ UNCHANGED <<choice, mainPc, sizeOk, work>>

(* g.end("session ends"), the last deferred call.                           *)
End ==
  /\ mainPc = "closing" /\ Back(Main)
  /\ mainPc' = "ended"
  /\ UNCHANGED <<choice, sizeOk, work, pool>>
-----------------------------------------------------------------------------
(* transferWorker *)

(* slice hands out a piece, and the worker calls the transfer method.       *)
NextPiece(w) ==
  /\ w \in running /\ Back(w)
  /\ left > 0
  /\ left' = left - 1
  /\ Call(w)
  /\ UNCHANGED <<choice, mainPc, sizeOk, running, timed>>

(* The method, whose error the worker ignores. Its 150 starts the timer.    *)
Transfer(w) ==
  /\ w \in running
  /\ InPool(w)
  /\ IF pc[w] = "using" THEN timed' \in {timed, TRUE} ELSE UNCHANGED timed
  /\ UNCHANGED <<choice, mainPc, sizeOk, running, left>>

(* slice returns sz = 0, and wg.Done() runs.                                *)
WorkerDone(w) ==
  /\ w \in running /\ Back(w)
  /\ left = 0
  /\ running' = running \ {w}
  /\ UNCHANGED <<choice, mainPc, sizeOk, left, timed, pool>>

(* The duration is over: slice hands out nothing any more.                  *)
TimeUp ==
  /\ timed /\ left > 0
  /\ left' = 0
  /\ UNCHANGED <<choice, mainPc, sizeOk, running, timed, pool>>
-----------------------------------------------------------------------------
MainStep ==
  Dial \/ Size \/ Sizing \/ Sized \/ StartWorkers \/ Close \/ Shutting \/ End

WorkerStep(w) == NextPiece(w) \/ Transfer(w) \/ WorkerDone(w)

SessionNext == MainStep \/ (\E w \in TransferWorkers : WorkerStep(w)) \/ TimeUp

(* Every goroutine that can run is run, and every operation on the network  *)
(* ends by its deadline. Whether the timer fires is left open.              *)
SessionFairness ==
  WF_sessionVars(MainStep) /\ \A w \in TransferWorkers : WF_sessionVars(WorkerStep(w))

SessionSpec == SessionInit /\ [][SessionNext]_sessionVars /\ SessionFairness
-----------------------------------------------------------------------------
SessionTypeOK ==
  /\ TypeOK
  /\ method \in Methods /\ parallels \in 1..MaxParallels
  /\ openMayFail \in BOOLEAN /\ sizeOk \in BOOLEAN /\ timed \in BOOLEAN
  /\ mainPc \in {"dial", "size", "sizing", "start", "wait", "close", "closing", "ended"}
  /\ running \subseteq TransferWorkers
  /\ left \in 0..Pieces

(* perf.go:61 gives the pool as many connections as the flag has parallels: *)
(* unless the URI asks for more, no worker ever blocks for a connection,    *)
(* though the main goroutine opened one first, connections break and are    *)
(* replaced, and dials fail.                                                *)
NeverWaits == parallels <= ConnectionsPerHost => NobodyWaits

(* With more workers than connections some do block: then a slot that a     *)
(* failed dial gives back wakes nobody, and the session can hang.           *)
CanHang == openMayFail /\ parallels > ConnectionsPerHost

(* defer order and wg.Wait: the client is closed when no goroutine is in    *)
(* one of its methods any more, ...                                         *)
ClosedWhenUnused == closed => \A w \in TransferWorkers : pc[w] = "idle"

(* ... and "session ends" is true: no worker is left, and no control        *)
(* connection that the session opened is still open, whatever failed on the *)
(* way. Data connections are not meant: a refused transfer abandons one.    *)
EndedLeavesNothing == mainPc = "ended" => running = {} /\ sockets = {}

(* ftpTransfer returns, whatever fails or breaks.                           *)
SessionEnds == ~CanHang => <>(mainPc = "ended")
=============================================================================
