--------------------------- MODULE PieceDispatcher ---------------------------
(***************************************************************************)
(* A multi-connection transfer of one file (perf.go ftpTransfer,           *)
(* piece-dispatcher.go): the workers take pieces of the file from a        *)
(* PieceDispatcher, move each over a connection of its own, and feed the   *)
(* gauge through the FTPData they share. FTPData.offset has no lock: its   *)
(* loads and stores are steps of their own here.                           *)
(*                                                                         *)
(* Definitions named after another one with a suffix are seeded bugs, used *)
(* to see that the properties below notice them.                           *)
(***************************************************************************)
EXTENDS Integers, FiniteSets, FiniteSetsExt

CONSTANTS
  Workers,     \* the goroutines running transferWorker; there are pd.parallels
  Methods,     \* the values of config.method: "download", "upload"
  FileLength,  \* pd.fileLength, and FTPData.size
  Threshold,   \* the size below which a piece is not split: 128<<10
  Chunk,       \* the buffer of io.CopyN: most bytes one Read or Write moves
  Word,        \* unsigned arithmetic is modulo this: 2^64
  HasDeadline, \* whether the session has a duration (g.duration > 0)
  MayFail      \* whether a transfer can fail

Parallels == Cardinality(Workers)

ASSUME DispatcherAssumption ==
  /\ IsFiniteSet(Workers) /\ Workers # {}
  /\ Methods \subseteq {"download", "upload"} /\ Methods # {}
  /\ FileLength \in Nat /\ Threshold \in Nat
  /\ Chunk \in Nat \ {0}
  /\ Word \in Nat /\ FileLength < Word
  /\ HasDeadline \in BOOLEAN /\ MayFail \in BOOLEAN

VARIABLES
  method,      \* config.method of the session
  start,       \* pd.start
  started,     \* g.timeSessionStart is set: the server has answered 150 once
  timeUp,      \* g.isTimeUp()
  transBytes,  \* g.TransBytes
  offset,      \* FTPData.offset
  pc,          \* where each worker is
  pos,         \* the next position of the file the worker moves
  end,         \* the end of the worker's piece
  chunk,       \* what the Read or Write in progress moves
  reg,         \* the value of FTPData.offset a Read has loaded to add to
  moved,       \* the positions that have gone through FTPData
  lost         \* the positions of pieces whose transfer ended early

workVars  == <<pc, pos, end>>
readVars  == <<offset, chunk, reg>>
countVars == <<transBytes, moved>>
vars == <<method, start, started, timeUp, transBytes, offset, pc, pos, end, chunk,
          reg, moved, lost>>
-----------------------------------------------------------------------------
PCs == {"slice", "borrow", "open", "moving", "bump", "store", "done"}
Positions == 0..(FileLength - 1)
Span(a, b) == a..(b - 1)
Rest(w) == Span(pos[w], end[w])

(* Unsigned arithmetic.                                                     *)
Minus(a, b) == (a - b) % Word
Plus(a, b) == (a + b) % Word

(* How much of the left bytes slice hands out.                              *)
PieceSizeAlwaysSplit(left) == (left \div 2) \div Parallels
PieceSizeRoundUp(left) == ((left \div 2) \div Parallels) + 1
PieceSize(left) ==
  IF left > Threshold /\ Parallels > 1 THEN (left \div 2) \div Parallels ELSE left

(* pd.start = begin + sz                                                    *)
AdvanceNot(begin, sz) == begin
AdvanceShort(begin, sz) == Plus(begin, (sz + 1) \div 2)
AdvanceTooFar(begin, sz) == Plus(begin, IF begin + sz < FileLength THEN sz + 1 ELSE sz)
Advance(begin, sz) == Plus(begin, sz)

(* left := f.size - f.offset                                                *)
Left == Minus(FileLength, offset)

Init ==
  /\ method \in Methods
  /\ start = 0
  /\ started = FALSE /\ timeUp = FALSE
  /\ transBytes = 0 /\ offset = 0
  /\ pc = [w \in Workers |-> "slice"]
  /\ pos = [w \in Workers |-> 0] /\ end = [w \in Workers |-> 0]
  /\ chunk = [w \in Workers |-> 0] /\ reg = [w \in Workers |-> 0]
  /\ moved = {} /\ lost = {}

GoTo(w, label) == pc' = [pc EXCEPT ![w] = label]
-----------------------------------------------------------------------------
(* pd.slice(), under pd.lock                                                *)
Slice(w) ==
  /\ pc[w] = "slice" /\ ~timeUp
  /\ LET sz == PieceSize(Minus(FileLength, start)) IN
     /\ pos' = [pos EXCEPT ![w] = start]
     /\ end' = [end EXCEPT ![w] = Plus(start, sz)]
     /\ start' = Advance(start, sz)
     /\ GoTo(w, IF sz > 0 THEN "borrow" ELSE "done")
  /\ UNCHANGED <<method, started, timeUp, readVars, countVars, lost>>

(* The timer has fired: slice returns (pd.fileLength, 0).                   *)
SliceTimeUp(w) ==
  /\ pc[w] = "slice" /\ timeUp
  /\ pos' = [pos EXCEPT ![w] = FileLength]
  /\ end' = [end EXCEPT ![w] = FileLength]
  /\ GoTo(w, "done")
  /\ UNCHANGED <<method, start, started, timeUp, readVars, countVars, lost>>

(* client.getIdleConn() in TransferRangeDownload or TransferRangeUpload. It *)
(* may wait for a connection that another worker returns, with no deadline. *)
Borrow(w) ==
  /\ pc[w] = "borrow"
  /\ GoTo(w, "open")
  /\ UNCHANGED <<method, start, started, timeUp, pos, end, readVars, countVars, lost>>

(* The transfer on that connection up to the server's 150, which FTPLogger  *)
(* reports to g.start.                                                      *)
Open(w) ==
  /\ pc[w] = "open"
  /\ started' = TRUE
  /\ GoTo(w, "moving")
  /\ UNCHANGED <<method, start, timeUp, pos, end, readVars, countVars, lost>>

(* transferWorker ignores what the transfer returned and asks for another   *)
(* piece: what is left of this one is never moved.                          *)
GiveUp(w, a) == lost \cup Span(a, end[w])

(* The transfer fails: no connection can be opened for it, or it breaks     *)
(* before its 150 or in the middle of the data.                             *)
Fail(w) ==
  /\ MayFail
  /\ pc[w] \in {"borrow", "open", "moving"}
  /\ lost' = GiveUp(w, pos[w])
  /\ GoTo(w, "slice")
  /\ UNCHANGED <<method, start, started, timeUp, pos, end, readVars, countVars>>

(* After n bytes have gone through FTPData: g.progress counts them, and     *)
(* fails the transfer when the time is up. io.CopyN goes on until it has    *)
(* moved the whole piece.                                                   *)
Progress(w, n) ==
  LET next == pos[w] + n IN
  /\ transBytes' = Plus(transBytes, n)
  /\ moved' = moved \cup Span(pos[w], next)
  /\ pos' = [pos EXCEPT ![w] = next]
  /\ IF timeUp
     THEN lost' = GiveUp(w, next) /\ GoTo(w, "slice")
     ELSE UNCHANGED lost /\ GoTo(w, IF next < end[w] THEN "moving" ELSE "slice")

(* FTPData.Write. Nothing reads offset in a download.                       *)
Write(w) ==
  /\ method = "download"
  /\ pc[w] = "moving"
  /\ \E n \in 1..Min({Chunk, end[w] - pos[w]}) : Progress(w, n)
  /\ UNCHANGED <<method, start, started, timeUp, readVars, end>>

(* FTPData.Read: left := f.size - f.offset; io.CopyN asks for as much as    *)
(* its buffer and the piece allow. No bytes left is io.EOF.                 *)
Read(w) ==
  /\ method = "upload"
  /\ pc[w] = "moving"
  /\ LET n == Min({Chunk, end[w] - pos[w], Left}) IN
     \/ /\ n > 0
        /\ chunk' = [chunk EXCEPT ![w] = n]
        /\ GoTo(w, "bump")
        /\ UNCHANGED lost
     \/ /\ n = 0
        /\ lost' = GiveUp(w, pos[w])
        /\ GoTo(w, "slice")
        /\ UNCHANGED chunk
  /\ UNCHANGED <<method, start, started, timeUp, pos, end, offset, reg, countVars>>

(* f.offset += uint64(n): the load, ...                                     *)
Bump(w) ==
  /\ pc[w] = "bump"
  /\ reg' = [reg EXCEPT ![w] = offset]
  /\ GoTo(w, "store")
  /\ UNCHANGED <<method, start, started, timeUp, pos, end, offset, chunk, countVars, lost>>

(* ... and the store, with g.progress. No code reads both offset and what   *)
(* progress updates, so the two are one step.                               *)
StoredTwice(w) == Plus(reg[w], 2 * chunk[w])
Stored(w) == Plus(reg[w], chunk[w])
Store(w) ==
  /\ pc[w] = "store"
  /\ offset' = Stored(w)
  /\ Progress(w, chunk[w])
  /\ UNCHANGED <<method, start, started, timeUp, end, chunk, reg>>

(* The duration counts from the first 150.                                  *)
Expire ==
  /\ HasDeadline /\ started /\ ~timeUp
  /\ timeUp' = TRUE
  /\ UNCHANGED <<method, start, started, workVars, readVars, countVars, lost>>

AllDone == \A w \in Workers : pc[w] = "done"

(* wg.Wait() returns in ftpTransfer.                                        *)
Finished == AllDone /\ UNCHANGED vars
-----------------------------------------------------------------------------
Step(w) ==
  \/ Slice(w) \/ SliceTimeUp(w) \/ Open(w) \/ Write(w)
  \/ Read(w) \/ Bump(w) \/ Store(w)

Next == (\E w \in Workers : Borrow(w) \/ Step(w) \/ Fail(w)) \/ Expire \/ Finished

(* A worker that has a connection goes on: the scheduler runs it, and every *)
(* command and every read or write of a data connection carries a deadline  *)
(* after which it fails. Nothing makes getIdleConn return, and that the     *)
(* transfer fails, or the timer fires, is not promised either.              *)
Fairness == \A w \in Workers : WF_vars(Step(w) \/ (pc[w] # "borrow" /\ Fail(w)))

Spec == Init /\ [][Next]_vars /\ Fairness
-----------------------------------------------------------------------------
TypeOK ==
  /\ method \in Methods
  /\ start \in 0..(Word - 1)
  /\ started \in BOOLEAN /\ timeUp \in BOOLEAN
  /\ transBytes \in 0..(Word - 1) /\ offset \in 0..(Word - 1)
  /\ pc \in [Workers -> PCs]
  /\ pos \in [Workers -> Nat] /\ end \in [Workers -> Nat]
  /\ chunk \in [Workers -> Nat] /\ reg \in [Workers -> Nat]
  /\ moved \subseteq Positions /\ lost \subseteq Positions

Transferring(w) == pc[w] \in {"borrow", "open", "moving", "bump", "store"}
InHand == UNION {Rest(w) : w \in {v \in Workers : Transferring(v)}}

(* slice: what has been handed out lies inside the file, and every byte of  *)
(* it is accounted for: moved, in a worker's hands, or given up.            *)
Accounted ==
  /\ start <= FileLength
  /\ Span(0, start) = moved \cup lost \cup InHand

(* The pieces do not overlap: no byte is in the hands of two workers, nor   *)
(* of one worker after having been moved or given up.                       *)
Disjoint ==
  /\ \A v, w \in Workers :
       Transferring(v) /\ Transferring(w) /\ v # w => Rest(v) \cap Rest(w) = {}
  /\ InHand \cap (moved \cup lost) = {}
  /\ moved \cap lost = {}

(* g.TransBytes counts every byte once, whatever the workers' order, so     *)
(* g.Permillage never passes 1000.                                          *)
CountedOnce == transBytes = Cardinality(moved)

(* FTPData.Read under the race on offset: the stale and lost updates of the *)
(* workers never make f.size - f.offset wrap, nor leave less than the piece *)
(* still needs. The reader never meets io.EOF before its piece is complete. *)
SourceNeverDry ==
  \A w \in Workers : Transferring(w) => Left >= end[w] - pos[w]

(* slice stops the workers with sz = 0, which integer division can also     *)
(* produce: unless the time is up, they stop only when the whole file has   *)
(* been handed out.                                                         *)
NothingSkipped == AllDone /\ ~timeUp => start = FileLength

(* wg.Wait() in ftpTransfer returns, unless some worker waits for a         *)
(* connection for ever: slices, short pieces, failures and the timer always *)
(* bring every other worker out of its loop. When getIdleConn can block for *)
(* good is the pool's matter (NoStrandedWaiter, CanHang).                   *)
WorkersFinish == (\A w \in Workers : []<>(pc[w] # "borrow")) => <>AllDone

(* README: "FTP下载或者上传均支持断点续传", downloads and uploads are      *)
(* resumed after a failure: a session that ends before its time has moved   *)
(* the whole file.                                                          *)
ResumesFailedPieces == AllDone /\ ~timeUp => moved = Positions
=============================================================================
