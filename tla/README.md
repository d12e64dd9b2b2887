# A formal model of ftp-perf-android

The repository is an FTP speed tester: a vendored and modified `goftp` client, a
session that moves one file over several connections at once and measures it, an
HTTP interface that starts, stops and reports such sessions, a speed test over plain TCP
(and one over HTTP that nothing calls), and a small FTP server to test against. This directory holds TLA+
modules translated from that code, the TLC configurations that check them, and
proofs that TLAPS checks. `PROJECT.json` says which definition models which lines.

## 1. The system

### Components, their state and their operations

| component | source | state | operations |
|---|---|---|---|
| connection pool | `goftp/client.go` | `numConnsPerHost`, `allCons`, `freeConnCh`, `connIdx`, `closed` | `getIdleConn`, `returnConn`, `openConn`, `removeConn`, `OpenRawConn`, `Close` |
| control connection | `goftp/persistent_connection.go` | `broken`, `currentType`, `epsvNotSupported`, `dataConn`, and what the server has of it | `sendCommand`, `readResponse`, `setType`, `requestPassive`, `listenActive`, `prepareDataConn` and its getter, `close` |
| transfers | `goftp/transfer.go` | none of their own: a conversation on a connection | `TransferRangeDownload`, `TransferRangeUpload`, `transferFromOffset`, `size`; `Retrieve` and `Store` repeat them |
| file system operations | `goftp/file_system.go` | none | one-command operations, `Rename`, listings (`dataStringList`), and the parsers of their lines |
| host resolution | `goftp/goftp.go` | the list of addresses | `DialConfig`, `lookupHosts` |
| piece dispatcher | `piece-dispatcher.go` | `start`, under a lock | `slice`, and the loop `transferWorker` |
| gauge | `gauge.go` | counters and flags, mostly under a lock; `FTPData.offset`, without one | `progress`, `start`, `finish`, `end`, `terminate`, `measure`, `FTPLogger.Write`, `FTPData.Read`, `FTPData.Write` |
| sessions | `perf.go` | the gauge the sessions share | `ftpTransfer`, `ftp`, `main` |
| HTTP interface | `http.go` | one gauge per direction | start, restart, stop, status, show |
| HTTP bench | `speedtest-ws.go` | a bounded channel of work | `TopN`, `DownloadBench`, `UploadBench` |
| TCP speed test | `speedtest.go` | two channels | `TestLatency`, `TestDownload`, `TestUpload` and their goroutines |
| FTP server | `driver.go`, `server.go` | `nbClients`, `virtualFile` | callbacks of a server library |
| ping, helpers, set-up, page | `ping.go`, `tools.go`, `perf_linux.go`, `perf_windows.go`, `assets/` | none | |

### How they interact

`ftpTransfer` dials a `Client`, asks for the size, and starts `parallels` goroutines
(`transferWorker`). Each takes a piece from the dispatcher, borrows a connection from
the pool, runs one range transfer on it, gives it back in a `defer`, and asks for the
next piece. The data goes through one `FTPData` that all workers share, which calls
`Gauge.progress`; an error of `progress` (time is up, or the session was terminated)
is how a transfer is stopped. The client's log lines go through `FTPLogger`, which is
how the gauge learns of a 150 and of the login. The HTTP interface runs `ftp` in a
goroutine with a fresh gauge and reads or terminates that gauge from other requests.

### What is hard

* **Concurrency.** The pool is shared by all workers and by `Close`; its counts are
  under a mutex, its channel and its sockets are not. `FTPData.offset` has no lock.
* **An untagged protocol.** An FTP answer says nothing about the question. A reply
  left unread when a connection goes back to the pool is taken by another goroutine
  for the answer to another command. Timeouts, refusals, and an `ABOR` that races the
  end of the transfer (one, two or three answers, in several orders) all lead there.
* **Failure in the middle.** A dial, a login, one of several commands of an operation,
  one of several workers' transfers.
* **Time.** The session's duration ends while transfers run; answers come late.
* **Blocking.** A goroutine waits for a connection that others must send, `wg.Wait`
  waits for every worker, and benches wait on bounded channels.

### What makes each component correct

* Pool: a connection is held by one goroutine at a time; the counts equal what exists;
  no host exceeds its limit; a return never blocks; nothing is leaked when opening
  fails; `Close` misses nothing; a waiting goroutine is eventually served.
* Control connection: an unbroken connection in the pool owes nothing; no command
  takes another's answer; the server starts where the operation asked; what the client
  believes of the server is so.
* Dispatcher and workers: what was handed out is moved, held or given up; pieces do
  not overlap; bytes are counted once; the shared source never runs dry early; the
  workers end, and only at the end of the file or of the time.
* Resume loops: they end; the bytes written are the file's, each once and in order.
* Sessions, gauge and HTTP: a session that is not the current one of its direction has
  been told to stop, unless two starts overlapped; a stop is heard; the count shown is the count moved; success means the
  whole file; sessions end.
* Sessions: workers and main goroutine never block each other for a connection; the client
  is closed after its last use; nothing is left open; the session ends.
* TCP speed test: each size is moved once or cut short by the time; what is reported is what
  came; nobody is left blocked on a channel; the test ends.
* FTP server: the count is that of the clients, and no more are served than allowed.

## 2. Modules

| module | models | state and actions |
|---|---|---|
| `ConnPool` | the pool | One step per critical section, channel operation or network call of one goroutine; `pc` names the place in `getIdleConn`, `openConn` or `Close`. A connection is its index and host; `broken` and `sockets` are the sets of those whose flag is set and whose socket is open. |
| `LeasePool` | what the pool promises | No locks, channels or counters: which goroutine leases which connection. `ConnPool` implements it. |
| `FtpConn` | one control connection, its borrowers and the server | An operation is the list of its stages, read off the functions of `transfer.go` and `file_system.go`; one action per stage. `sent` and `replies` are the wire, `transfer` and `marker` the server's state. `ListenFails` is active mode failing before anything is sent. |
| `PieceDispatcher` | `slice`, `transferWorker`, `FTPData`, and the counting and deadline of the gauge | One step per locked section or per load and store of the unlocked offset. `Borrow` is `getIdleConn`, which may wait without a deadline. The file is a set of positions; `moved` and `lost` record what became of each. |
| `HttpSession` | the handlers of `http.go`, the gauges they make and terminate, `ftp`, and the loops of `Retrieve` and `Store` | A request is loaded, terminated, stored and started step by step (`request`); a session's `pc` names its place in `ftp`, in the loop, or in `progress`, whose count is under the lock and whose `return g.Err` is not. `overlapped` remembers the sessions whose gauge was stored while another start of the same handler was under way. |
| `FtpSession` | `ftpTransfer` from dial to end | The main goroutine and its workers as callers of `ConnPool`, which it extends: each step is one goroutine's step in the pool, or leaves the pool alone. `mainPc` names the place in `ftpTransfer`, `running` is the wait group, `left` counts the pieces `slice` still has. |
| `SpeedTest` | `mainSpeedTest2`: `TestLatency`, then `TestDownload` and `TestUpload` with their workers | `measured` are the servers with a latency; `Choose` lets any server come first. The unbuffered channels are rendezvous: `Send` gives a size to a worker that is `ready`, `handing` are the goroutines blocked on `co`. `late` is the clock, `dead` the failed connections. |
| `FtpServer` | `MainDriver` and `virtualFile` of `driver.go` | One step per callback of the server library; each handler is one client's goroutine. |
| `ResumedTransfer` | `Retrieve` and `Store`, the latter with a source that can seek | The loop's variables, the positions written to `dest` or stored in `remote`, and `wire`, what each broken connection may still deliver. The server is `FtpServer`, or one of its kind that keeps what is stored. |
| `MC...` | instances for TLC | |
| `...Proofs` | theorems and their proofs | |

Definitions named after another one with a suffix (`SentTwice`, `AdvanceShort`, ...)
are seeded bugs: each property of a passing run fails when one of them takes the place
of the definition it is named after.

### What is abstracted

Commands, answers and files are reduced to what the code branches on: an answer is a
code and, for the properties only, the command it answers; an offset is zero or
positive; a file is its positions. The server in `FtpConn` is not in the repository and
is modelled from the answers the code is written for, and any of them may be delayed,
refused or absent: one answer to each command, one more at the end of each accepted
transfer, and three ways to answer `ABOR`. A timeout may strike at any command or wait,
with the answer still on its way. In `PieceDispatcher` a transfer may fail at any point
before or in its data; what happens on its connection then is `FtpConn`'s subject, and
how it gets one is `ConnPool`'s. `HttpSession` takes the transfers of `Retrieve` and
`Store` the same way, counts bytes in buffers of the copy, and starts at what a client
asks of `/v3/download` and `/v3/upload`; its gauges have no duration, so time is never up. Login, TLS and feature negotiation are one step that
works or fails, or, for TLS, absent.

`FtpSession` keeps of a piece only that it is one: which bytes it has is `PieceDispatcher`'s
subject, what its transfer says is `FtpConn`'s. Sessions of one program share a gauge, but
nothing of it decides what a session does except the deadline, which `TimeUp` is. In
`ResumedTransfer` a unit stands for any number of bytes, `SIZE` is answered or not known at
each call, and the end of a broken connection reaches the server after any delay.
`SpeedTest` keeps sums instead of the lists that are only summed (`Total` writes the sum as
the size of a set of units, which a proof can reason about). A download may bring more than
a request asked for, `Surplus` at most, since `Downloader` counts the whole last read; a
`remaining` below 0 ends the loop as 0 does and is kept as 0. Which server is first in the
sorted list is left open: `SortServersByLatency` takes a latency of 0 for neither before nor
after any other, which is no strict weak order, and `sort.Sort` promises nothing then.
`HttpSession` has a `Surplus` as well: a download takes what the server sends, longer than
its `SIZE` or not.

## 3. What TLC checks

| run | instance | shows |
|---|---|---|
| `pool_safety` | 3 goroutines, one may close; 2 hosts, 1 connection each; 2 calls each; opening may fail | exclusive lease, the limit per host, a return that never blocks, no panic, no leaked socket, a complete `Close`; `ConnPool` implements `LeasePool` |
| `pool_duplicates` | 3 goroutines, one closes, one opens raw connections; the same address listed twice, 2 connections for it | `getIdleConn` reaches its panic, "this shouldn't be possible", with the lock held; the counts are exact even then, and raw connections leave them alone; types |
| `pieces` | 3 workers, download and upload, 8 positions, pieces split while more than 5 are left, failures and a timer | accounting, disjointness, nothing skipped, bytes counted once; the source never runs dry or wraps; every worker ends, unless one waits for a connection for ever; types |
| `http_session` | two requests that start, one of which may also stop, served at once, over both directions; 2 sessions, a file of 2 buffers and a server that may send a third; dials, transfers and size checks may fail | a running session is current, told to stop, or one of two overlapping starts; a stop is heard within a buffer; the counts agree; success means the whole file; every session ends |
| `conn_sync` | passive and active mode, six operations in any order, a closing client; programs that resume transfers and programs that do not | in sync when returned, no stale answer; the server starts where it was asked, as long as only range transfers are used |
| `ftp_session` | 1 to 3 workers, a pool of 2 connections, 3 pieces, download and upload, a timer; sessions in which opening may fail, sessions in which it does not | nobody blocks unless there are more workers than connections; the client is closed after its last use; nothing is left running or open; every session ends, except where `pool_lost_wakeup` applies |
| `speed_test` | 3 of 4 servers probed, any of the 4 chosen; 3 workers, sizes 1 and 3 (a request asks for 2) twice each, then 3 twice; answers longer than asked for, connections that fail, time that runs out | the download reported is what came; no size is lost, and an upload counts none twice; no goroutine is left behind; the test ends |
| `served` | a file of 4 units, 3 connections of the client and 1 of another user, 2 clients allowed, both kinds of server, with and without resuming | the server's count and limit; each byte where it belongs; no error means all of them; both loops end |

Runs in which TLC finds the property violated, each a finding in `PROJECT.json`:

| run | what happens |
|---|---|
| `pool_lost_wakeup` | a failed dial frees a slot and wakes nobody: a goroutine waits for good |
| `pieces_no_resume` | a failed piece is not retried: the session ends with a hole in the file |
| `conn_stale_marker` | `REST` accepted and the data connection refused: the next borrower's transfer starts at the old offset |
| `conn_type` | a refused `TYPE` is recorded as set, an accepted one is not |

Two starts of one direction served at once can lose a session: both terminate the same
gauge, each stores a new one, and the session of the first runs where no request can reach
it. `net/http` serves every request in a goroutine of its own, so `http_session` has two
that start; `overlapped` names the sessions concerned, and `OnlyCurrentRuns` says that this
is the only way to lose one. Nothing in the repository promises that it cannot happen, so
it is a hazard of the list and not a finding.
`StopIsHeard` leaves out a download that the server can resume: `Retrieve` takes the
gauge's error for a failed transfer, and goes on with one buffer at a time.

Active mode is "not supported for now", the README of the repository says. In the model the
data connection of active mode may fail to come (`AcceptMayFail`), and then `PoolSync`
fails: the getter's error leaves the transfer's last reply unread on an unbroken
connection. No run has it, and the theorems speak of the connections for which `DataComes`: all in passive
mode, and those in active mode if `AcceptMayFail` is false.

`NeverWaits` is the reason why the command line is safe from `pool_lost_wakeup`: a session
has as many connections as workers, unless its URI asks for more. `CanHang` names the
sessions that do; for them `SessionEnds` claims nothing, since TLC finds that it does not
hold.

`StoredInPlace` and `StoreIsComplete` exclude what `crossed` records: the server answers 0
for the size while bytes of the broken connection are still coming, `STOR` without `REST`
empties the file, and those bytes land behind its end. The hole stays, and `Store` returns
no error. `TransferEnds` lets a `Store` go on for ever only if, again and again, nothing of
what it sends is kept: its idea of progress is what it has sent.

That the server used is the closest one, as a comment in `speedtest.go` has it, is no
property: with an unmeasured server in the list the order is whatever `sort.Sort` makes of
a comparison that is not one, and the program exits if such a server comes first although
others have answered. This stays a hazard without a property.

`WithinLimit` and `CountsClients` speak of the count and not of who keeps a place: a client
that never leaves fills the server, and `TransferEnds` lets a transfer fail for that.

`pool_safety` and `pool_duplicates` declare goroutines with the same role symmetric; the
properties of those runs treat them alike, and none is a liveness property. The panic is
not a property of `pool_duplicates`: the action `ReservePanic` occurs in it, and
`NeverPanics` proves that it cannot when no address is listed twice.

### Bounds, and why they are enough

* `MaxCalls` is the only bound on behaviours in `ConnPool`: the number of methods each
  goroutine calls. Two or three let a connection be opened, broken, returned, received
  broken, dropped and replaced while others wait. With one connection per host and
  more goroutines than connections, every limit is reached in all runs. The runs of
  this module end when the calls are used up or a goroutine waits for good, so deadlock
  is not checked there; `NoStrandedWaiter` and, in `ftp_session`, `NeverWaits` and
  `SessionEnds` say what waiting is wrong.
* `FtpConn` needs no bound: a connection's operations repeat for ever over a finite
  state space. At most three replies are ever on the way.
* `HttpSession`: `MaxSessions` is the number of sessions ever started (`SessionsLeft` keeps
  one for each start under way), and `Surplus` what a server sends too much; two sessions let a session
  be superseded while it runs, be lost, or run beside one of the other direction. A file of
  two buffers lets a transfer fail with and without progress, resume once, and be stopped
  before, between and during its buffers. Requests repeat without a bound.
* `FtpSession`: three pieces for three workers and two connections: each worker can have one,
  and a worker can come back while others wait or fail. The calls need no bound of their own,
  since there is one for each piece. A session ends, so deadlock is not checked: that it
  ends is a property.
* `SpeedTest`: the constants of the code are 8 workers, 4 repeats, ten and seven sizes; three
  workers for two repeats of two sizes let one worker take none, one or several, and a
  size take one or two requests; `Surplus` of one unit lets a request of the last unit bring
  two. Deadlock is not checked since the program ends; that it
  does is `TestEnds`.
* `ResumedTransfer`: four units let a transfer fail twice with progress and once without. Three
  connections are more than the server allows together with another user.
* `PieceDispatcher`: eight positions with a threshold of five give pieces of more than one
  size for three workers, the unsplit last piece, and the division that rounds down.
  `Word` is the width of unsigned
  arithmetic: 16 stands for 2^64, large enough for the file and small enough that a
  wrap would happen.

### Fairness

`ConnPool`, `PieceDispatcher` and `HttpSession` assume weak fairness of each started
goroutine's own steps (of sessions, not of requests, in the last): Go runs every runnable goroutine, and every dial, command, and read or write of
a data connection carries a deadline (`Config.Timeout`), so each ends, well or not. No
fairness is assumed of what a caller chooses (to call, to close) nor of success: no run
relies on a dial working. In `PieceDispatcher` the step `Borrow` is not fair: `getIdleConn`
receives from its channel without a deadline, and `pool_lost_wakeup` shows that it can wait
for good. `WorkersFinish` therefore promises an end only where no worker waits for ever;
`SessionEnds` says in which sessions none does. `FtpSession` assumes the same of its goroutines, and not that the timer
fires. `ResumedTransfer` assumes it of the client only: the server and other users do as
they like. `SpeedTest` assumes that time passes, and that reads and writes return: its
connections have no deadline, so a server that falls silent hangs the test. `FtpConn`
states no liveness.

## 4. What is proved

TLAPS proves the following for every value of the constants.

* `ConnPoolProofs`: for any goroutines, hosts and limits, `TypeOK`, `ExclusiveLease`,
  `CountExact`, `HostLimit`, `ReturnNeverBlocks`, `ClosedMeansClosed`; and, when no
  address is listed twice, `NoPanic` and the refinement of `LeasePool`.
  The inductive invariant `LeaseInv` adds to these that an index is never used twice
  (`Fresh`: without it a new connection could equal one in the channel), that only a
  pooled connection is in the pool's hands, and that counts stay in range. Steps fall
  into five kinds: receive, return, reserve, release, and those that move no counted
  connection; one lemma per kind carries the cardinalities. `ReturnNeverBlocks` follows
  because the connections counted, one of them not in the channel, number at most
  `Len(Hosts) * ConnectionsPerHost`. `CloseInv` says of each open pooled socket that it
  is registered, about to be closed, or still being opened.
* `ConnPoolHandsProofs`, also for any constants: `NoOrphanSocket`, with an invariant that
  follows who has which raw connection and that a connection not yet dialled has no socket;
  `NoLeak`, since a bijection takes each counted connection to its slot; and, for finitely
  many goroutines, that nobody ever blocks while no more of them are in methods of the
  client than it may have connections (`FewNeverWait`). The last is the general reason
  behind `NeverWaits`: an idle connection that is not taken leaves room for one to be
  opened, which `RoomInv` counts.
* `PieceDispatcherProofs`: for any number of workers and any file, threshold, buffer and
  word, `TypeOK`, `Accounted`, `Disjoint`, `CountedOnce` and `SourceNeverDry`; and
  `NothingSkipped` when `2 * Parallels <= Threshold + 1` (in the code, at most 65536
  workers: with more, `sz / 2 / parallels` can be 0 with bytes left). `PieceInv` gives
  every position below `start` exactly one owner, and bounds the racing offset: what it
  says has been read, together with the updates in flight, never exceeds what has been
  moved.
* `HttpSessionProofs`: for any requests, sessions and file length, `TypeOK`, `StopIsHeard`,
  `CountsAgree`, `NoErrorMeansComplete` and `OnlyCurrentRuns`. `LoopInv` says what each session keeps by itself, whatever the requests
  do: where its count may be ahead, that a count left over from a failed transfer is always
  folded into `bytesSoFar`, and that the one buffer counted after a stop leaves the session
  about to fail. `GoOK` keeps the gauges of requests about to start a session distinct and
  unused, and `ReachInv` says that a request between its load and its store still holds the
  current gauge, unless that gauge has itself overlapped a start.
* `FtpConnProofs`: for any set of operations, `TypeOK` in both modes and whatever fails; and,
  for every connection in passive mode, or in active mode if promised data connections come
  (`DataComes`), `PoolSync` and `NoStaleAnswer`. `ConnInv` counts what the
  server owes at each stage: nothing between commands, one answer after a command, two
  after a transfer command that was accepted, and after `ABOR` two, or three in the order
  the upload knows. `PoolSync` alone is not inductive, since it says nothing of the stages
  in between. And `RangeStartsAtOffset`, by `MarkerInv`: in a program that does not resume
  transfers the server's marker is zero except between its answer to `REST` and its answer
  to the `RETR` or `STOR` of the same operation. It rests on `ConnInv`, since only a
  connection in sync tells which command a step of the server answers.
* `FtpSessionProofs`: for any number of workers, pieces, hosts and connections per host,
  `SessionTypeOK`, `NeverWaits`, `ClosedWhenUnused` and `EndedLeavesNothing`. Every step of a
  session is a step of the pool or leaves it alone (`SessionStep`), so the pool's
  invariants hold of it as they are (`SessionUsesPool`), and with distinct addresses so does
  the refinement of `LeasePool` (`SessionLeases`). `PhaseInv` adds who may be inside a method
  of the client at each place of `ftpTransfer`: the main goroutine or its workers, never
  both. From this follows that no more goroutines are inside than the pool may have
  connections, which is what the pool's `RoomInv` asks for, and that `Close` has nobody
  beside it, so that what `CloseInv` excuses does not exist when the session has ended.
* `SpeedTestProofs`: for any numbers of workers, repeats and sizes, `TypeOK`,
  `NobodyLeftBehind`, `DownloadIsWhatCame` and `MovesWhatWasAskedFor`. `SizesInv` follows each
  unit of the sizes sent: while there is time none is missing from `totalSize`, the lists not
  yet received and what is left to the workers, and in an upload these hold no more.
  `DownloadInv` does the same for what came. `PhaseInv` says whose lists are still to be
  received. The lemmas about `Total` (`TotalAdd`, `TotalUpdate`, ...)
  stand for the induction over a finite set that the prover does not have.
* `ResumedTransferProofs`: for any number of clients and connections, and any length of the
  file, `TypeOK`, and all safety properties of `served`: `CountsClients`, `WithinLimit`,
  `DestIsPrefix`, `RetrieveIsComplete`, `StoredInPlace` and `StoreIsComplete`. `WireInv`
  says that what is still on the way to a handler continues where the handler is and ends
  no later than the source does; `FileInv` that no handler writes behind the end of the
  file unless it was emptied under one (`crossed`), and that `Store` goes on from no
  further than that end. Without the first, a late byte could be any; without the second,
  it could leave a gap.

The assumptions on constants are `PoolAssumption`, `DispatcherAssumption`,
`HttpAssumption`, `ConnAssumption`, `TransferAssumption`, `SessionAssumption` and
`SpeedTestAssumption`; TLC evaluates them in every run of their modules.
`TypeOK` is checked in `pieces` and `pool_duplicates`, and proved for every component that
has one.

Only model-checked: the liveness properties (`WorkersFinish`, `SessionsEnd`, `SessionEnds`,
`TestEnds`, `TransferEnds`), since fairness and `ENABLED` are beyond the prover. Every safety
property of a passing run is proved. Where a run of TLC and a theorem differ, the theorem
says so: `NothingSkipped` needs a bound on the workers,
`NoPanic` and the refinements distinct addresses, and `PoolSync`, `NoStaleAnswer` and
`RangeStartsAtOffset` that promised data connections come.

## 5. Plan

In this order; done so far are 1 to 8.

1. `ConnPool`, `LeasePool`: the pool, its promise, and the refinement. Done.
2. `PieceDispatcher`: pieces, workers, the unlocked offset. Done.
3. `FtpConn`: the conversation, in sync across borrowers. Done.
4. `HttpSession`: `http.go`, `ftp`, the gauges, and the loops of `Retrieve` and `Store` as
   `ftp` calls them. Done.
5. `FtpSession`: `ftpTransfer` over `ConnPool`: more workers than connections, `wg.Wait` and
   the deferred `Close`. Done.
6. `SpeedTest`: the coordinator, its workers and their channels. Done.
7. `FtpServer` and `ResumedTransfer`: `Store` with a source that can seek and `Retrieve`, over
   connections that break, against the built-in server and one that stores. Done.
8. Proofs of every safety property of the passing runs. Done.
9. Left: what holds of `FtpConn` where `DataComes` does not, namely that only a getter's error
   puts a connection out of sync.

## 6. Not modelled

* `speedtest-ws.go`, the bench over HTTP: nothing calls `mainSpeedTest`; the method `speedtest`
  runs `mainSpeedTest2` of `speedtest.go`.
* In `speedtest.go`, the configuration, the list of servers and the printing and sharing of
  the result: HTTP requests, documents and formats. In the upload test the bytes counted
  are those asked for, sent or not.
* `ping.go` calls one library function; `tools.go` reads decoded JSON; `perf_linux.go` and
  `perf_windows.go` hold one handler each; the parsers of `file_system.go` turn a line into a
  record; `parseURI`, flags and host resolution are configuration.
* Under `assets/` there are two pages that poll `status`, and `echarts.js`, `shine.js` and
  `dark.js`, a vendored chart library and two of its themes. They hold no logic of this
  program, which is written in Go.
* The FTP server library behind `driver.go` is not in the repository: its calls of the driver
  are.
* Rates, `Permillage` and the bandwidth table of the gauge: arithmetic on the clock. Several
  sessions that share a gauge write `StartTime`, `Ended` and `FileLength` over each other,
  which shows in printed figures only.
* `controlStringList` tests the code and not the error of its command, so a broken connection
  is reported as an answer with code 0: a wording.
* The sockets that a refused transfer abandons are closed by Go's finalizer at a time the
  program cannot see, so no property speaks of them.
