------------------------------ MODULE SpeedTest ------------------------------
(***************************************************************************)
(* The TCP speed test (speedtest.go mainSpeedTest2): TestLatency probes    *)
(* the closest servers and chooses one; TestDownload and then TestUpload   *)
(* start workers that take sizes from an unbuffered channel, move as many  *)
(* bytes each, and hand in what they moved over a second channel when the  *)
(* first is closed.                                                        *)
(*                                                                         *)
(* Sizes are in units of which a request asks for a few. What a worker     *)
(* hands in is a list that is only ever summed: its sum is kept here.      *)
(*                                                                         *)
(* Definitions named after another one with a suffix are seeded bugs, used *)
(* to see that the properties below notice them.                           *)
(***************************************************************************)
EXTENDS Integers, Sequences, FiniteSets, FiniteSetsExt

CONSTANTS
  Workers,    \* the goroutines of one test: 8 in the code
  Sizes,      \* for each test, the list sizes of its coordinator
  Repeats,    \* how often each size is sent: 4 in the code
  MaxAsk,     \* for each test, the most one request asks for
  Surplus,    \* the most the last read of a download brings beyond its request:
              \* its buffer takes 1024 bytes whatever is left to come
  NumServers, \* len(s.Servers)
  Closest     \* how many servers are probed: 5 in the code

Tests == {"download", "upload"}

ASSUME SpeedTestAssumption ==
  /\ IsFiniteSet(Workers) /\ Workers # {}
  /\ \A t \in Tests : Sizes[t] \in Seq(Nat \ {0}) /\ MaxAsk[t] \in Nat \ {0}
  /\ Repeats \in Nat \ {0} /\ Surplus \in Nat
  /\ NumServers \in Nat \ {0} /\ Closest \in Nat \ {0}

VARIABLES
  measured,   \* the servers with a Latency, by their place in the list
  mainPc,     \* where mainSpeedTest2 is
  test,       \* the running test
  next,       \* how many sizes TestDownload or TestUpload has sent
  late,       \* time.Since(start) has reached the length of the test
  pc,         \* where each worker is
  dead,       \* the workers whose connection has failed
  remaining,  \* what is left of the size a worker has received
  out,        \* the sum of each worker's list out
  handing,    \* the goroutines that hold a list for co
  totalSize,  \* totalSize of the running test
  received,   \* how many lists it has received
  moved       \* what has really gone over the connections of the running test

choosing == <<measured, test>>
sending  == <<next, late>>
working  == <<pc, dead, remaining, out>>
summing  == <<handing, totalSize, received>>
vars == <<choosing, mainPc, sending, working, summing, moved>>
-----------------------------------------------------------------------------
Probed == Min({Closest, NumServers})

(* The k-th size sent: each of the list, Repeats times.                     *)
ToSend == Len(Sizes[test]) * Repeats
Item == [k \in 1..ToSend |-> Sizes[test][((k - 1) \div Repeats) + 1]]

(* The sum of f over S, as a number of units: a pair for each unit of each. *)
Units(f, S) == UNION {{x} \X (1..f[x]) : x \in S}
Total(f, S) == Cardinality(Units(f, S))
AllItems == Total(Item, 1..ToSend)

Init ==
  /\ measured = {}
  /\ mainPc = "probe" /\ test = "download"
  /\ next = 0 /\ late = FALSE
  /\ pc = [w \in Workers |-> "none"] /\ dead = {}
  /\ remaining = [w \in Workers |-> 0] /\ out = [w \in Workers |-> 0]
  /\ handing = {} /\ totalSize = 0 /\ received = 0
  /\ moved = 0

GoTo(w, label) == pc' = [pc EXCEPT ![w] = label]
Alive == mainPc # "exited"
-----------------------------------------------------------------------------
(* TestLatency *)

(* Resolving or dialling a server fails, and its latency stays 0, or its    *)
(* three pings are timed, whatever they return. The servers are             *)
(* independent, so the loop over them is one step.                          *)
Probe ==
  /\ mainPc = "probe"
  /\ measured' \in SUBSET (1..Probed)
  /\ mainPc' = "sort"
  /\ UNCHANGED <<test, sending, working, summing, moved>>

(* SortServersByLatency, whose comparison is no strict weak order: the      *)
(* latency 0 of a server that was not measured is neither before nor after  *)
(* any other that follows it. sort.Sort promises nothing of the order then, *)
(* so any server may come first, measured or not. It is the one that is     *)
(* used, and the program exits when it has no latency.                      *)
Choose ==
  /\ mainPc = "sort"
  /\ \E first \in 1..NumServers :
       mainPc' = IF first \in measured THEN "start" ELSE "exited"
  /\ UNCHANGED <<choosing, sending, working, summing, moved>>
-----------------------------------------------------------------------------
(* TestDownload and TestUpload *)

StartWorkers ==
  /\ mainPc = "start"
  /\ pc' = [w \in Workers |-> "dial"] /\ dead' = {}
  /\ out' = [w \in Workers |-> 0]
  /\ mainPc' = "send"
  /\ UNCHANGED <<choosing, sending, remaining, summing, moved>>

(* ci <- size: the channel has no buffer, so a worker takes it at once.     *)
Send(w) ==
  /\ mainPc = "send" /\ next < ToSend
  /\ pc[w] = "ready"
  /\ next' = next + 1
  /\ remaining' = [remaining EXCEPT ![w] = Item[next + 1]]
  /\ GoTo(w, "moving")
  /\ UNCHANGED <<choosing, mainPc, late, dead, out, summing, moved>>

(* close(ci)                                                                *)
CloseAtOnce ==
  /\ mainPc = "send"
  /\ mainPc' = "closed"
  /\ UNCHANGED <<choosing, sending, working, summing, moved>>

Close ==
  /\ mainPc = "send" /\ next = ToSend
  /\ mainPc' = "closed"
  /\ UNCHANGED <<choosing, sending, working, summing, moved>>

(* wg.Wait()                                                                *)
Wait ==
  /\ mainPc = "closed"
  /\ \A w \in Workers : pc[w] = "done"
  /\ mainPc' = "collect"
  /\ UNCHANGED <<choosing, sending, working, summing, moved>>

(* chunks := <-co                                                           *)
Collect(w) ==
  /\ mainPc = "collect" /\ received < Cardinality(Workers)
  /\ w \in handing
  /\ handing' = handing \ {w}
  /\ received' = received + 1
  /\ totalSize' = totalSize + out[w]
  /\ UNCHANGED <<choosing, mainPc, sending, working, moved>>

(* The result. The upload test follows the download test.                   *)
ResultOneShort ==
  /\ mainPc = "collect" /\ received >= Cardinality(Workers) - 1
  /\ mainPc' = "result"
  /\ UNCHANGED <<choosing, sending, working, summing, moved>>

Result ==
  /\ mainPc = "collect" /\ received = Cardinality(Workers)
  /\ mainPc' = "result"
  /\ UNCHANGED <<choosing, sending, working, summing, moved>>

NextTest ==
  /\ mainPc = "result" /\ test = "download"
  /\ test' = "upload"
  /\ mainPc' = "start"
  /\ next' = 0 /\ late' = FALSE
  /\ totalSize' = 0 /\ received' = 0 /\ moved' = 0
  /\ UNCHANGED <<measured, working, handing>>

(* The length of the test has passed.                                       *)
TimeUp ==
  /\ mainPc \in {"send", "closed"} /\ ~late
  /\ late' = TRUE
  /\ UNCHANGED <<choosing, mainPc, next, working, summing, moved>>
-----------------------------------------------------------------------------
(* Downloader and Uploader *)

Dial(w) ==
  /\ Alive /\ pc[w] = "dial"
  /\ GoTo(w, "ready")
  /\ UNCHANGED <<choosing, mainPc, sending, dead, remaining, out, summing, moved>>

(* errorf: os.Exit(1), whatever the others are doing.                       *)
DialFails(w) ==
  /\ Alive /\ pc[w] = "dial"
  /\ mainPc' = "exited"
  /\ UNCHANGED <<choosing, sending, working, summing, moved>>

Ask(w) == Min({remaining[w], MaxAsk[test]})

(* What a request moves: all of it, or less when the connection fails,      *)
(* which it does for good. Both loops go on with a connection that has. A   *)
(* server may send more than it was asked for.                              *)
Moves(w) ==
  IF w \in dead THEN {0}
  ELSE IF test = "download" THEN 0..(Ask(w) + Surplus) ELSE 0..Ask(w)
Dead(w, n) == dead' = IF n < Ask(w) THEN dead \cup {w} ELSE dead

(* One request of Downloader: what did not come is asked for again, as long *)
(* as there is time. A remaining below 0 ends the loop as 0 does, and is    *)
(* kept as 0.                                                               *)
Left(w, n) == IF n < remaining[w] THEN remaining[w] - n ELSE 0
CountAsked(down, ask) == ask
CountDown(down, ask) == down
Download(w) ==
  /\ Alive /\ test = "download" /\ pc[w] = "moving"
  /\ remaining[w] > 0 /\ ~late
  /\ \E down \in Moves(w) :
       /\ Dead(w, down)
       /\ out' = [out EXCEPT ![w] = @ + CountDown(down, Ask(w))]
       /\ remaining' = [remaining EXCEPT ![w] = Left(w, down)]
       /\ moved' = moved + down
  /\ UNCHANGED <<choosing, mainPc, sending, pc, summing>>

(* One request of Uploader, which counts what it gives whether or not it    *)
(* can be written.                                                          *)
Upload(w) ==
  /\ Alive /\ test = "upload" /\ pc[w] = "moving"
  /\ remaining[w] > 0 /\ ~late
  /\ out' = [out EXCEPT ![w] = @ + Ask(w)]
  /\ remaining' = [remaining EXCEPT ![w] = @ - Ask(w)]
  /\ \E written \in Moves(w) : Dead(w, written) /\ moved' = moved + written
  /\ UNCHANGED <<choosing, mainPc, sending, pc, summing>>

(* The size is done, or the time is over: on to the next size.              *)
FinishUnlessLate(w) ==
  /\ Alive /\ pc[w] = "moving"
  /\ remaining[w] = 0
  /\ GoTo(w, "ready")
  /\ UNCHANGED <<choosing, mainPc, sending, dead, remaining, out, summing, moved>>

Finish(w) ==
  /\ Alive /\ pc[w] = "moving"
  /\ remaining[w] = 0 \/ late
  /\ GoTo(w, "ready")
  /\ remaining' = [remaining EXCEPT ![w] = 0]
  /\ UNCHANGED <<choosing, mainPc, sending, dead, out, summing, moved>>

(* The channel is closed: a goroutine of its own waits to hand in the list, *)
(* since nobody receives before every worker is done.                       *)
Leave(w) ==
  /\ Alive /\ pc[w] = "ready" /\ mainPc = "closed"
  /\ handing' = handing \cup {w}
  /\ GoTo(w, "done")
  /\ UNCHANGED <<choosing, mainPc, sending, dead, remaining, out, totalSize, received, moved>>
-----------------------------------------------------------------------------
Coordinator ==
  \/ Probe \/ Choose \/ StartWorkers \/ Close \/ Wait \/ Result \/ NextTest
  \/ \E w \in Workers : Send(w) \/ Collect(w)

Worker(w) ==
  Dial(w) \/ DialFails(w) \/ Download(w) \/ Upload(w) \/ Finish(w) \/ Leave(w)

Ended == mainPc = "exited" \/ (mainPc = "result" /\ test = "upload")

Next == Coordinator \/ (\E w \in Workers : Worker(w)) \/ TimeUp

(* Every goroutine that can run is run, and time passes. The connections    *)
(* carry no deadline: that their reads and writes return is assumed.        *)
Fairness ==
  /\ WF_vars(Coordinator) /\ WF_vars(TimeUp)
  /\ \A w \in Workers : WF_vars(Worker(w))

Spec == Init /\ [][Next]_vars /\ Fairness
-----------------------------------------------------------------------------
PCs == {"none", "dial", "ready", "moving", "done"}
MainPCs == {"probe", "sort", "start", "send", "closed", "collect", "result", "exited"}

TypeOK ==
  /\ measured \subseteq 1..Probed
  /\ mainPc \in MainPCs /\ test \in Tests
  /\ next \in 0..ToSend /\ late \in BOOLEAN
  /\ pc \in [Workers -> PCs] /\ dead \subseteq Workers
  /\ remaining \in [Workers -> Nat] /\ out \in [Workers -> Nat]
  /\ handing \subseteq Workers
  /\ totalSize \in Nat /\ received \in 0..Cardinality(Workers)
  /\ moved \in Nat

(* Downloader's lists: the bits reported are those that came, over short    *)
(* and long answers, failed reads and lists handed in in any order.         *)
DownloadIsWhatCame ==
  test = "download" /\ mainPc = "result" => totalSize = moved

(* The sizes are handed out once each and worked off: a test that was not   *)
(* cut short by its length has moved them all. An upload, which counts what *)
(* it asks for, never counts more; a download may, by what the server sends *)
(* beyond the requests.                                                     *)
MovesWhatWasAskedFor ==
  mainPc = "result" =>
    /\ ~late => totalSize >= AllItems
    /\ test = "upload" => totalSize <= AllItems

(* No goroutine outlives its test: when the result is there, every list has *)
(* been received, and nobody is left blocked on co.                         *)
NobodyLeftBehind ==
  mainPc = "result" => handing = {} /\ \A w \in Workers : pc[w] = "done"

(* The test ends, with a result or because a connection failed: the sender, *)
(* the workers and the collector never wait for each other.                 *)
TestEnds == <>Ended
=============================================================================
