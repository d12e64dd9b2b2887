-------------------------- MODULE SpeedTestProofs --------------------------
(* Proofs about SpeedTest, for every number of workers and servers, and     *)
(* every list of sizes.                                                     *)
EXTENDS SpeedTest, FiniteSetTheorems, FunctionTheorems, SequenceTheorems, TLAPS

-----------------------------------------------------------------------------
(* Sums *)

(* Two sets with nothing in common.                                         *)
LEMMA CardinalityOfBoth ==
  ASSUME NEW A, NEW B, IsFiniteSet(A), IsFiniteSet(B), A \cap B = {}
  PROVE  Cardinality(A \cup B) = Cardinality(A) + Cardinality(B)
<1>1. Cardinality(A \cap B) = 0
  BY FS_EmptySet
<1>2. Cardinality(A \cup B) = Cardinality(A) + Cardinality(B) - Cardinality(A \cap B)
  BY FS_Union
<1>3. Cardinality(A) \in Nat /\ Cardinality(B) \in Nat
  BY FS_CardinalityType
<1> QED BY <1>1, <1>2, <1>3

(* The sum over a finite set is a number, ...                               *)
LEMMA TotalFinite ==
  ASSUME NEW S, IsFiniteSet(S), NEW f, \A x \in S : f[x] \in Nat
  PROVE  IsFiniteSet(Units(f, S)) /\ Total(f, S) \in Nat
<1> DEFINE U(x) == {x} \X (1..f[x])
           T == {U(x) : x \in S}
           g == [x \in S |-> U(x)]
<1>1. ASSUME NEW x \in S PROVE IsFiniteSet(U(x))
  <2>1. IsFiniteSet({x})
    BY FS_Singleton
  <2>2. IsFiniteSet(1..f[x])
    BY FS_Interval
  <2> QED BY <2>1, <2>2, FS_Product
<1>2. IsFiniteSet(T)
  <2>1. g \in [S -> T] /\ \A t \in T : \E x \in S : g[x] = t
    OBVIOUS
  <2> HIDE DEF g, T
  <2>2. g \in Surjection(S, T)
    BY <2>1, Fun_IsSurj
  <2> QED BY <2>2, FS_Surjection
<1>3. \A t \in T : IsFiniteSet(t)
  BY <1>1
<1>4. IsFiniteSet(UNION T)
  BY <1>2, <1>3, FS_UNION
<1> QED BY <1>4, FS_CardinalityType DEF Units, Total

(* ... nothing is summed to zero, ...                                       *)
LEMMA TotalZero ==
  ASSUME NEW S, NEW f, \A x \in S : f[x] = 0
  PROVE  Total(f, S) = 0
<1>1. Units(f, S) = {}
  BY DEF Units
<1> QED BY <1>1, FS_EmptySet DEF Total

(* ... the sum over no element included, ...                                *)
LEMMA TotalNone ==
  ASSUME NEW f
  PROVE  Total(f, 1..0) = 0
<1>1. \A x \in 1..0 : f[x] = 0
  OBVIOUS
<1> HIDE DEF Total
<1> QED BY <1>1, TotalZero

(* ... only the values over the set count, ...                              *)
LEMMA TotalSame ==
  ASSUME NEW S, NEW f, NEW g, \A x \in S : f[x] = g[x]
  PROVE  Total(f, S) = Total(g, S)
<1>1. Units(f, S) = Units(g, S)
  BY DEF Units
<1> QED BY <1>1 DEF Total

(* ... and one more element adds its value.                                 *)
LEMMA TotalAdd ==
  ASSUME NEW S, IsFiniteSet(S), NEW x, x \notin S, NEW f,
         \A y \in S \cup {x} : f[y] \in Nat
  PROVE  Total(f, S \cup {x}) = Total(f, S) + f[x]
<1> DEFINE U == {x} \X (1..f[x])
<1>1. IsFiniteSet(Units(f, S)) /\ Total(f, S) \in Nat
  BY TotalFinite
<1>2. IsFiniteSet(U) /\ Cardinality(U) = f[x]
  <2>1. IsFiniteSet({x}) /\ Cardinality({x}) = 1
    BY FS_Singleton
  <2>2. IsFiniteSet(1..f[x]) /\ Cardinality(1..f[x]) = f[x]
    BY FS_Interval
  <2> QED BY <2>1, <2>2, FS_Product
<1>3. Units(f, S \cup {x}) = Units(f, S) \cup U
  BY DEF Units
<1>4. Units(f, S) \cap U = {}
  BY DEF Units
<1> HIDE DEF U
<1>5. Cardinality(Units(f, S) \cup U) = Cardinality(Units(f, S)) + Cardinality(U)
  BY <1>1, <1>2, <1>4, CardinalityOfBoth
<1> QED BY <1>1, <1>2, <1>3, <1>5 DEF Total

(* Taking an element out takes its value off.                               *)
LEMMA TotalWithout ==
  ASSUME NEW S, IsFiniteSet(S), NEW x \in S, NEW f, \A y \in S : f[y] \in Nat
  PROVE  Total(f, S) = Total(f, S \ {x}) + f[x] /\ Total(f, S \ {x}) \in Nat
<1>1. IsFiniteSet(S \ {x}) /\ S = (S \ {x}) \cup {x}
  BY FS_Subset
<1>2. Total(f, S \ {x}) \in Nat
  BY <1>1, TotalFinite
<1>3. Total(f, (S \ {x}) \cup {x}) = Total(f, S \ {x}) + f[x]
  BY <1>1, TotalAdd
<1> QED BY <1>1, <1>2, <1>3

(* A changed value changes the sum by as much.                              *)
LEMMA TotalUpdate ==
  ASSUME NEW S, IsFiniteSet(S), NEW x \in S, NEW f, NEW g,
         \A y \in S : f[y] \in Nat /\ g[y] \in Nat,
         \A y \in S \ {x} : g[y] = f[y]
  PROVE  Total(g, S) = Total(f, S) - f[x] + g[x] /\ Total(f, S) \in Nat
<1>1. Total(f, S) = Total(f, S \ {x}) + f[x] /\ Total(f, S \ {x}) \in Nat
  BY TotalWithout
<1>2. Total(g, S) = Total(g, S \ {x}) + g[x]
  BY TotalWithout
<1>3. Total(f, S \ {x}) = Total(g, S \ {x})
  BY TotalSame
<1> QED BY <1>1, <1>2, <1>3
-----------------------------------------------------------------------------
(* Constants *)

(* The library's Min, of two numbers.                                       *)
LEMMA MinOfTwo ==
  ASSUME NEW a \in Int, NEW b \in Int
  PROVE  Min({a, b}) = IF a <= b THEN a ELSE b
<1> DEFINE m == IF a <= b THEN a ELSE b
<1>1. m \in {a, b} /\ \A y \in {a, b} : m <= y
  OBVIOUS
<1>2. \A x \in {a, b} : (\A y \in {a, b} : x <= y) => x = m
  OBVIOUS
<1> QED BY <1>1, <1>2 DEF Min

(* Which of the sizes is the k-th sent.                                     *)
LEMMA Quotient ==
  ASSUME NEW n \in Nat \ {0}, NEW m \in Nat, NEW k \in 1..(m * n)
  PROVE  ((k - 1) \div n) + 1 \in 1..m
<1> DEFINE q == (k - 1) \div n
<1>1. q \in Int /\ k - 1 = q * n + ((k - 1) % n) /\ (k - 1) % n \in 0..(n - 1)
  OBVIOUS
<1>2. q >= 0
  <2>1. q < 0 => q * n <= -n
    BY <1>1
  <2> QED BY <1>1, <2>1
<1>3. q < m
  <2>1. q >= m => q * n >= m * n
    BY <1>1, <1>2
  <2> QED BY <1>1, <2>1
<1> QED BY <1>1, <1>2, <1>3

(* Facts about the constants that every proof uses.                         *)
LEMMA TestConstants ==
  ASSUME test \in Tests
  PROVE  /\ ToSend \in Nat /\ Item \in [1..ToSend -> Nat \ {0}]
         /\ MaxAsk[test] \in Nat \ {0}
         /\ Surplus \in Nat
         /\ IsFiniteSet(Workers) /\ Cardinality(Workers) \in Nat
<1>1. /\ Sizes[test] \in Seq(Nat \ {0}) /\ MaxAsk[test] \in Nat \ {0}
      /\ Repeats \in Nat \ {0}
  BY SpeedTestAssumption
<1>2. Len(Sizes[test]) \in Nat /\ ToSend \in Nat
  BY <1>1, LenProperties DEF ToSend
<1>3. ASSUME NEW k \in 1..ToSend PROVE Sizes[test][((k - 1) \div Repeats) + 1] \in Nat \ {0}
  <2>1. ((k - 1) \div Repeats) + 1 \in 1..Len(Sizes[test])
    BY <1>1, <1>2, Quotient DEF ToSend
  <2> QED BY <1>1, <2>1, ElementOfSeq
<1>4. Surplus \in Nat
  BY SpeedTestAssumption
<1>5. IsFiniteSet(Workers) /\ Cardinality(Workers) \in Nat
  BY SpeedTestAssumption, FS_CardinalityType
<1> QED BY <1>1, <1>2, <1>3, <1>4, <1>5 DEF Item

-----------------------------------------------------------------------------
(* The inductive invariant *)

(* The phases of a test: what has been set up before it starts, which       *)
(* workers are done, and whose lists have not been received yet.            *)
DoneWorkers == {w \in Workers : pc[w] = "done"}
Resting == {"probe", "sort", "start"}

PhaseInv ==
  /\ mainPc \in Resting =>
       next = 0 /\ ~late /\ totalSize = 0 /\ received = 0 /\ moved = 0 /\ handing = {}
  /\ mainPc \in {"send", "closed"} =>
       received = 0 /\ handing = DoneWorkers /\ \A w \in Workers : pc[w] # "none"
  /\ mainPc = "send" => DoneWorkers = {}
  /\ mainPc \in {"closed", "collect", "result"} => next = ToSend
  /\ mainPc \in {"collect", "result"} =>
       /\ \A w \in Workers : pc[w] = "done"
       /\ received + Cardinality(handing) = Cardinality(Workers)
  /\ mainPc = "result" => received = Cardinality(Workers)
  /\ \A w \in Workers : pc[w] # "moving" => remaining[w] = 0
  /\ \A w \in handing : pc[w] = "done"
  /\ mainPc \in Resting \ {"start"} => \A w \in Workers : pc[w] = "none"
  /\ mainPc = "start" => \A w \in Workers : pc[w] \in {"none", "done"}

(* The lists that are still to be added to totalSize.                       *)
Pending == {w \in Workers : pc[w] # "done" \/ w \in handing}

(* Every unit of the sizes handed out is in totalSize, in a list, or left   *)
(* to a worker, unless it was dropped because the time was over. A download *)
(* may have brought more than these.                                        *)
SizesInv ==
  Alive =>
    LET known == totalSize + Total(out, Pending) + Total(remaining, Workers) IN
    /\ ~late => known >= Total(Item, 1..next)
    /\ test = "upload" => known <= Total(Item, 1..next)

DownloadInv == Alive /\ test = "download" => moved = totalSize + Total(out, Pending)

TestInv == TypeOK /\ PhaseInv /\ SizesInv /\ DownloadInv
-----------------------------------------------------------------------------
(* Types *)

(* A request asks for something that is left of the size.                   *)
LEMMA AskBound ==
  ASSUME TypeOK, NEW w \in Workers, remaining[w] > 0
  PROVE  Ask(w) \in 1..remaining[w] /\ \A n \in Moves(w) : n \in Nat
<1>1. remaining[w] \in Nat /\ MaxAsk[test] \in Nat \ {0} /\ Surplus \in Nat
  BY TestConstants DEF TypeOK
<1>2. Ask(w) \in 1..remaining[w]
  BY <1>1, MinOfTwo DEF Ask
<1> QED BY <1>1, <1>2 DEF Moves

(* Every variable is well typed initially ...                               *)
LEMMA TypeInit == Init => TypeOK
<1> SUFFICES ASSUME Init PROVE TypeOK
  OBVIOUS
<1>1. test \in Tests
  BY DEF Init, Tests
<1>2. measured \subseteq 1..Probed
  BY DEF Init
<1>3. next \in 0..ToSend /\ received \in 0..Cardinality(Workers)
  BY <1>1, TestConstants DEF Init
<1>4. late \in BOOLEAN
  BY DEF Init
<1>5. remaining \in [Workers -> Nat] /\ out \in [Workers -> Nat]
  BY DEF Init
<1> QED BY <1>1, <1>2, <1>3, <1>4, <1>5 DEF Init, TypeOK, MainPCs, PCs

(* ... and stays so.                                                        *)
LEMMA TypeStep == TypeOK /\ [Next]_vars => TypeOK'
<1> SUFFICES ASSUME TypeOK, [Next]_vars PROVE TypeOK'
  OBVIOUS
<1> USE DEF TypeOK, choosing, sending, working, summing, GoTo, PCs, MainPCs, ToSend
<1>0. ToSend \in Nat /\ Cardinality(Workers) \in Nat /\ Probed' = Probed
  BY TestConstants DEF Probed
<1>1. CASE UNCHANGED vars
  BY <1>1 DEF vars
<1>2. CASE Probe
  BY <1>0, <1>2 DEF Probe
<1>4. CASE Choose \/ Close \/ Wait \/ Result \/ StartWorkers
  <2>1. CASE Choose \/ Close \/ Wait \/ Result
    BY <1>0, <2>1 DEF Choose, Close, Wait, Result
  <2>2. CASE StartWorkers
    BY <2>2 DEF StartWorkers
  <2> QED BY <1>4, <2>1, <2>2
<1>5. CASE NextTest
  <2>1. test' \in Tests /\ next' \in 0..ToSend' /\ received' \in 0..Cardinality(Workers)
    <3>1. Len(Sizes[test']) \in Nat /\ Repeats \in Nat /\ test' \in Tests
      BY <1>5, SpeedTestAssumption, LenProperties DEF NextTest, Tests
    <3> QED BY <1>0, <1>5, <3>1 DEF NextTest
  <2> QED BY <1>5, <2>1 DEF NextTest
<1>6. CASE TimeUp
  BY <1>6 DEF TimeUp
<1>7. ASSUME NEW w \in Workers, Send(w) PROVE TypeOK'
  <2>1. next + 1 \in 1..ToSend
    BY <1>0, <1>7 DEF Send
  <2>2. Item[next + 1] \in Nat
    BY <2>1, TestConstants
  <2> QED BY <1>7, <2>1, <2>2 DEF Send
<1>8. ASSUME NEW w \in Workers, Collect(w) PROVE TypeOK'
  BY <1>0, <1>8 DEF Collect
<1>9. ASSUME NEW w \in Workers, Download(w) PROVE TypeOK'
  <2>1. PICK down \in Moves(w) :
          /\ Dead(w, down)
          /\ out' = [out EXCEPT ![w] = @ + CountDown(down, Ask(w))]
          /\ remaining' = [remaining EXCEPT ![w] = Left(w, down)]
          /\ moved' = moved + down
    BY <1>9 DEF Download
  <2>2. down \in Nat
    BY <1>9, AskBound DEF Download
  <2>4. remaining[w] \in Nat /\ Left(w, down) \in Nat
    BY <2>2 DEF Left
  <2>3. dead' \subseteq Workers
    BY <2>1 DEF Dead
  <2> QED BY <1>9, <2>1, <2>2, <2>3, <2>4 DEF Download, CountDown
<1>10. ASSUME NEW w \in Workers, Upload(w) PROVE TypeOK'
  <2>1. PICK written \in Moves(w) : Dead(w, written) /\ moved' = moved + written
    BY <1>10 DEF Upload
  <2>2. Ask(w) \in 1..remaining[w] /\ written \in Nat
    BY <1>10, AskBound DEF Upload
  <2>3. dead' \subseteq Workers
    BY <2>1 DEF Dead
  <2> QED BY <1>10, <2>1, <2>2, <2>3 DEF Upload
<1>11. ASSUME NEW w \in Workers, Dial(w) \/ DialFails(w) \/ Finish(w) \/ Leave(w) PROVE TypeOK'
  <2>1. CASE Dial(w) \/ DialFails(w)
    BY <2>1 DEF Dial, DialFails
  <2>2. CASE Finish(w)
    BY <2>2 DEF Finish
  <2>3. CASE Leave(w)
    BY <2>3 DEF Leave
  <2> QED BY <1>11, <2>1, <2>2, <2>3
<1> QED BY <1>1, <1>2, <1>4, <1>5, <1>6, <1>7, <1>8, <1>9, <1>10, <1>11
        DEF Next, Coordinator, Worker

(* Every variable of the test keeps its type.                               *)
THEOREM TypeCorrect == Spec => []TypeOK
BY TypeInit, TypeStep, PTL DEF Spec
-----------------------------------------------------------------------------
(* Phases *)

(* A worker acts between the start of its test and its own end.             *)
LEMMA ActsInTest ==
  ASSUME TypeOK, PhaseInv, Alive, NEW w \in Workers, pc[w] \notin {"none", "done"}
  PROVE  mainPc \in {"send", "closed"}
BY DEF TypeOK, PhaseInv, Alive, Resting, MainPCs

(* The phases follow each other as described above.                         *)
LEMMA PhaseStep ==
  ASSUME TypeOK, PhaseInv, [Next]_vars
  PROVE  PhaseInv'
<1> USE DEF PhaseInv, Resting, DoneWorkers, GoTo, ToSend, choosing, sending, working, summing
<1>0. /\ pc \in [Workers -> PCs] /\ remaining \in [Workers -> Nat] /\ handing \subseteq Workers
      /\ received \in Nat /\ Cardinality(Workers) \in Nat /\ IsFiniteSet(Workers)
      /\ IsFiniteSet(handing) /\ Cardinality(handing) \in Nat
  BY TestConstants, FS_Subset, FS_CardinalityType DEF TypeOK
<1>1. CASE UNCHANGED vars
  BY <1>1 DEF vars
<1>2. CASE Probe
  BY <1>2 DEF Probe
<1>3. CASE Choose
  BY <1>3 DEF Choose
<1>4. CASE StartWorkers
  BY <1>0, <1>4 DEF StartWorkers
<1>5. CASE Close
  BY <1>5 DEF Close
<1>6. CASE Wait
  <2>1. handing = Workers /\ received = 0
    BY <1>0, <1>6 DEF Wait
  <2> QED BY <1>0, <1>6, <2>1 DEF Wait
<1>7. CASE Result
  BY <1>7 DEF Result
<1>8. CASE NextTest
  <2>1. Cardinality(handing) = 0
    BY <1>0, <1>8 DEF NextTest
  <2>2. handing = {}
    BY <1>0, <2>1, FS_EmptySet
  <2> QED BY <1>8, <2>2 DEF NextTest
<1>9. CASE TimeUp
  BY <1>9 DEF TimeUp
<1>10. ASSUME NEW w \in Workers, Send(w) PROVE PhaseInv'
  BY <1>0, <1>10 DEF Send
<1>11. ASSUME NEW w \in Workers, Collect(w) PROVE PhaseInv'
  <2>1. Cardinality(handing') = Cardinality(handing) - 1
    BY <1>0, <1>11, FS_RemoveElement DEF Collect
  <2> QED BY <1>0, <1>11, <2>1 DEF Collect
<1>12. ASSUME NEW w \in Workers, Dial(w) PROVE PhaseInv'
  <2>1. mainPc \in {"send", "closed"}
    BY <1>12, ActsInTest DEF Dial
  <2> QED BY <1>0, <1>12, <2>1 DEF Dial
<1>13. ASSUME NEW w \in Workers, DialFails(w) PROVE PhaseInv'
  BY <1>13 DEF DialFails
<1>14. ASSUME NEW w \in Workers, Download(w) \/ Upload(w) PROVE PhaseInv'
  <2>1. mainPc \in {"send", "closed"}
    BY <1>14, ActsInTest DEF Download, Upload
  <2>2. \A v \in Workers \ {w} : remaining'[v] = remaining[v]
    BY <1>0, <1>14 DEF Download, Upload
  <2> QED BY <1>0, <1>14, <2>1, <2>2 DEF Download, Upload
<1>15. ASSUME NEW w \in Workers, Finish(w) PROVE PhaseInv'
  <2>1. mainPc \in {"send", "closed"}
    BY <1>15, ActsInTest DEF Finish
  <2> QED BY <1>0, <1>15, <2>1 DEF Finish
<1>16. ASSUME NEW w \in Workers, Leave(w) PROVE PhaseInv'
  BY <1>0, <1>16 DEF Leave
<1> QED BY <1>1, <1>2, <1>3, <1>4, <1>5, <1>6, <1>7, <1>8, <1>9, <1>10, <1>11, <1>12, <1>13,
        <1>14, <1>15, <1>16 DEF Next, Coordinator, Worker
-----------------------------------------------------------------------------
(* Where the units are *)

(* The sums of the invariants, in the next state.                           *)
LEMMA Primed ==
  /\ Total(out, Pending)' = Total(out', Pending')
  /\ Total(remaining, Workers)' = Total(remaining', Workers)
  /\ Total(Item, 1..next)' = Total(Item', 1..next')
  /\ test' = test => Item' = Item
BY DEF Total, Units, Item, ToSend

(* They are sums of numbers.                                                *)
LEMMA SumsTyped ==
  ASSUME TypeOK
  PROVE  /\ IsFiniteSet(Pending) /\ Pending \subseteq Workers
         /\ Total(out, Pending) \in Nat /\ Total(remaining, Workers) \in Nat
         /\ Total(Item, 1..next) \in Nat
<1>1. IsFiniteSet(Workers) /\ Pending \in SUBSET Workers
  BY TestConstants DEF TypeOK, Pending
<1>2. IsFiniteSet(Pending)
  BY <1>1, FS_Subset
<1>3. Total(out, Pending) \in Nat /\ Total(remaining, Workers) \in Nat
  BY <1>1, <1>2, TotalFinite DEF TypeOK
<1>4. Total(Item, 1..next) \in Nat
  <2>1. next \in 0..ToSend /\ ToSend \in Nat /\ Item \in [1..ToSend -> Nat \ {0}]
    BY TestConstants DEF TypeOK
  <2>2. IsFiniteSet(1..next)
    BY <2>1, FS_Interval
  <2>3. \A k \in 1..next : Item[k] \in Nat
    BY <2>1
  <2> QED BY <2>2, <2>3, TotalFinite
<1> QED BY <1>1, <1>2, <1>3, <1>4

(* One request takes units off what is left of the worker's size, and puts  *)
(* units on its list.                                                       *)
LEMMA RequestMoves ==
  ASSUME TypeOK, TypeOK', NEW w \in Workers, pc[w] = "moving", UNCHANGED <<pc, handing>>,
         NEW n \in Nat, NEW m \in Nat, out'[w] = out[w] + n, remaining'[w] = remaining[w] - m,
         \A v \in Workers \ {w} : out'[v] = out[v] /\ remaining'[v] = remaining[v]
  PROVE  /\ Total(out, Pending)' = Total(out, Pending) + n
         /\ Total(remaining, Workers)' = Total(remaining, Workers) - m
<1>1. /\ \A v \in Workers : out[v] \in Nat /\ out'[v] \in Nat
      /\ \A v \in Workers : remaining[v] \in Nat /\ remaining'[v] \in Nat
      /\ IsFiniteSet(Workers) /\ IsFiniteSet(Pending) /\ Pending \subseteq Workers
      /\ Total(out, Pending) \in Nat /\ Total(remaining, Workers) \in Nat
  BY TestConstants, SumsTyped DEF TypeOK
<1>2. Pending' = Pending /\ w \in Pending
  BY DEF Pending
<1>3. Total(out', Pending) = Total(out, Pending) - out[w] + out'[w]
  <2>1. /\ \A v \in Pending : out[v] \in Nat /\ out'[v] \in Nat
        /\ \A v \in Pending \ {w} : out'[v] = out[v]
    BY <1>1
  <2> QED BY <1>1, <1>2, <2>1, TotalUpdate
<1>4. Total(remaining', Workers) = Total(remaining, Workers) - remaining[w] + remaining'[w]
  BY <1>1, TotalUpdate
<1> QED BY <1>1, <1>2, <1>3, <1>4, Primed

(* What the two invariants of the units say in one step.                    *)
UnitsInv == SizesInv /\ DownloadInv

(* Most steps leave the sums alone.                                         *)
LEMMA UnitsKept ==
  ASSUME TypeOK, UnitsInv, UNCHANGED <<out, remaining, totalSize, next, test, moved>>,
         Alive' => Alive, Pending' = Pending, late => late'
  PROVE  UnitsInv'
<1> DEFINE K == Total(out, Pending)
           R == Total(remaining, Workers)
           T == Total(Item, 1..next)
<1>1. K' = K /\ R' = R /\ T' = T
  BY Primed
<1>2. Alive => /\ ~late => totalSize + K + R >= T
               /\ test = "upload" => totalSize + K + R <= T
  BY DEF UnitsInv, SizesInv
<1>3. Alive /\ test = "download" => moved = totalSize + K
  BY DEF UnitsInv, DownloadInv
<1> HIDE DEF K, R, T
<1>4. Alive' => /\ ~late' => totalSize' + K' + R' >= T'
                /\ test' = "upload" => totalSize' + K' + R' <= T'
  BY <1>1, <1>2
<1>5. Alive' /\ test' = "download" => moved' = totalSize' + K'
  BY <1>1, <1>3
<1> QED BY <1>4, <1>5 DEF K, R, T, UnitsInv, SizesInv, DownloadInv

(* The other steps move units as the invariants say.                        *)
LEMMA UnitsStep ==
  ASSUME TypeOK, TypeOK', PhaseInv, UnitsInv, [Next]_vars
  PROVE  UnitsInv'
<1> DEFINE K == Total(out, Pending)
           R == Total(remaining, Workers)
           T == Total(Item, 1..next)
<1>1. /\ K \in Nat /\ R \in Nat /\ T \in Nat
      /\ IsFiniteSet(Workers) /\ IsFiniteSet(Pending) /\ Pending \subseteq Workers
      /\ out \in [Workers -> Nat] /\ remaining \in [Workers -> Nat] /\ pc \in [Workers -> PCs]
      /\ remaining' \in [Workers -> Nat]
      /\ totalSize \in Nat /\ moved \in Nat /\ next \in Nat
  <2>1. /\ K \in Nat /\ R \in Nat /\ T \in Nat
        /\ IsFiniteSet(Workers) /\ IsFiniteSet(Pending) /\ Pending \subseteq Workers
    BY SumsTyped, TestConstants DEF TypeOK
  <2> HIDE DEF K, R, T
  <2> QED BY <2>1, TestConstants DEF TypeOK
<1>2. /\ Alive => /\ ~late => totalSize + K + R >= T
                  /\ test = "upload" => totalSize + K + R <= T
      /\ Alive /\ test = "download" => moved = totalSize + K
  BY DEF UnitsInv, SizesInv, DownloadInv
<1>3. /\ K' = Total(out', Pending') /\ R' = Total(remaining', Workers)
      /\ T' = Total(Item', 1..next') /\ test' = test => Item' = Item
  BY Primed
<1>4. ASSUME /\ Alive' => /\ ~late' => totalSize' + K' + R' >= T'
                          /\ test' = "upload" => totalSize' + K' + R' <= T'
             /\ Alive' /\ test' = "download" => moved' = totalSize' + K'
      PROVE  UnitsInv'
  BY <1>4 DEF UnitsInv, SizesInv, DownloadInv
<1> HIDE DEF K, R, T
<1> USE DEF choosing, sending, working, summing, GoTo
<1>5. CASE Probe \/ Choose \/ Close \/ Wait \/ Result \/ TimeUp \/ UNCHANGED vars
  BY <1>5, UnitsKept DEF Probe, Choose, Close, Wait, Result, TimeUp, vars, Pending, Alive
<1>6. ASSUME NEW w \in Workers, Dial(w) \/ DialFails(w) \/ Leave(w) PROVE UnitsInv'
  <2>1. Pending' = Pending
    BY <1>1, <1>6 DEF Dial, DialFails, Leave, Pending, PCs
  <2> QED BY <1>6, <2>1, UnitsKept DEF Dial, DialFails, Leave, Alive
<1>7. CASE StartWorkers
  <2>1. K' = 0
    <3>1. \A w \in Pending' : out'[w] = 0
      BY <1>7 DEF StartWorkers, Pending
    <3> QED BY <1>3, <3>1, TotalZero
  <2>2. R' = 0
    <3>1. \A w \in Workers : remaining'[w] = 0
      BY <1>7 DEF StartWorkers, PhaseInv
    <3> QED BY <1>3, <3>1, TotalZero
  <2>3. T' = 0
    <3>1. next' = 0
      BY <1>7 DEF StartWorkers, PhaseInv, Resting
    <3>2. Total(Item', 1..0) = 0
      BY TotalNone
    <3>3. Total(Item', 1..next') = 0
      BY <3>1, <3>2
    <3> QED BY <3>3, Primed DEF T
  <2>4. totalSize' = 0 /\ moved' = 0
    BY <1>7 DEF StartWorkers, PhaseInv, Resting
  <2> QED BY <1>4, <2>1, <2>2, <2>3, <2>4
<1>8. CASE NextTest
  <2>1. /\ \A w \in Workers : pc'[w] = "done" /\ remaining'[w] = 0
        /\ handing' = {} /\ next' = 0 /\ totalSize' = 0 /\ test' = "upload"
    <3>1. PhaseInv' /\ mainPc' = "start"
      BY <1>8, PhaseStep DEF NextTest
    <3> QED BY <1>8, <3>1 DEF NextTest, PhaseInv, Resting
  <2>2. K' = 0
    <3>1. \A w \in Pending' : out'[w] = 0
      BY <2>1 DEF Pending
    <3> QED BY <1>3, <3>1, TotalZero
  <2>3. R' = 0
    BY <1>3, <2>1, TotalZero
  <2>4. T' = 0
    <3>1. next' = 0
      BY <2>1
    <3>2. Total(Item', 1..0) = 0
      BY TotalNone
    <3>3. Total(Item', 1..next') = 0
      BY <3>1, <3>2
    <3> QED BY <3>3, Primed DEF T
  <2> QED BY <1>4, <2>1, <2>2, <2>3, <2>4
<1>9. ASSUME NEW w \in Workers, Send(w) PROVE UnitsInv'
  <2>1. /\ UNCHANGED <<out, totalSize, late, test, moved, mainPc>> /\ Pending' = Pending
        /\ next' = next + 1 /\ next + 1 \in 1..ToSend
        /\ remaining[w] = 0 /\ remaining'[w] = Item[next + 1]
        /\ \A v \in Workers \ {w} : remaining'[v] = remaining[v]
    <3>1. next + 1 \in 1..ToSend
      BY <1>1, <1>9, TestConstants DEF Send, TypeOK
    <3> QED BY <1>1, <1>9, <3>1 DEF Send, Pending, PhaseInv
  <2>2. Item \in [1..ToSend -> Nat \ {0}] /\ Item[next + 1] \in Nat
    BY <2>1, TestConstants DEF TypeOK
  <2>3. K' = K
    BY <1>3, <2>1 DEF K
  <2>4. R' = R + Item[next + 1]
    <3>1. \A v \in Workers : remaining[v] \in Nat /\ remaining'[v] \in Nat
      BY <1>1
    <3>2. Total(remaining', Workers) = Total(remaining, Workers) - remaining[w] + remaining'[w]
      BY <1>1, <2>1, <3>1, TotalUpdate
    <3> QED BY <1>1, <1>3, <2>1, <2>2, <3>2 DEF R
  <2>5. T' = T + Item[next + 1]
    <3>1. 1..(next + 1) = (1..next) \cup {next + 1} /\ next + 1 \notin 1..next
      BY <1>1
    <3>2. IsFiniteSet(1..next)
      BY <1>1, FS_Interval
    <3>3. \A k \in (1..next) \cup {next + 1} : Item[k] \in Nat
      <4>1. \A k \in (1..next) \cup {next + 1} : k \in 1..ToSend
        BY <1>1, <2>1, TestConstants DEF TypeOK
      <4> QED BY <2>2, <4>1
    <3>4. Total(Item, (1..next) \cup {next + 1}) = Total(Item, 1..next) + Item[next + 1]
      BY <3>1, <3>2, <3>3, TotalAdd
    <3> QED BY <1>3, <2>1, <3>1, <3>4 DEF T
  <2>6. Alive' => Alive
    BY <2>1 DEF Alive
  <2> QED BY <1>1, <1>2, <1>4, <2>1, <2>2, <2>3, <2>4, <2>5, <2>6
<1>10. ASSUME NEW w \in Workers, Collect(w) PROVE UnitsInv'
  <2>1. /\ UNCHANGED <<out, remaining, late, test, moved, mainPc, next>>
        /\ Pending' = Pending \ {w} /\ w \in Pending /\ totalSize' = totalSize + out[w]
    BY <1>10 DEF Collect, Pending, PhaseInv
  <2>2. K = K' + out[w] /\ K' \in Nat
    <3>1. \A v \in Pending : out[v] \in Nat
      BY <1>1
    <3>2. /\ Total(out, Pending) = Total(out, Pending \ {w}) + out[w]
          /\ Total(out, Pending \ {w}) \in Nat
      BY <1>1, <2>1, <3>1, TotalWithout
    <3> QED BY <1>3, <2>1, <3>2 DEF K
  <2>3. R' = R /\ T' = T /\ out[w] \in Nat /\ (Alive' => Alive)
    BY <1>1, <1>3, <2>1 DEF R, T, Alive
  <2> QED BY <1>1, <1>2, <1>4, <2>1, <2>2, <2>3
<1>11. ASSUME NEW w \in Workers, Download(w) PROVE UnitsInv'
  <2>1. PICK down \in Moves(w) :
          /\ out' = [out EXCEPT ![w] = @ + CountDown(down, Ask(w))]
          /\ remaining' = [remaining EXCEPT ![w] = Left(w, down)]
          /\ moved' = moved + down
    BY <1>11 DEF Download
  <2>2. down \in Nat
    BY <1>11, AskBound DEF Download
  <2> DEFINE taken == IF down < remaining[w] THEN down ELSE remaining[w]
  <2>3. taken \in Nat /\ taken <= down /\ Left(w, down) = remaining[w] - taken
    BY <1>1, <2>2 DEF Left
  <2> HIDE DEF taken
  <2>4. /\ out'[w] = out[w] + down /\ remaining'[w] = remaining[w] - taken
        /\ \A v \in Workers \ {w} : out'[v] = out[v] /\ remaining'[v] = remaining[v]
    BY <1>1, <2>1, <2>3 DEF CountDown
  <2>5. /\ UNCHANGED <<pc, handing, totalSize, late, test, mainPc, next>>
        /\ pc[w] = "moving" /\ moved' = moved + down /\ test = "download"
    BY <1>11, <2>1 DEF Download
  <2>6. K' = K + down /\ R' = R - taken
    BY <2>2, <2>3, <2>4, <2>5, RequestMoves DEF K, R
  <2>7. T' = T /\ (Alive' => Alive)
    BY <1>3, <2>5 DEF T, Alive
  <2> QED BY <1>1, <1>2, <1>4, <2>2, <2>3, <2>5, <2>6, <2>7
<1>12. ASSUME NEW w \in Workers, Upload(w) PROVE UnitsInv'
  <2>1. Ask(w) \in 1..remaining[w] /\ Ask(w) \in Nat
    BY <1>1, <1>12, AskBound DEF Upload
  <2>2. /\ out'[w] = out[w] + Ask(w) /\ remaining'[w] = remaining[w] - Ask(w)
        /\ \A v \in Workers \ {w} : out'[v] = out[v] /\ remaining'[v] = remaining[v]
    BY <1>1, <1>12 DEF Upload
  <2>3. /\ UNCHANGED <<pc, handing, totalSize, late, test, mainPc, next>>
        /\ pc[w] = "moving" /\ test = "upload"
    BY <1>12 DEF Upload
  <2>4. K' = K + Ask(w) /\ R' = R - Ask(w)
    BY <2>1, <2>2, <2>3, RequestMoves DEF K, R
  <2>5. T' = T /\ (Alive' => Alive)
    BY <1>3, <2>3 DEF T, Alive
  <2> QED BY <1>1, <1>2, <1>4, <2>1, <2>3, <2>4, <2>5
<1>13. ASSUME NEW w \in Workers, Finish(w) PROVE UnitsInv'
  <2>1. /\ UNCHANGED <<out, totalSize, late, test, moved, mainPc, next>> /\ Pending' = Pending
        /\ remaining'[w] = 0 /\ remaining[w] \in Nat /\ (remaining[w] = 0 \/ late)
        /\ \A v \in Workers \ {w} : remaining'[v] = remaining[v]
    BY <1>1, <1>13 DEF Finish, Pending
  <2>2. R' = R - remaining[w]
    <3>1. \A v \in Workers : remaining[v] \in Nat /\ remaining'[v] \in Nat
      BY <1>1
    <3>2. Total(remaining', Workers) = Total(remaining, Workers) - remaining[w] + remaining'[w]
      BY <1>1, <2>1, <3>1, TotalUpdate
    <3> QED BY <1>1, <1>3, <2>1, <3>2 DEF R
  <2>3. K' = K /\ T' = T /\ (Alive' => Alive)
    BY <1>3, <2>1 DEF K, T, Alive
  <2> QED BY <1>1, <1>2, <1>4, <2>1, <2>2, <2>3
<1> QED BY <1>5, <1>6, <1>7, <1>8, <1>9, <1>10, <1>11, <1>12, <1>13 DEF Next, Coordinator, Worker

(* The invariant holds at the start, ...                                    *)
LEMMA TestInitially == Init => TestInv
<1> SUFFICES ASSUME Init PROVE TestInv
  OBVIOUS
<1>1. TypeOK
  BY TypeInit
<1>2. PhaseInv
  BY DEF Init, PhaseInv, Resting, DoneWorkers
<1>3. SizesInv /\ DownloadInv
  <2>1. \A w \in Workers : out[w] = 0 /\ remaining[w] = 0
    BY DEF Init
  <2>2. Total(out, Pending) = 0
    <3>1. \A w \in Pending : out[w] = 0
      BY <2>1 DEF Pending
    <3> QED BY <3>1, TotalZero
  <2>3. Total(remaining, Workers) = 0
    BY <2>1, TotalZero
  <2>4. Total(Item, 1..next) = 0
    <3>1. 1..next = {}
      BY DEF Init
    <3>2. Total(Item, {}) = 0
      BY TotalZero
    <3> QED BY <3>1, <3>2
  <2>5. totalSize = 0 /\ moved = 0
    BY DEF Init
  <2> QED BY <2>2, <2>3, <2>4, <2>5 DEF SizesInv, DownloadInv
<1> QED BY <1>1, <1>2, <1>3 DEF TestInv

(* ... every step keeps it, ...                                             *)
LEMMA TestKeeps == TestInv /\ [Next]_vars => TestInv'
<1> SUFFICES ASSUME TestInv, [Next]_vars PROVE TestInv'
  OBVIOUS
<1>1. TypeOK'
  BY TypeStep DEF TestInv
<1>2. PhaseInv'
  BY PhaseStep DEF TestInv
<1>3. UnitsInv'
  BY <1>1, UnitsStep DEF TestInv, UnitsInv
<1> QED BY <1>1, <1>2, <1>3 DEF TestInv, UnitsInv

(* ... so it always holds.                                                  *)
LEMMA TestInvariant == Spec => []TestInv
BY TestInitially, TestKeeps, PTL DEF Spec
-----------------------------------------------------------------------------
(* What the test promises *)

(* At the result no list is left over, and nothing is left of a size.       *)
LEMMA AllReceived ==
  ASSUME TestInv, mainPc = "result"
  PROVE  handing = {} /\ Pending = {} /\ \A w \in Workers : pc[w] = "done" /\ remaining[w] = 0
<1>1. /\ received = Cardinality(Workers) /\ received + Cardinality(handing) = Cardinality(Workers)
      /\ \A w \in Workers : pc[w] = "done" /\ remaining[w] = 0
  BY DEF TestInv, PhaseInv
<1>2. IsFiniteSet(handing) /\ Cardinality(handing) \in Nat /\ Cardinality(Workers) \in Nat
  BY TestConstants, FS_Subset, FS_CardinalityType DEF TestInv, TypeOK
<1>3. Cardinality(handing) = 0
  BY <1>1, <1>2
<1>4. handing = {}
  BY <1>2, <1>3, FS_EmptySet
<1> QED BY <1>1, <1>4 DEF Pending

(* Every goroutine of a test has ended when its result is there.            *)
THEOREM NobodyStays == Spec => []NobodyLeftBehind
<1>1. TestInv => NobodyLeftBehind
  BY AllReceived DEF NobodyLeftBehind
<1> QED BY <1>1, TestInvariant, PTL

(* The reported download is what came over the connections.                 *)
THEOREM DownloadIsExact == Spec => []DownloadIsWhatCame
<1>1. TestInv => DownloadIsWhatCame
  <2> SUFFICES ASSUME TestInv, test = "download", mainPc = "result" PROVE totalSize = moved
    BY DEF DownloadIsWhatCame
  <2>1. Pending = {}
    BY AllReceived
  <2>2. Total(out, {}) = 0
    BY TotalZero
  <2>3. moved = totalSize + 0 /\ totalSize \in Nat
    BY <2>1, <2>2 DEF TestInv, DownloadInv, Alive, TypeOK
  <2> QED BY <2>3
<1> QED BY <1>1, TestInvariant, PTL

(* Every size is moved, unless the test was cut short, and an upload counts *)
(* none of them twice.                                                      *)
THEOREM SizesAreMoved == Spec => []MovesWhatWasAskedFor
<1>1. TestInv => MovesWhatWasAskedFor
  <2> SUFFICES ASSUME TestInv, mainPc = "result"
               PROVE  /\ ~late => totalSize >= AllItems
                      /\ test = "upload" => totalSize <= AllItems
    BY DEF MovesWhatWasAskedFor
  <2>1. Total(out, Pending) = 0 /\ Total(remaining, Workers) = 0
    <3>1. Pending = {} /\ \A w \in Workers : remaining[w] = 0
      BY AllReceived
    <3>2. Total(out, {}) = 0 /\ Total(remaining, Workers) = 0
      BY <3>1, TotalZero
    <3> QED BY <3>1, <3>2
  <2>2. Total(Item, 1..next) = AllItems
    BY DEF TestInv, PhaseInv, AllItems
  <2>3. totalSize \in Nat /\ Alive /\ SizesInv
    BY DEF TestInv, TypeOK, Alive
  <2>4. /\ ~late => totalSize + 0 + 0 >= AllItems
        /\ test = "upload" => totalSize + 0 + 0 <= AllItems
    BY <2>1, <2>2, <2>3 DEF SizesInv
  <2> QED BY <2>3, <2>4
<1> QED BY <1>1, TestInvariant, PTL
=============================================================================
