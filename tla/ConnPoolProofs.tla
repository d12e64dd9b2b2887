--------------------------- MODULE ConnPoolProofs ---------------------------
(* Proofs about ConnPool, for every set of goroutines, list of hosts and    *)
(* limit.                                                                   *)
EXTENDS ConnPool, FiniteSetTheorems, FunctionTheorems, SequenceTheorems, TLAPS

-----------------------------------------------------------------------------
(* Types *)

(* Facts about the constants that every proof uses.                         *)
LEMMA Constants ==
  /\ Len(Hosts) \in Nat \ {0}
  /\ DOMAIN Hosts = 1..Len(Hosts)
  /\ \A i \in Int : HostAt(i) \in HostSet
  /\ NoConn \in PConn
  /\ Capacity \in Nat /\ MaxOpen \in Nat
<1>1. Len(Hosts) \in Nat \ {0} /\ DOMAIN Hosts = 1..Len(Hosts)
  BY PoolAssumption, LenProperties
<1>2. ASSUME NEW i \in Int PROVE HostAt(i) \in HostSet
  <2>1. (i % Len(Hosts)) + 1 \in 1..Len(Hosts)
    BY <1>1
  <2> QED BY <2>1, <1>1 DEF HostAt, HostSet
<1>3. NoConn \in PConn
  BY <1>1 DEF NoConn, PConn, HostSet
<1>4. Capacity \in Nat /\ MaxOpen \in Nat
  BY <1>1, PoolAssumption DEF Capacity, MaxOpen
<1> QED BY <1>1, <1>2, <1>3, <1>4

(* Counting a connection in or out keeps the type of the counts.            *)
LEMMA CountTyped ==
  ASSUME NEW f \in [HostSet -> Int], NEW h \in HostSet, NEW n \in Int
  PROVE  [f EXCEPT ![h] = n] \in [HostSet -> Int]
  OBVIOUS

(* The initial state is well typed.                                         *)
LEMMA TypeInit == Init => TypeOK
<1> SUFFICES ASSUME Init PROVE TypeOK
  OBVIOUS
<1>1. freeConnCh \in Seq(PConn)
  BY DEF Init
<1>2. calls \in [Workers -> 0..MaxCalls]
  BY PoolAssumption DEF Init
<1>3. conn \in [Workers -> PConn]
  BY Constants DEF Init
<1>4. pc \in [Workers -> PCs]
  BY DEF Init, PCs
<1>5. numConnsPerHost \in [HostSet -> Int] /\ resume \in [Workers -> {"poll", "reserve"}]
  BY DEF Init
<1>6. connIdx \in Nat /\ rawConnIdx \in Nat /\ closed \in BOOLEAN
  BY DEF Init
<1>7. allCons = {} /\ toClose = {} /\ broken = {} /\ sockets = {}
  BY DEF Init
<1> QED BY <1>1, <1>2, <1>3, <1>4, <1>5, <1>6, <1>7 DEF TypeOK

(* Every step keeps the type of every variable.                             *)
LEMMA TypeStep == TypeOK /\ [Next]_vars => TypeOK'
<1> SUFFICES ASSUME TypeOK, [Next]_vars PROVE TypeOK'
  OBVIOUS
<1> USE DEF TypeOK, GoTo, Drop, PCs, poolVars, regVars
<1>1. CASE UNCHANGED vars
  BY <1>1 DEF vars
<1>2. ASSUME NEW w \in Workers, Start(w) PROVE TypeOK'
  <2>1. CASE Call(w)
    BY <2>1, PoolAssumption DEF Call, NewCall
  <2>2. CASE OpenRaw(w)
    <3>1. [idx |-> -(rawConnIdx + 1), host |-> HostAt(rawConnIdx)] \in PConn
      BY Constants DEF PConn
    <3> QED BY <2>2, <3>1, PoolAssumption DEF OpenRaw, NewCall
  <2>3. CASE CloseBegin(w)
    BY <2>3, PoolAssumption DEF CloseBegin, NewCall
  <2>4. CASE CloseAgain(w)
    BY <2>4, PoolAssumption DEF CloseAgain, NewCall
  <2> QED BY <1>2, <2>1, <2>2, <2>3, <2>4 DEF Start
<1>3. ASSUME NEW w \in Workers, GetIdleConn(w) PROVE TypeOK'
  <2>1. CASE Receive(w)
    <3>1. Head(freeConnCh) \in PConn /\ Tail(freeConnCh) \in Seq(PConn)
      BY <2>1, HeadTailProperties DEF Receive
    <3> QED BY <2>1, <3>1 DEF Receive
  <2>2. CASE PollEmpty(w)
    BY <2>2 DEF PollEmpty
  <2>3. CASE Reserve(w)
    <3>1. \A k \in 0..(Len(Hosts) - 1) :
            [idx |-> connIdx + 1, host |-> HostAt(connIdx + 1 + k)] \in PConn
      BY Constants DEF PConn
    <3>2. PICK k \in 0..(Len(Hosts) - 1) :
            LET host == HostAt(connIdx + 1 + k) IN
            /\ numConnsPerHost' = [numConnsPerHost EXCEPT ![host] = @ + 1]
            /\ conn' = [conn EXCEPT ![w] = [idx |-> connIdx + 1, host |-> host]]
      BY <2>3, Zenon DEF Reserve
    <3>3. conn' \in [Workers -> PConn]
      BY <3>1, <3>2
    <3>4. HostAt(connIdx + 1 + k) \in HostSet
      BY Constants
    <3>5. numConnsPerHost[HostAt(connIdx + 1 + k)] + 1 \in Int
      BY <3>4
    <3>6. numConnsPerHost' \in [HostSet -> Int]
      BY <3>2, <3>4, <3>5, CountTyped
    <3> QED BY <2>3, <3>3, <3>6 DEF Reserve
  <2>4. CASE ReservePanic(w)
    BY <2>4 DEF ReservePanic
  <2>5. CASE Block(w)
    BY <2>5 DEF Block
  <2>6. CASE Uncount(w)
    <3>1. conn[w].host \in HostSet
      BY DEF PConn
    <3>2. numConnsPerHost[conn[w].host] - 1 \in Int
      BY <3>1
    <3>3. numConnsPerHost' \in [HostSet -> Int]
      BY <2>6, <3>1, <3>2, CountTyped DEF Uncount, Uncounted
    <3> QED BY <2>6, <3>3 DEF Uncount, Uncounted
  <2>7. CASE Remove(w)
    BY <2>7 DEF Remove
  <2>8. CASE Shut(w)
    <3>1. resume[w] \in {"poll", "reserve"}
      OBVIOUS
    <3> QED BY <2>8, <3>1, Constants DEF Shut
  <2> QED BY <1>3, <2>1, <2>2, <2>3, <2>4, <2>5, <2>6, <2>7, <2>8 DEF GetIdleConn
<1>4. ASSUME NEW w \in Workers, OpenConn(w) PROVE TypeOK'
  <2>1. NoConn \in PConn
    BY Constants
  <2>2. ASSUME OpenError(w) PROVE conn' \in [Workers -> PConn] /\ pc' \in [Workers -> PCs]
    BY <2>1, <2>2 DEF OpenError
  <2>3. CASE DialOk(w)
    BY <2>3 DEF DialOk
  <2>4. CASE DialFail(w)
    BY <2>4, <2>2 DEF DialFail
  <2>5. CASE LoginOk(w)
    BY <2>5 DEF LoginOk
  <2>6. CASE LoginFail(w)
    BY <2>6, <2>2 DEF LoginFail
  <2>7. CASE Register(w)
    BY <2>7 DEF Register, Registered, Refuses
  <2>8. CASE RegisterClosed(w)
    BY <2>8, <2>2 DEF RegisterClosed, Refuses
  <2>9. CASE OpenFailed(w)
    <3>1. conn[w].host \in HostSet
      BY DEF PConn
    <3>2. numConnsPerHost[conn[w].host] - 1 \in Int
      BY <3>1
    <3>3. numConnsPerHost' \in [HostSet -> Int]
      BY <2>9, <3>1, <3>2, CountTyped DEF OpenFailed, Uncounted
    <3> QED BY <2>9, <2>1, <3>3 DEF OpenFailed, Uncounted
  <2> QED BY <1>4, <2>3, <2>4, <2>5, <2>6, <2>7, <2>8, <2>9 DEF OpenConn
<1>5. CASE \E w \in Workers : Operate(w) \/ Return(w)
  <2>1. PICK w \in Workers : Operate(w) \/ Return(w)
    BY <1>5
  <2>2. conn[w] \in PConn /\ NoConn \in PConn
    BY Constants
  <2>3. CASE Operate(w)
    BY <2>2, <2>3 DEF Operate
  <2>4. CASE Return(w)
    <3>1. Append(freeConnCh, conn[w]) \in Seq(PConn)
      BY <2>2
    <3> QED BY <2>2, <2>4, <3>1 DEF Return, Sent
  <2> QED BY <2>1, <2>3, <2>4
<1>6. ASSUME NEW w \in Workers, CloseOne(w) \/ CloseEnd(w) \/ RawClose(w) PROVE TypeOK'
  <2>1. NoConn \in PConn
    BY Constants
  <2> QED BY <1>6, <2>1 DEF CloseOne, CloseEnd, RawClose
<1> QED BY <1>1, <1>2, <1>3, <1>4, <1>5, <1>6 DEF Next, Step

(* Every variable keeps its type in every behaviour of the pool.            *)
THEOREM TypeCorrect == Spec => []TypeOK
BY TypeInit, TypeStep, PTL DEF Spec

-----------------------------------------------------------------------------
(* The inductive invariant of the lease *)

(* Indices in use were handed out by getIdleConn, so the next one is new.   *)
Fresh == \A c \in Counted : c.idx \in 1..connIdx

(* Only a connection of the pool is operated on, returned or uncounted.     *)
PooledUse ==
  \A w \in Workers :
    pc[w] \in {"uncount", "openFailed", "using", "returning"} => Pooled(conn[w])

CountInRange == \A h \in HostSet : numConnsPerHost[h] \in 0..ConnectionsPerHost

LeaseInv ==
  TypeOK /\ ExclusiveLease /\ Fresh /\ PooledUse /\ CountExact /\ CountInRange

(* A sequence without repetitions: receiving takes its head out of it, ...  *)
LEMMA RangeTail ==
  ASSUME NEW S, NEW s \in Seq(S), s # <<>>,
         \A i, j \in DOMAIN s : s[i] = s[j] => i = j
  PROVE  /\ Range(s) = Range(Tail(s)) \cup {Head(s)}
         /\ Head(s) \notin Range(Tail(s))
         /\ \A i, j \in DOMAIN Tail(s) : Tail(s)[i] = Tail(s)[j] => i = j
<1>1. /\ Len(s) \in Nat \ {0} /\ DOMAIN s = 1..Len(s)
      /\ Tail(s) \in Seq(S) /\ DOMAIN Tail(s) = 1..(Len(s) - 1)
      /\ \A i \in 1..(Len(s) - 1) : Tail(s)[i] = s[i + 1]
      /\ Head(s) = s[1]
  BY EmptySeq, LenProperties, HeadTailProperties
<1>2. \A i \in 1..(Len(s) - 1) : i + 1 \in 1..Len(s) /\ i + 1 # 1
  BY <1>1
<1>3. \A i \in 1..Len(s) : i = 1 \/ (i - 1 \in 1..(Len(s) - 1) /\ (i - 1) + 1 = i)
  BY <1>1
<1>4. Range(s) \subseteq Range(Tail(s)) \cup {Head(s)}
  <2> SUFFICES ASSUME NEW i \in 1..Len(s) PROVE s[i] \in Range(Tail(s)) \cup {Head(s)}
    BY <1>1 DEF Range
  <2>1. CASE i = 1
    BY <2>1, <1>1
  <2>2. CASE i - 1 \in 1..(Len(s) - 1) /\ (i - 1) + 1 = i
    <3>1. Tail(s)[i - 1] = s[i] /\ i - 1 \in DOMAIN Tail(s)
      BY <2>2, <1>1
    <3> QED BY <3>1 DEF Range
  <2> QED BY <2>1, <2>2, <1>3
<1>5. Range(Tail(s)) \cup {Head(s)} \subseteq Range(s)
  BY <1>1, <1>2 DEF Range
<1>6. Head(s) \notin Range(Tail(s))
  BY <1>1, <1>2 DEF Range
<1>7. \A i, j \in DOMAIN Tail(s) : Tail(s)[i] = Tail(s)[j] => i = j
  BY <1>1, <1>2
<1> QED BY <1>4, <1>5, <1>6, <1>7

(* ... and returning a connection that is not in it adds it once.           *)
LEMMA RangeAppend ==
  ASSUME NEW S, NEW s \in Seq(S), NEW e \in S, e \notin Range(s),
         \A i, j \in DOMAIN s : s[i] = s[j] => i = j
  PROVE  /\ Range(Append(s, e)) = Range(s) \cup {e}
         /\ \A i, j \in DOMAIN Append(s, e) : Append(s, e)[i] = Append(s, e)[j] => i = j
<1>1. /\ Len(s) \in Nat /\ DOMAIN s = 1..Len(s)
      /\ DOMAIN Append(s, e) = 1..(Len(s) + 1)
      /\ \A i \in 1..Len(s) : Append(s, e)[i] = s[i]
      /\ Append(s, e)[Len(s) + 1] = e
  BY LenProperties
<1>2. \A i \in 1..(Len(s) + 1) : i \in 1..Len(s) \/ i = Len(s) + 1
  BY <1>1
<1>3. \A i \in 1..Len(s) : i \in 1..(Len(s) + 1)
  BY <1>1
<1>4. Len(s) + 1 \in 1..(Len(s) + 1)
  BY <1>1
<1>5. Range(Append(s, e)) = Range(s) \cup {e}
  BY <1>1, <1>2, <1>3, <1>4 DEF Range
<1>6. \A i \in 1..Len(s) : s[i] \in Range(s)
  BY <1>1 DEF Range
<1>7. \A i, j \in DOMAIN Append(s, e) : Append(s, e)[i] = Append(s, e)[j] => i = j
  BY <1>1, <1>2, <1>6
<1> QED BY <1>5, <1>7

(* Finitely many connections are counted at any time.                       *)
LEMMA CountedFinite ==
  ASSUME TypeOK, Fresh
  PROVE  /\ IsFiniteSet(Counted)
         /\ \A h \in HostSet : IsFiniteSet(CountedOn(h))
         /\ IsFiniteSet(HostSet) /\ Cardinality(HostSet) <= Len(Hosts)
<1>1. IsFiniteSet(HostSet) /\ Cardinality(HostSet) <= Len(Hosts)
  <2>1. Hosts \in [1..Len(Hosts) -> HostSet] /\ Len(Hosts) \in Nat
    BY PoolAssumption, LenProperties
  <2>2. HostSet = Range(Hosts)
    BY DEF HostSet, Range
  <2>3. Hosts \in Surjection(1..Len(Hosts), HostSet)
    BY <2>1, <2>2, Fun_RangeProperties
  <2>4. IsFiniteSet(1..Len(Hosts)) /\ Cardinality(1..Len(Hosts)) = Len(Hosts)
    BY <2>1, FS_Interval, PoolAssumption
  <2> QED BY <2>3, <2>4, FS_Surjection
<1>2. IsFiniteSet((1..connIdx) \X HostSet)
  <2>1. IsFiniteSet(1..connIdx)
    BY FS_Interval DEF TypeOK
  <2> QED BY <1>1, <2>1, FS_Product
<1>3. Counted \subseteq PConn
  BY LenProperties DEF Counted, InHand, TypeOK, Range
<1>4. [c \in Counted |-> <<c.idx, c.host>>] \in Injection(Counted, (1..connIdx) \X HostSet)
  <2> DEFINE f == [c \in Counted |-> <<c.idx, c.host>>]
  <2>1. f \in [Counted -> (1..connIdx) \X HostSet]
    BY <1>3 DEF Fresh, PConn
  <2>2. \A a, b \in Counted : f[a] = f[b] => a = b
    BY <1>3 DEF PConn
  <2> QED BY <2>1, <2>2, Fun_IsInj
<1>5. IsFiniteSet(Counted)
  BY <1>2, <1>4, FS_Injection
<1>6. ASSUME NEW h \in HostSet PROVE IsFiniteSet(CountedOn(h))
  BY <1>5, FS_Subset DEF CountedOn
<1> QED BY <1>1, <1>5, <1>6

(* What the steps of one goroutine do to the lease. Most steps leave it     *)
(* alone; they may still use up an index.                                   *)
Silent ==
  /\ UNCHANGED <<numConnsPerHost, freeConnCh>>
  /\ connIdx' \in Nat /\ connIdx' >= connIdx
  /\ \A v \in Workers : /\ Counting(v)' <=> Counting(v)
                        /\ Counting(v) => conn'[v] = conn[v]

Alone(w) == \A v \in Workers \ {w} : pc'[v] = pc[v] /\ conn'[v] = conn[v]

LEMMA InHandAdd ==
  ASSUME NEW w \in Workers, Alone(w), ~Counting(w), Counting(w)'
  PROVE  InHand' = InHand \cup {conn'[w]}
<1>1. \A v \in Workers \ {w} : (Counting(v)' <=> Counting(v)) /\ conn'[v] = conn[v]
  BY DEF Alone, Counting
<1> QED BY <1>1 DEF InHand

LEMMA InHandRemove ==
  ASSUME NEW w \in Workers, Alone(w), Counting(w), ~Counting(w)', ExclusiveLease
  PROVE  InHand' = InHand \ {conn[w]}
<1>1. \A v \in Workers \ {w} : (Counting(v)' <=> Counting(v)) /\ conn'[v] = conn[v]
  BY DEF Alone, Counting
<1>2. \A v \in Workers \ {w} : Counting(v) => conn[v] # conn[w]
  BY DEF ExclusiveLease
<1> QED BY <1>1, <1>2 DEF InHand

(* A silent step preserves the invariant.                                   *)
LEMMA SilentPreserves ==
  ASSUME LeaseInv, Silent, TypeOK', PooledUse'
  PROVE  LeaseInv'
<1>1. InHand' = InHand
  BY DEF InHand, Silent
<1>2. Counted' = Counted
  BY <1>1 DEF Counted, Silent
<1>3. ExclusiveLease'
  BY <1>1 DEF LeaseInv, ExclusiveLease, Silent
<1>4. Fresh'
  BY <1>2 DEF LeaseInv, Fresh, Silent, TypeOK
<1>5. CountExact' /\ CountInRange'
  BY <1>2 DEF LeaseInv, CountExact, CountInRange, CountedOn, Silent
<1> QED BY <1>3, <1>4, <1>5 DEF LeaseInv

(* Receive moves the head of the channel into the goroutine's hand.         *)
LEMMA ReceivePreserves ==
  ASSUME LeaseInv, NEW w \in Workers, Receive(w), TypeOK'
  PROVE  /\ LeaseInv'
         /\ Alone(w) /\ ~Counting(w) /\ Counting(w)' /\ Counted' = Counted
         /\ conn'[w] \in Counted \ InHand
<1> DEFINE c == Head(freeConnCh)
<1> USE DEF LeaseInv
<1>1. /\ Range(freeConnCh) = Range(freeConnCh') \cup {c} /\ c \notin Range(freeConnCh')
      /\ \A i, j \in DOMAIN freeConnCh' : freeConnCh'[i] = freeConnCh'[j] => i = j
  BY RangeTail DEF Receive, TypeOK, ExclusiveLease
<1>2. Alone(w) /\ conn'[w] = c /\ ~Counting(w)
      /\ pc'[w] \in {"uncount", "using"}
  BY DEF Receive, TypeOK, Alone, GoTo, Counting
<1>3. c \in Counted /\ c \notin InHand /\ Pooled(c)
  BY <1>1 DEF Counted, ExclusiveLease, Fresh, Pooled, TypeOK
<1>4. Counting(w)'
  BY <1>2, <1>3 DEF Counting, Pooled
<1>5. InHand' = InHand \cup {c}
  BY <1>2, <1>4, InHandAdd
<1>6. Counted' = Counted
  BY <1>1, <1>5 DEF Counted
<1>7. ExclusiveLease'
  <2>1. \A u, v \in Workers : Counting(u)' /\ Counting(v)' /\ conn'[u] = conn'[v] => u = v
    <3>1. \A v \in Workers \ {w} : (Counting(v)' <=> Counting(v)) /\ conn'[v] = conn[v]
      BY <1>2 DEF Alone, Counting
    <3>2. \A v \in Workers \ {w} : Counting(v) => conn[v] # c
      BY <1>3 DEF InHand
    <3> QED BY <3>1, <3>2, <1>2 DEF ExclusiveLease
  <2>2. Range(freeConnCh)' \cap InHand' = {}
    BY <1>1, <1>5 DEF ExclusiveLease
  <2> QED BY <1>1, <2>1, <2>2 DEF ExclusiveLease
<1>8. PooledUse'
  BY <1>2, <1>3 DEF PooledUse, Alone, Pooled
<1>9. Fresh' /\ CountExact' /\ CountInRange'
  BY <1>6 DEF Fresh, CountExact, CountInRange, CountedOn, Receive
<1> QED BY <1>2, <1>3, <1>4, <1>6, <1>7, <1>8, <1>9

(* Return moves it back, at the end of the channel.                         *)
LEMMA ReturnPreserves ==
  ASSUME LeaseInv, NEW w \in Workers, Return(w), TypeOK'
  PROVE  /\ LeaseInv'
         /\ Alone(w) /\ Counting(w) /\ ~Counting(w)' /\ Counted' = Counted
<1> DEFINE c == conn[w]
<1> USE DEF LeaseInv
<1>1. Alone(w) /\ Counting(w) /\ ~Counting(w)' /\ c \in PConn
  BY DEF Return, TypeOK, Alone, GoTo, Drop, Counting, PooledUse, Sent
<1>2. c \in InHand /\ c \notin Range(freeConnCh)
  BY <1>1 DEF InHand, ExclusiveLease
<1>3. /\ Range(freeConnCh') = Range(freeConnCh) \cup {c}
      /\ \A i, j \in DOMAIN freeConnCh' : freeConnCh'[i] = freeConnCh'[j] => i = j
  <2>1. freeConnCh \in Seq(PConn) /\ freeConnCh' = Append(freeConnCh, c)
        /\ \A i, j \in DOMAIN freeConnCh : freeConnCh[i] = freeConnCh[j] => i = j
    BY DEF Return, TypeOK, ExclusiveLease, Sent
  <2> HIDE DEF c
  <2> QED BY <1>1, <1>2, <2>1, RangeAppend
<1>4. InHand' = InHand \ {c}
  BY <1>1, InHandRemove
<1>5. Counted' = Counted
  BY <1>2, <1>3, <1>4 DEF Counted
<1>6. ExclusiveLease'
  <2>1. \A u, v \in Workers : Counting(u)' /\ Counting(v)' /\ conn'[u] = conn'[v] => u = v
    <3>1. \A v \in Workers \ {w} : (Counting(v)' <=> Counting(v)) /\ conn'[v] = conn[v]
      BY <1>1 DEF Alone, Counting
    <3> QED BY <3>1, <1>1 DEF ExclusiveLease
  <2>2. Range(freeConnCh)' \cap InHand' = {}
    BY <1>3, <1>4 DEF ExclusiveLease
  <2> QED BY <1>3, <2>1, <2>2 DEF ExclusiveLease
<1>7. PooledUse'
  BY <1>1 DEF PooledUse, Alone, Return, GoTo, TypeOK, Sent
<1>8. Fresh' /\ CountExact' /\ CountInRange'
  BY <1>5 DEF Fresh, CountExact, CountInRange, CountedOn, Return, Sent
<1> QED BY <1>1, <1>5, <1>6, <1>7, <1>8

(* Reserve counts a new connection on a host below its limit.               *)
LEMMA ReservePreserves ==
  ASSUME LeaseInv, NEW w \in Workers, Reserve(w), TypeOK'
  PROVE  /\ LeaseInv'
         /\ Alone(w) /\ ~Counting(w) /\ Counting(w)'
         /\ \E host \in HostSet :
              /\ HasRoom(host) /\ conn'[w] = [idx |-> connIdx + 1, host |-> host]
              /\ conn'[w] \notin Counted /\ Counted' = Counted \cup {conn'[w]}
<1> USE DEF LeaseInv
<1>1. PICK k \in 0..(Len(Hosts) - 1) :
        LET host == HostAt(connIdx + 1 + k) IN
        /\ HasRoom(host)
        /\ numConnsPerHost' = [numConnsPerHost EXCEPT ![host] = @ + 1]
        /\ conn' = [conn EXCEPT ![w] = [idx |-> connIdx + 1, host |-> host]]
  BY Zenon DEF Reserve
<1> DEFINE host == HostAt(connIdx + 1 + k)
           new == [idx |-> connIdx + 1, host |-> host]
<1>2. host \in HostSet /\ connIdx \in Nat /\ connIdx' = connIdx + 1
      /\ freeConnCh' = freeConnCh
  BY Constants DEF TypeOK, Reserve
<1> HIDE DEF host
<1>3. /\ HasRoom(host)
      /\ numConnsPerHost' = [numConnsPerHost EXCEPT ![host] = @ + 1]
      /\ conn' = [conn EXCEPT ![w] = new]
  BY <1>1 DEF host
<1>4. Alone(w) /\ conn'[w] = new /\ pc'[w] = "dial" /\ ~Counting(w) /\ Counting(w)'
  BY <1>2, <1>3 DEF Reserve, TypeOK, Alone, GoTo, Counting, Pooled
<1>5. new \notin Counted
  BY <1>2 DEF Fresh
<1>6. InHand' = InHand \cup {new}
  BY <1>4, InHandAdd
<1>7. Counted' = Counted \cup {new}
  BY <1>2, <1>6 DEF Counted
<1>8. ExclusiveLease'
  <2>1. \A u, v \in Workers : Counting(u)' /\ Counting(v)' /\ conn'[u] = conn'[v] => u = v
    <3>1. \A v \in Workers \ {w} : (Counting(v)' <=> Counting(v)) /\ conn'[v] = conn[v]
      BY <1>4 DEF Alone, Counting
    <3>2. \A v \in Workers \ {w} : Counting(v) => conn[v] # new
      BY <1>5 DEF Counted, InHand
    <3> QED BY <3>1, <3>2, <1>4 DEF ExclusiveLease
  <2>2. Range(freeConnCh)' \cap InHand' = {}
    BY <1>2, <1>5, <1>6 DEF ExclusiveLease, Counted
  <2> QED BY <1>2, <2>1, <2>2 DEF ExclusiveLease
<1>9. Fresh'
  BY <1>2, <1>7 DEF Fresh
<1>10. PooledUse'
  BY <1>4 DEF PooledUse, Alone
<1>11. ASSUME NEW h \in HostSet
       PROVE  /\ numConnsPerHost'[h] = Cardinality(CountedOn(h)')
              /\ numConnsPerHost'[h] \in 0..ConnectionsPerHost
  <2>1. IsFiniteSet(CountedOn(h)) /\ numConnsPerHost[h] = Cardinality(CountedOn(h))
        /\ numConnsPerHost[h] \in 0..ConnectionsPerHost
    BY CountedFinite DEF CountExact, CountInRange
  <2>2. CASE h = host
    <3>1. CountedOn(h)' = CountedOn(h) \cup {new} /\ new \notin CountedOn(h)
      BY <1>5, <1>7, <2>2 DEF CountedOn
    <3>2. Cardinality(CountedOn(h)') = numConnsPerHost[h] + 1
      <4> HIDE DEF new
      <4> QED BY <3>1, <2>1, FS_AddElement
    <3>3. numConnsPerHost'[h] = numConnsPerHost[h] + 1
      BY <1>3, <2>2 DEF TypeOK
    <3> QED BY <3>2, <3>3, <2>1, <2>2, <1>3, PoolAssumption DEF HasRoom
  <2>3. CASE h # host
    <3>1. CountedOn(h)' = CountedOn(h)
      BY <1>7, <2>3 DEF CountedOn
    <3>2. numConnsPerHost'[h] = numConnsPerHost[h]
      BY <1>3, <2>3 DEF TypeOK
    <3> QED BY <3>1, <3>2, <2>1
  <2> QED BY <2>2, <2>3
<1> QED BY <1>2, <1>3, <1>4, <1>5, <1>7, <1>8, <1>9, <1>10, <1>11 DEF CountExact, CountInRange

(* Uncount and OpenFailed give a slot back with the connection in hand.     *)
LEMMA ReleasePreserves ==
  ASSUME LeaseInv, NEW w \in Workers, Uncount(w) \/ OpenFailed(w), TypeOK'
  PROVE  /\ LeaseInv'
         /\ Alone(w) /\ Counting(w) /\ ~Counting(w)' /\ Counted' = Counted \ {conn[w]}
<1> USE DEF LeaseInv
<1> DEFINE c == conn[w]
<1>1. /\ Alone(w) /\ Counting(w) /\ ~Counting(w)' /\ c \in PConn
      /\ numConnsPerHost' = [numConnsPerHost EXCEPT ![c.host] = @ - 1]
      /\ freeConnCh' = freeConnCh /\ connIdx' = connIdx
  BY DEF Uncount, OpenFailed, TypeOK, Alone, GoTo, Drop, Counting, PooledUse, Uncounted
<1>2. c \in InHand /\ c \notin Range(freeConnCh)
  BY <1>1 DEF InHand, ExclusiveLease
<1>3. InHand' = InHand \ {c}
  BY <1>1, InHandRemove
<1>4. Counted' = Counted \ {c} /\ c \in Counted
  BY <1>1, <1>2, <1>3 DEF Counted
<1>5. ExclusiveLease'
  <2>1. \A u, v \in Workers : Counting(u)' /\ Counting(v)' /\ conn'[u] = conn'[v] => u = v
    <3>1. \A v \in Workers \ {w} : (Counting(v)' <=> Counting(v)) /\ conn'[v] = conn[v]
      BY <1>1 DEF Alone, Counting
    <3> QED BY <3>1, <1>1 DEF ExclusiveLease
  <2>2. Range(freeConnCh)' \cap InHand' = {}
    BY <1>1, <1>3 DEF ExclusiveLease
  <2> QED BY <1>1, <2>1, <2>2 DEF ExclusiveLease
<1>6. Fresh'
  BY <1>1, <1>4 DEF Fresh
<1>7. PooledUse'
  BY <1>1 DEF PooledUse, Alone, Uncount, OpenFailed, GoTo, TypeOK, Uncounted
<1>8. ASSUME NEW h \in HostSet
      PROVE  /\ numConnsPerHost'[h] = Cardinality(CountedOn(h)')
             /\ numConnsPerHost'[h] \in 0..ConnectionsPerHost
  <2>1. IsFiniteSet(CountedOn(h)) /\ numConnsPerHost[h] = Cardinality(CountedOn(h))
        /\ numConnsPerHost[h] \in 0..ConnectionsPerHost
    BY CountedFinite DEF CountExact, CountInRange
  <2>2. CASE h = c.host
    <3>1. CountedOn(h)' = CountedOn(h) \ {c} /\ c \in CountedOn(h)
      BY <1>4, <2>2 DEF CountedOn
    <3>2. Cardinality(CountedOn(h)') = numConnsPerHost[h] - 1 /\ IsFiniteSet(CountedOn(h)')
      BY <3>1, <2>1, FS_RemoveElement
    <3>3. Cardinality(CountedOn(h)') \in Nat
      BY <3>2, FS_CardinalityType
    <3>4. numConnsPerHost'[h] = numConnsPerHost[h] - 1
      BY <1>1, <2>2 DEF TypeOK
    <3> QED BY <3>2, <3>3, <3>4, <2>1, PoolAssumption
  <2>3. CASE h # c.host
    <3>1. CountedOn(h)' = CountedOn(h)
      BY <1>4, <2>3 DEF CountedOn
    <3>2. numConnsPerHost'[h] = numConnsPerHost[h]
      BY <1>1, <2>3 DEF TypeOK
    <3> QED BY <3>1, <3>2, <2>1
  <2> QED BY <2>2, <2>3
<1> QED BY <1>1, <1>4, <1>5, <1>6, <1>7, <1>8 DEF CountExact, CountInRange

(* Everything else is silent: it changes neither the channel nor what a     *)
(* goroutine holds of the pool.                                             *)
LEMMA OthersSilent ==
  ASSUME LeaseInv, NEW w \in Workers,
         \/ Start(w) \/ (OpenConn(w) /\ ~OpenFailed(w))
         \/ PollEmpty(w) \/ ReservePanic(w) \/ Block(w) \/ Remove(w) \/ Shut(w)
         \/ Operate(w) \/ RawClose(w) \/ CloseOne(w) \/ CloseEnd(w)
  PROVE  Silent /\ PooledUse'
<1> DEFINE OnlyMoves ==
      /\ Alone(w) /\ UNCHANGED <<numConnsPerHost, freeConnCh>>
      /\ connIdx' \in Nat /\ connIdx' >= connIdx
<1>1. ASSUME OnlyMoves, Counting(w)' <=> Counting(w), Counting(w) => conn'[w] = conn[w],
             pc'[w] \in {"uncount", "openFailed", "using", "returning"} => Pooled(conn'[w])
      PROVE  Silent /\ PooledUse'
  <2>1. \A v \in Workers \ {w} : (Counting(v)' <=> Counting(v)) /\ conn'[v] = conn[v]
    BY <1>1 DEF Alone, Counting
  <2>2. Silent
    BY <1>1, <2>1 DEF Silent
  <2>3. PooledUse'
    BY <1>1 DEF LeaseInv, PooledUse, Alone, Pooled
  <2> QED BY <2>2, <2>3
<1> USE DEF LeaseInv, TypeOK, Alone, GoTo, Drop, Counting, poolVars, regVars
<1>2. CASE Call(w)
  BY <1>1, <1>2 DEF Call, NewCall
<1>3. CASE OpenRaw(w)
  <2>1. ~Pooled(conn'[w]) /\ pc'[w] = "dial" /\ pc[w] = "idle"
    BY <1>3 DEF OpenRaw, NewCall, Pooled
  <2> QED BY <1>1, <1>3, <2>1 DEF OpenRaw
<1>4. CASE CloseBegin(w) \/ CloseAgain(w)
  BY <1>1, <1>4 DEF CloseBegin, CloseAgain, NewCall, PooledUse
<1>5. CASE DialOk(w) \/ LoginOk(w)
  BY <1>1, <1>5 DEF DialOk, LoginOk
<1>6. CASE DialFail(w) \/ LoginFail(w) \/ RegisterClosed(w)
  <2>1. /\ pc[w] \in {"dial", "login", "register"} /\ OpenError(w)
        /\ UNCHANGED <<connIdx, numConnsPerHost, freeConnCh>>
    BY <1>6 DEF DialFail, LoginFail, RegisterClosed, Refuses
  <2>2. CASE Pooled(conn[w])
    BY <1>1, <2>1, <2>2 DEF OpenError
  <2>3. CASE ~Pooled(conn[w])
    BY <1>1, <2>1, <2>3 DEF OpenError
  <2> QED BY <2>2, <2>3
<1>7. CASE Register(w)
  <2>1. CASE Pooled(conn[w])
    BY <1>1, <1>7, <2>1 DEF Register, Registered, Refuses
  <2>2. CASE ~Pooled(conn[w])
    BY <1>1, <1>7, <2>2 DEF Register, Registered, Refuses
  <2> QED BY <2>1, <2>2
<1>8. CASE PollEmpty(w) \/ ReservePanic(w) \/ Block(w) \/ Remove(w)
  BY <1>1, <1>8 DEF PollEmpty, ReservePanic, Block, Remove
<1>9. CASE Shut(w)
  <2>1. resume[w] \in {"poll", "reserve"}
    OBVIOUS
  <2> QED BY <1>1, <1>9, <2>1 DEF Shut
<1>10. CASE Operate(w)
  BY <1>1, <1>10 DEF Operate, PooledUse
<1>11. CASE RawClose(w)
  BY <1>1, <1>11 DEF RawClose
<1>12. CASE CloseOne(w) \/ CloseEnd(w)
  BY <1>1, <1>12 DEF CloseOne, CloseEnd, PooledUse
<1> QED BY <1>2, <1>3, <1>4, <1>5, <1>6, <1>7, <1>8, <1>9, <1>10, <1>11, <1>12
        DEF Start, OpenConn

(* The invariant holds initially ...                                        *)
LEMMA LeaseInit == Init => LeaseInv
<1> SUFFICES ASSUME Init PROVE LeaseInv
  OBVIOUS
<1>1. TypeOK
  BY TypeInit
<1>2. freeConnCh = <<>> /\ InHand = {} /\ \A w \in Workers : ~Counting(w)
  BY DEF Init, InHand, Counting
<1>3. Range(freeConnCh) = {} /\ Counted = {}
  BY <1>2 DEF Range, Counted
<1>4. ExclusiveLease /\ Fresh
  BY <1>2, <1>3 DEF ExclusiveLease, Fresh
<1>5. PooledUse
  BY DEF Init, PooledUse
<1>6. ASSUME NEW h \in HostSet
      PROVE  numConnsPerHost[h] = Cardinality(CountedOn(h)) /\ numConnsPerHost[h] = 0
  <2>1. CountedOn(h) = {}
    BY <1>3 DEF CountedOn
  <2> QED BY <2>1, FS_EmptySet DEF Init
<1> QED BY <1>1, <1>4, <1>5, <1>6, PoolAssumption DEF LeaseInv, CountExact, CountInRange

(* ... and every step preserves it.                                         *)
LEMMA LeaseStep == LeaseInv /\ [Next]_vars => LeaseInv'
<1> SUFFICES ASSUME LeaseInv, [Next]_vars PROVE LeaseInv'
  OBVIOUS
<1>1. TypeOK'
  BY TypeStep DEF LeaseInv
<1>2. CASE UNCHANGED vars
  <2>1. Silent /\ PooledUse'
    BY <1>2 DEF vars, Silent, LeaseInv, TypeOK, PooledUse, Counting
  <2> QED BY <1>1, <2>1, SilentPreserves
<1>3. ASSUME NEW w \in Workers, Start(w) \/ Step(w) \/ RawClose(w) PROVE LeaseInv'
  <2>1. CASE Receive(w)
    BY <1>1, <2>1, ReceivePreserves
  <2>2. CASE Return(w)
    BY <1>1, <2>2, ReturnPreserves
  <2>3. CASE Reserve(w)
    BY <1>1, <2>3, ReservePreserves
  <2>4. CASE Uncount(w) \/ OpenFailed(w)
    BY <1>1, <2>4, ReleasePreserves
  <2>5. CASE \/ Start(w) \/ (OpenConn(w) /\ ~OpenFailed(w))
             \/ PollEmpty(w) \/ ReservePanic(w) \/ Block(w) \/ Remove(w) \/ Shut(w)
             \/ Operate(w) \/ RawClose(w) \/ CloseOne(w) \/ CloseEnd(w)
    BY <1>1, <2>5, OthersSilent, SilentPreserves
  <2> QED BY <1>3, <2>1, <2>2, <2>3, <2>4, <2>5 DEF Step, GetIdleConn
<1> QED BY <1>2, <1>3 DEF Next

(* The pool's invariant, in every behaviour.                                *)
LEMMA LeaseInvariant == Spec => []LeaseInv
BY LeaseInit, LeaseStep, PTL DEF Spec

(* No two goroutines ever hold the same connection, and none holds an idle  *)
(* one.                                                                     *)
THEOREM Exclusive == Spec => []ExclusiveLease
<1>1. LeaseInv => ExclusiveLease
  BY DEF LeaseInv
<1> QED BY <1>1, LeaseInvariant, PTL

(* numConnsPerHost is the number of connections of each host, at every step.*)
THEOREM CountsAreExact == Spec => []CountExact
<1>1. LeaseInv => CountExact
  BY DEF LeaseInv
<1> QED BY <1>1, LeaseInvariant, PTL

(* No host ever has more than ConnectionsPerHost connections.               *)
THEOREM LimitHolds == Spec => []HostLimit
<1>1. LeaseInv => HostLimit
  BY PoolAssumption DEF LeaseInv, CountExact, CountInRange, HostLimit
<1> QED BY <1>1, LeaseInvariant, PTL
-----------------------------------------------------------------------------
(* Capacity *)

(* Number the connections of each host from 1: every connection then has a  *)
(* slot of its own among the Cardinality(HostSet) * ConnectionsPerHost.     *)
LEMMA CountedBound ==
  ASSUME LeaseInv
  PROVE  IsFiniteSet(Counted) /\ Cardinality(Counted) <= Capacity
<1> DEFINE Numbering(h) == Injection(CountedOn(h), 1..ConnectionsPerHost)
           number == [h \in HostSet |-> CHOOSE f : f \in Numbering(h)]
           slot == [c \in Counted |-> <<c.host, number[c.host][c]>>]
           AllSlots == HostSet \X (1..ConnectionsPerHost)
<1>1. /\ IsFiniteSet(Counted) /\ IsFiniteSet(HostSet)
      /\ Cardinality(HostSet) <= Len(Hosts) /\ Cardinality(HostSet) \in Nat
      /\ \A h \in HostSet : IsFiniteSet(CountedOn(h))
  BY CountedFinite, FS_CardinalityType DEF LeaseInv
<1>2. ASSUME NEW h \in HostSet PROVE number[h] \in Numbering(h)
  <2>1. Cardinality(CountedOn(h)) \in 0..ConnectionsPerHost
    BY DEF LeaseInv, CountExact, CountInRange
  <2>2. PICK f : f \in Bijection(1..Cardinality(CountedOn(h)), CountedOn(h))
    BY <1>1, FS_CardinalityType DEF ExistsBijection
  <2> DEFINE S == 1..Cardinality(CountedOn(h))
             g == Inverse(f, S, CountedOn(h))
  <2>3. g \in Injection(CountedOn(h), S)
    BY <2>2, Fun_BijectionProperties, Fun_SurjInverse
  <2> HIDE DEF g
  <2>4. S \subseteq 1..ConnectionsPerHost
    BY <2>1, PoolAssumption
  <2>5. g \in [CountedOn(h) -> S] /\ \A a, b \in CountedOn(h) : g[a] = g[b] => a = b
    <3> HIDE DEF S
    <3> QED BY <2>3, Fun_InjectionProperties
  <2>6. g \in [CountedOn(h) -> 1..ConnectionsPerHost]
    BY <2>4, <2>5
  <2>7. g \in Numbering(h)
    BY <2>5, <2>6, Fun_IsInj
  <2> QED BY <2>7
<1>3. \A c \in Counted : c.host \in HostSet /\ c \in CountedOn(c.host)
  <2>1. Counted \subseteq PConn
    BY LenProperties DEF Counted, InHand, LeaseInv, TypeOK, Range
  <2> QED BY <2>1 DEF CountedOn, PConn
<1> HIDE DEF number
<1>4. \A h \in HostSet : /\ number[h] \in [CountedOn(h) -> 1..ConnectionsPerHost]
                         /\ \A a, b \in CountedOn(h) : number[h][a] = number[h][b] => a = b
  BY <1>2, Fun_InjectionProperties
<1>5. slot \in [Counted -> AllSlots]
  BY <1>3, <1>4
<1>6. \A a, b \in Counted : slot[a] = slot[b] => a = b
  BY <1>3, <1>4
<1>7. slot \in Injection(Counted, AllSlots)
  BY <1>5, <1>6, Fun_IsInj
<1>8. /\ IsFiniteSet(AllSlots)
      /\ Cardinality(AllSlots) = Cardinality(HostSet) * ConnectionsPerHost
  <2>1. IsFiniteSet(1..ConnectionsPerHost) /\ Cardinality(1..ConnectionsPerHost) = ConnectionsPerHost
    BY FS_Interval, PoolAssumption
  <2> QED BY <1>1, <2>1, FS_Product
<1>9. Cardinality(Counted) <= Cardinality(AllSlots)
  BY <1>7, <1>8, FS_Injection
<1>10. Cardinality(HostSet) * ConnectionsPerHost <= Capacity
  <2>1. \A a, b, n \in Nat : a <= b => a * n <= b * n
    OBVIOUS
  <2> QED BY <1>1, <2>1, Constants, PoolAssumption DEF Capacity
<1>11. Cardinality(Counted) \in Nat
  BY <1>1, FS_CardinalityType
<1> QED BY <1>1, <1>8, <1>9, <1>10, <1>11, Constants, PoolAssumption

(* A goroutine about to return a connection finds room in the channel: the  *)
(* others in it and its own are all counted.                                *)
THEOREM ReturnsNeverBlock == Spec => []ReturnNeverBlocks
<1>1. LeaseInv => ReturnNeverBlocks
  <2> SUFFICES ASSUME LeaseInv, NEW w \in Workers, pc[w] = "returning"
               PROVE  Len(freeConnCh) < Capacity
    BY DEF ReturnNeverBlocks
  <2> DEFINE rest == Counted \ {conn[w]}
  <2>1. IsFiniteSet(Counted) /\ Cardinality(Counted) <= Capacity /\ Cardinality(Counted) \in Nat
    BY CountedBound, FS_CardinalityType
  <2>2. conn[w] \in Counted /\ conn[w] \notin Range(freeConnCh)
    BY DEF LeaseInv, PooledUse, Counting, InHand, Counted, ExclusiveLease
  <2>3. IsFiniteSet(rest) /\ Cardinality(rest) = Cardinality(Counted) - 1
    BY <2>1, <2>2, FS_RemoveElement
  <2>4. Len(freeConnCh) \in Nat /\ freeConnCh \in [1..Len(freeConnCh) -> rest]
    <3>1. /\ Len(freeConnCh) \in Nat /\ DOMAIN freeConnCh = 1..Len(freeConnCh)
          /\ freeConnCh \in [1..Len(freeConnCh) -> PConn]
      BY LenProperties DEF LeaseInv, TypeOK
    <3>2. \A i \in 1..Len(freeConnCh) : freeConnCh[i] \in rest
      BY <2>2, <3>1 DEF Counted, Range
    <3> QED BY <3>1, <3>2
  <2>5. \A i, j \in 1..Len(freeConnCh) : freeConnCh[i] = freeConnCh[j] => i = j
    BY <2>4 DEF LeaseInv, ExclusiveLease
  <2>6. freeConnCh \in Injection(1..Len(freeConnCh), rest)
    BY <2>4, <2>5, Fun_IsInj
  <2>7. Cardinality(1..Len(freeConnCh)) = Len(freeConnCh)
    <3> HIDE DEF rest
    <3>1. \A n \in Nat : Cardinality(1..n) = n
      BY FS_Interval
    <3> QED BY <2>4, <3>1
  <2>8. Len(freeConnCh) <= Cardinality(rest)
    BY <2>3, <2>6, <2>7, FS_Injection
  <2> QED BY <2>1, <2>3, <2>4, <2>8, Constants
<1> QED BY <1>1, LeaseInvariant, PTL

(* lookupHosts promises nothing about duplicates; without them ...          *)
DistinctHosts == \A i, j \in DOMAIN Hosts : Hosts[i] = Hosts[j] => i = j

(* ... room in total is room on some host, ...                              *)
LEMMA RoomSomewhere ==
  ASSUME DistinctHosts, LeaseInv, NumOpenConns < MaxOpen
  PROVE  \E h \in HostSet : HasRoom(h)
<1> SUFFICES ASSUME \A h \in HostSet : ~HasRoom(h) PROVE FALSE
  OBVIOUS
<1>1. \A h \in HostSet : numConnsPerHost[h] = ConnectionsPerHost
  BY PoolAssumption DEF HasRoom, LeaseInv, CountInRange
<1>2. Slots = HostSet \X (1..ConnectionsPerHost)
  BY <1>1 DEF Slots
<1>3. IsFiniteSet(HostSet) /\ Cardinality(HostSet) = Len(Hosts)
  <2>1. Hosts \in [1..Len(Hosts) -> HostSet] /\ Len(Hosts) \in Nat
        /\ DOMAIN Hosts = 1..Len(Hosts)
    BY PoolAssumption, LenProperties
  <2>2. HostSet = Range(Hosts)
    BY DEF HostSet, Range
  <2>3. Hosts \in Surjection(1..Len(Hosts), HostSet)
    BY <2>1, <2>2, Fun_RangeProperties
  <2>4. Hosts \in Injection(1..Len(Hosts), HostSet)
    BY <2>1, Fun_IsInj DEF DistinctHosts
  <2>5. IsFiniteSet(1..Len(Hosts)) /\ Cardinality(1..Len(Hosts)) = Len(Hosts)
    BY <2>1, FS_Interval, PoolAssumption
  <2> QED BY <2>3, <2>4, <2>5, FS_Surjection
<1>4. IsFiniteSet(1..ConnectionsPerHost) /\ Cardinality(1..ConnectionsPerHost) = ConnectionsPerHost
  BY FS_Interval, PoolAssumption
<1>5. NumOpenConns = MaxOpen
  BY <1>2, <1>3, <1>4, FS_Product DEF NumOpenConns, MaxOpen
<1> QED BY <1>5, Constants

(* ... and getIdleConn never panics.                                        *)
THEOREM NeverPanics ==
  ASSUME DistinctHosts
  PROVE  Spec => []NoPanic
<1>1. Init => NoPanic
  BY DEF Init, NoPanic, LockFree
<1>2. LeaseInv /\ NoPanic /\ [Next]_vars => NoPanic'
  <2> SUFFICES ASSUME LeaseInv, NoPanic, [Next]_vars PROVE NoPanic'
    OBVIOUS
  <2> USE DEF NoPanic, LockFree, GoTo
  <2>1. CASE UNCHANGED vars
    BY <2>1 DEF vars
  <2>2. ASSUME NEW w \in Workers, Start(w) \/ Step(w) \/ RawClose(w) PROVE NoPanic'
    <3>1. ~ReservePanic(w)
      BY RoomSomewhere DEF ReservePanic
    <3>2. pc' = [pc EXCEPT ![w] = pc'[w]] /\ pc'[w] # "panicked"
      <4>1. pc \in [Workers -> PCs] /\ resume[w] \in {"poll", "reserve"}
        BY DEF LeaseInv, TypeOK
      <4>2. CASE Start(w)
        BY <4>1, <4>2 DEF Start, Call, OpenRaw, CloseBegin, CloseAgain, NewCall
      <4>3. CASE GetIdleConn(w)
        BY <3>1, <4>1, <4>3 DEF GetIdleConn, Receive, PollEmpty, Reserve, Block, Uncount,
           Remove, Shut, Uncounted
      <4>4. CASE OpenConn(w)
        BY <4>1, <4>4 DEF OpenConn, DialOk, DialFail, LoginOk, LoginFail, Register,
           RegisterClosed, OpenFailed, OpenError, Uncounted, Registered, Refuses
      <4>5. CASE Operate(w) \/ Return(w) \/ RawClose(w) \/ CloseOne(w) \/ CloseEnd(w)
        BY <4>1, <4>5 DEF Operate, Return, RawClose, CloseOne, CloseEnd, Sent
      <4> QED BY <2>2, <4>2, <4>3, <4>4, <4>5 DEF Step
    <3> QED BY <3>2 DEF LeaseInv, TypeOK
  <2> QED BY <2>1, <2>2 DEF Next
<1> QED BY <1>1, <1>2, LeaseInvariant, PTL DEF Spec
-----------------------------------------------------------------------------
(* Close *)

(* An open pooled socket is on its way in or out, or Close will find it: in *)
(* allCons before it starts, in the slice it took once it has.              *)
Reachable(c) == IF closed THEN c \in toClose ELSE c \in allCons

CloseInv ==
  /\ \A c \in sockets : Pooled(c) => Closing(c) \/ Reachable(c)
  /\ CloseReturned => toClose = {}
  /\ \A c \in sockets : c.idx <= connIdx
  /\ \A w \in Workers : pc[w] = "dial" /\ Pooled(conn[w]) => conn[w] \notin sockets

(* A goroutine that keeps its place or its connection keeps Closing true.   *)
LEMMA StillClosing ==
  ASSUME NEW w \in Workers, Alone(w), NEW c, Closing(c),
         conn[w] = c /\ pc[w] \in {"dial", "login", "register", "shut"} =>
           conn'[w] = c /\ pc'[w] \in {"dial", "login", "register", "shut"}
  PROVE  Closing(c)'
<1>1. PICK v \in Workers : conn[v] = c /\ pc[v] \in {"dial", "login", "register", "shut"}
  BY DEF Closing
<1>2. conn'[v] = c /\ pc'[v] \in {"dial", "login", "register", "shut"}
  BY <1>1 DEF Alone
<1> QED BY <1>2 DEF Closing

(* A step of one goroutine moves no other.                                  *)
LEMMA StepAlone ==
  ASSUME TypeOK, NEW w \in Workers, Start(w) \/ Step(w) \/ RawClose(w)
  PROVE  Alone(w)
<1> USE DEF GoTo, Drop
<1>0. pc \in [Workers -> PCs] /\ conn \in [Workers -> PConn]
  BY DEF TypeOK
<1>1. CASE Start(w)
  BY <1>0, <1>1 DEF Alone, Start, Call, OpenRaw, CloseBegin, CloseAgain, NewCall
<1>2. CASE GetIdleConn(w)
  <2>1. CASE Reserve(w)
    BY <1>0, <2>1 DEF Alone, Reserve
  <2> QED BY <1>0, <1>2, <2>1 DEF Alone, GetIdleConn, Receive, PollEmpty, ReservePanic,
             Block, Uncount, Remove, Shut, Uncounted
<1>3. CASE OpenConn(w)
  BY <1>0, <1>3 DEF Alone, OpenConn, DialOk, DialFail, LoginOk, LoginFail, Register,
     RegisterClosed, OpenFailed, OpenError, Uncounted, Registered, Refuses
<1>4. CASE Operate(w) \/ Return(w) \/ RawClose(w) \/ CloseOne(w) \/ CloseEnd(w)
  BY <1>0, <1>4 DEF Alone, Operate, Return, RawClose, CloseOne, CloseEnd, Sent
<1> QED BY <1>1, <1>2, <1>3, <1>4 DEF Step

(* The first conjunct, the heart of the argument, step by step.             *)
LEMMA SocketsStep ==
  ASSUME LeaseInv, CloseInv, NEW w \in Workers, Start(w) \/ Step(w) \/ RawClose(w),
         NEW c \in sockets', Pooled(c)
  PROVE  Closing(c)' \/ Reachable(c)'
<1> USE DEF GoTo, Drop, poolVars, regVars
<1>1. pc \in [Workers -> PCs] /\ conn \in [Workers -> PConn]
  BY DEF LeaseInv, TypeOK
<1>2. Alone(w)
  BY StepAlone DEF LeaseInv
<1>3. c \in sockets => Closing(c) \/ Reachable(c)
  BY DEF CloseInv
<1>4. ASSUME c \in sockets, UNCHANGED <<allCons, closed, toClose>>,
             conn[w] = c /\ pc[w] \in {"dial", "login", "register", "shut"} =>
               conn'[w] = c /\ pc'[w] \in {"dial", "login", "register", "shut"}
      PROVE  Closing(c)' \/ Reachable(c)'
  BY <1>2, <1>3, <1>4, StillClosing DEF Reachable
<1>5. CASE Call(w) \/ OpenRaw(w) \/ CloseAgain(w)
  BY <1>4, <1>5 DEF Call, OpenRaw, CloseAgain, NewCall
<1>6. CASE CloseBegin(w)
  <2>1. c \in sockets /\ pc[w] = "idle"
    BY <1>6 DEF CloseBegin, NewCall
  <2>2. CASE Closing(c)
    BY <1>2, <2>1, <2>2, StillClosing
  <2>3. CASE Reachable(c)
    BY <1>6, <2>3 DEF CloseBegin, Reachable
  <2> QED BY <1>3, <2>1, <2>2, <2>3
<1>7. CASE Receive(w) \/ PollEmpty(w) \/ Reserve(w) \/ ReservePanic(w) \/ Block(w) \/ Uncount(w)
  BY <1>4, <1>7 DEF Receive, PollEmpty, Reserve, ReservePanic, Block, Uncount, Uncounted
<1>8. CASE Remove(w)
  <2>1. c \in sockets /\ allCons' = allCons \ {conn[w]} /\ UNCHANGED <<closed, toClose, conn>>
        /\ pc[w] = "remove" /\ pc'[w] = "shut"
    BY <1>1, <1>8 DEF Remove
  <2>2. CASE c = conn[w]
    BY <2>1, <2>2 DEF Closing
  <2>3. CASE c # conn[w] /\ Closing(c)
    BY <1>2, <2>1, <2>3, StillClosing
  <2>4. CASE c # conn[w] /\ Reachable(c)
    BY <2>1, <2>4 DEF Reachable
  <2> QED BY <1>3, <2>1, <2>2, <2>3, <2>4
<1>9. CASE Shut(w)
  BY <1>4, <1>9 DEF Shut
<1>10. CASE DialOk(w)
  <2>1. pc'[w] = "login" /\ conn' = conn /\ sockets' = sockets \cup {conn[w]}
        /\ UNCHANGED <<allCons, closed, toClose>>
    BY <1>1, <1>10 DEF DialOk
  <2>2. CASE c = conn[w]
    BY <2>1, <2>2 DEF Closing
  <2>3. CASE c # conn[w]
    BY <1>4, <2>1, <2>3
  <2> QED BY <2>2, <2>3
<1>11. CASE DialFail(w)
  <2>1. c \in sockets /\ pc[w] = "dial" /\ UNCHANGED <<allCons, closed, toClose>>
    BY <1>11 DEF DialFail
  <2>2. c # conn[w]
    BY <2>1 DEF CloseInv
  <2> QED BY <1>4, <2>1, <2>2
<1>12. CASE LoginOk(w)
  BY <1>1, <1>4, <1>12 DEF LoginOk
<1>13. CASE LoginFail(w) \/ RegisterClosed(w)
  BY <1>4, <1>13 DEF LoginFail, RegisterClosed, Refuses
<1>14. CASE Register(w)
  <2>1. c \in sockets /\ ~closed /\ closed' = closed /\ toClose' = toClose
        /\ allCons' = IF Pooled(conn[w]) THEN allCons \cup {conn[w]} ELSE allCons
    BY <1>14 DEF Register, Registered, Refuses
  <2>2. CASE c = conn[w]
    BY <2>1, <2>2 DEF Reachable
  <2>3. CASE c # conn[w] /\ Closing(c)
    BY <1>2, <2>3, StillClosing
  <2>4. CASE c # conn[w] /\ Reachable(c)
    BY <2>1, <2>4 DEF Reachable
  <2> QED BY <1>3, <2>1, <2>2, <2>3, <2>4
<1>15. CASE OpenFailed(w)
  BY <1>4, <1>15 DEF OpenFailed, Uncounted
<1>16. CASE Operate(w) \/ Return(w) \/ RawClose(w) \/ CloseEnd(w)
  BY <1>4, <1>16 DEF Operate, Return, RawClose, CloseEnd, Sent
<1>17. CASE CloseOne(w)
  <2>1. PICK d \in toClose : /\ allCons' = allCons \ {d} /\ sockets' = sockets \ {d}
                             /\ toClose' = toClose \ {d}
                             /\ UNCHANGED <<closed, pc, conn>>
    BY <1>17 DEF CloseOne
  <2>2. c \in sockets /\ c # d
    BY <2>1
  <2> QED BY <1>3, <2>1, <2>2 DEF Closing, Reachable
<1> QED BY <1>5, <1>6, <1>7, <1>8, <1>9, <1>10, <1>11, <1>12, <1>13, <1>14, <1>15, <1>16,
        <1>17 DEF Start, Step, GetIdleConn, OpenConn

(* The rest of CloseInv.                                                    *)
LEMMA CloseStep ==
  ASSUME LeaseInv, CloseInv, NEW w \in Workers, Start(w) \/ Step(w) \/ RawClose(w)
  PROVE  CloseInv'
<1> USE DEF GoTo, Drop, poolVars, regVars
<1>1. pc \in [Workers -> PCs] /\ conn \in [Workers -> PConn] /\ connIdx \in Nat
      /\ sockets \subseteq PConn
  BY DEF LeaseInv, TypeOK
<1>2. Alone(w)
  BY StepAlone DEF LeaseInv
<1>3. CASE Reserve(w)
  <2>1. /\ UNCHANGED <<allCons, closed, toClose, sockets>> /\ pc'[w] = "dial" /\ pc[w] = "reserve"
        /\ connIdx' = connIdx + 1 /\ conn'[w].idx = connIdx + 1
    BY <1>1, <1>3 DEF Reserve
  <2>2. CloseReturned' => toClose' = {}
    BY <1>2, <2>1 DEF CloseInv, CloseReturned, Alone
  <2>3. \A c \in sockets' : c.idx <= connIdx'
    BY <1>1, <2>1 DEF CloseInv, PConn
  <2>4. \A v \in Workers : pc'[v] = "dial" /\ Pooled(conn'[v]) => conn'[v] \notin sockets'
    <3>1. conn'[w] \notin sockets'
      BY <1>1, <2>1 DEF CloseInv, PConn
    <3> QED BY <1>2, <2>1, <3>1 DEF CloseInv, Alone
  <2> QED BY <1>3, <2>2, <2>3, <2>4, SocketsStep DEF CloseInv, Step, GetIdleConn, Pooled
<1>4. CASE DialOk(w)
  <2>1. /\ UNCHANGED <<allCons, closed, toClose, connIdx, conn>> /\ pc'[w] = "login"
        /\ pc[w] = "dial" /\ sockets' = sockets \cup {conn[w]}
    BY <1>1, <1>4 DEF DialOk
  <2>2. CloseReturned' => toClose' = {}
    BY <1>2, <2>1 DEF CloseInv, CloseReturned, Alone
  <2>3. \A c \in sockets' : c.idx <= connIdx'
    <3>1. Pooled(conn[w]) => conn[w].idx \in 1..connIdx
      BY <2>1 DEF LeaseInv, Fresh, Counted, InHand, Counting
    <3>2. conn[w].idx \in Int
      BY <1>1 DEF PConn
    <3> QED BY <1>1, <2>1, <3>1, <3>2 DEF CloseInv, Pooled
  <2>4. \A v \in Workers : pc'[v] = "dial" /\ Pooled(conn'[v]) => conn'[v] \notin sockets'
    <3>1. ASSUME NEW v \in Workers, v # w, pc[v] = "dial", Pooled(conn[v])
          PROVE  conn[v] # conn[w]
      BY <2>1, <3>1 DEF LeaseInv, ExclusiveLease, Counting
    <3> QED BY <1>2, <2>1, <3>1 DEF CloseInv, Alone
  <2> QED BY <1>4, <2>2, <2>3, <2>4, SocketsStep DEF CloseInv, Step, OpenConn, Pooled
<1>5. CASE ~Reserve(w) /\ ~DialOk(w)
  <2>1. connIdx' \in Nat /\ connIdx' >= connIdx /\ sockets' \subseteq sockets
    <3>1. CASE Start(w)
      BY <1>1, <3>1 DEF Start, Call, OpenRaw, CloseBegin, CloseAgain
    <3>2. CASE GetIdleConn(w)
      BY <1>1, <1>5, <3>2 DEF GetIdleConn, Receive, PollEmpty, ReservePanic, Block,
         Uncount, Remove, Shut, Uncounted
    <3>3. CASE OpenConn(w)
      BY <1>1, <1>5, <3>3 DEF OpenConn, DialFail, LoginOk, LoginFail, Register,
         RegisterClosed, OpenFailed, Uncounted, Registered, Refuses
    <3>4. CASE Operate(w) \/ Return(w) \/ RawClose(w) \/ CloseOne(w) \/ CloseEnd(w)
      BY <1>1, <3>4 DEF Operate, Return, RawClose, CloseOne, CloseEnd, Sent
    <3> QED BY <3>1, <3>2, <3>3, <3>4 DEF Step
  <2>2. pc'[w] = "dial" => ~Pooled(conn'[w])
    <3>1. CASE Start(w)
      BY <1>1, <3>1 DEF Start, Call, OpenRaw, CloseBegin, CloseAgain, NewCall, Pooled,
         LeaseInv, TypeOK
    <3>2. CASE GetIdleConn(w)
      <4>1. resume[w] \in {"poll", "reserve"}
        BY DEF LeaseInv, TypeOK
      <4> QED BY <1>1, <1>5, <3>2, <4>1 DEF GetIdleConn, Receive, PollEmpty,
              ReservePanic, Block, Uncount, Remove, Shut, Uncounted
    <3>3. CASE OpenConn(w)
      BY <1>1, <1>5, <3>3 DEF OpenConn, DialFail, LoginOk, LoginFail, Register,
         RegisterClosed, OpenFailed, OpenError, Uncounted, Registered, Refuses
    <3>4. CASE Operate(w) \/ Return(w) \/ RawClose(w) \/ CloseOne(w) \/ CloseEnd(w)
      BY <1>1, <3>4 DEF Operate, Return, RawClose, CloseOne, CloseEnd, Sent
    <3> QED BY <3>1, <3>2, <3>3, <3>4 DEF Step
  <2>3. CloseReturned' => toClose' = {}
    <3>1. CASE CloseBegin(w)
      BY <1>1, <3>1 DEF CloseBegin, CloseReturned
    <3>2. CASE CloseOne(w) \/ CloseEnd(w)
      BY <1>1, <3>2 DEF CloseOne, CloseEnd, CloseReturned, CloseInv
    <3>3. CASE ~CloseBegin(w) /\ ~CloseOne(w) /\ ~CloseEnd(w)
      <4>1. UNCHANGED <<closed, toClose>> /\ pc[w] # "closing"
        <5>1. CASE Start(w)
          BY <3>3, <5>1 DEF Start, Call, OpenRaw, CloseAgain, NewCall
        <5>2. CASE GetIdleConn(w)
          BY <1>5, <5>2 DEF GetIdleConn, Receive, PollEmpty, ReservePanic, Block, Uncount,
             Remove, Shut, Uncounted
        <5>3. CASE OpenConn(w)
          BY <1>5, <5>3 DEF OpenConn, DialFail, LoginOk, LoginFail, Register,
             RegisterClosed, OpenFailed, Uncounted, Registered, Refuses
        <5>4. CASE Operate(w) \/ Return(w) \/ RawClose(w)
          BY <5>4 DEF Operate, Return, RawClose, Sent
        <5> QED BY <3>3, <5>1, <5>2, <5>3, <5>4 DEF Step
      <4> QED BY <1>2, <4>1 DEF CloseReturned, CloseInv, Alone
    <3> QED BY <3>1, <3>2, <3>3
  <2>4. \A c \in sockets' : c.idx <= connIdx'
    BY <1>1, <2>1 DEF CloseInv, PConn
  <2>5. \A v \in Workers : pc'[v] = "dial" /\ Pooled(conn'[v]) => conn'[v] \notin sockets'
    BY <1>2, <2>1, <2>2 DEF CloseInv, Alone
  <2> QED BY <2>3, <2>4, <2>5, SocketsStep DEF CloseInv, Pooled
<1> QED BY <1>3, <1>4, <1>5

(* Once Close has returned, no pooled connection stays open except those a  *)
(* goroutine is still opening or already closing.                           *)
THEOREM CloseIsComplete == Spec => []ClosedMeansClosed
<1>1. Init => CloseInv
  BY DEF Init, CloseInv, CloseReturned
<1>2. LeaseInv /\ CloseInv /\ [Next]_vars => CloseInv'
  <2> SUFFICES ASSUME LeaseInv, CloseInv, [Next]_vars PROVE CloseInv'
    OBVIOUS
  <2>1. CASE UNCHANGED vars
    BY <2>1 DEF vars, CloseInv, CloseReturned, Closing, Reachable
  <2>2. CASE Next
    BY <2>2, CloseStep DEF Next
  <2> QED BY <2>1, <2>2
<1>3. CloseInv => ClosedMeansClosed
  BY DEF CloseInv, ClosedMeansClosed, CloseReturned, Reachable
<1> QED BY <1>1, <1>2, <1>3, LeaseInvariant, PTL DEF Spec
-----------------------------------------------------------------------------
(* Refinement *)

LEMMA SilentKeepsLease ==
  ASSUME Silent
  PROVE  leases' = leases
<1>1. InHand' = InHand
  BY DEF InHand, Silent
<1>2. Counted' = Counted
  BY <1>1 DEF Counted, Silent
<1>3. \A c : Holders(c)' = Holders(c)
  BY DEF Holders, Silent
<1> QED BY <1>2, <1>3 DEF leases

(* The connections LeasePool sees with a goroutine.                         *)
LEMMA Leased ==
  ASSUME NEW w \in Workers
  PROVE  /\ Counting(w) => Lease!LeasedTo(w) = {conn[w]}
         /\ ~Counting(w) => Lease!LeasedTo(w) = {}
<1>1. Lease!LeasedTo(w) = {c \in Counted : w \in Holders(c)}
  BY DEF Lease!LeasedTo, leases
<1>2. Counting(w) => conn[w] \in Counted
  BY DEF Counted, InHand
<1> QED BY <1>1, <1>2 DEF Holders

(* Every step of the pool is a step of LeasePool, or changes nothing there. *)
LEMMA LeaseSimulation ==
  ASSUME DistinctHosts, LeaseInv, [Next]_vars
  PROVE  Lease!Next \/ (leases' = leases /\ connIdx' = connIdx)
<1>1. TypeOK'
  BY TypeStep DEF LeaseInv
<1>2. CASE UNCHANGED vars
  <2>1. Silent /\ connIdx' = connIdx
    BY <1>2 DEF vars, Silent, LeaseInv, TypeOK, Counting
  <2> QED BY <2>1, SilentKeepsLease
<1>3. ASSUME NEW w \in Workers, Start(w) \/ Step(w) \/ RawClose(w)
      PROVE  Lease!Next \/ (leases' = leases /\ connIdx' = connIdx)
  <2>1. CASE Receive(w)
    <3>0. PICK c : c = conn'[w]
      OBVIOUS
    <3>1. /\ Alone(w) /\ ~Counting(w) /\ Counting(w)' /\ Counted' = Counted
          /\ c \in Counted \ InHand /\ connIdx' = connIdx
      BY <1>1, <2>1, <3>0, ReceivePreserves DEF Receive
    <3>2. \A v \in Workers \ {w} : (Counting(v)' <=> Counting(v)) /\ conn'[v] = conn[v]
      BY <3>1 DEF Alone, Counting
    <3>3. Holders(c) = {} /\ Holders(c)' = {w}
      BY <3>0, <3>1, <3>2 DEF Holders, InHand
    <3>4. \A d \in Counted : d # c => Holders(d)' = Holders(d)
      BY <3>0, <3>1, <3>2 DEF Holders
    <3>5. leases' = [leases EXCEPT ![c] = {w}]
      BY <3>1, <3>3, <3>4 DEF leases
    <3>6. c \in Lease!Idle
      BY <3>1, <3>3 DEF Lease!Idle, leases
    <3>7. Lease!Take(w)
      BY <3>1, <3>5, <3>6, Leased DEF Lease!Take, leases
    <3> QED BY <3>7 DEF Lease!Next
  <2>2. CASE Return(w)
    <3>0. PICK c : c = conn[w]
      OBVIOUS
    <3>1. /\ Alone(w) /\ Counting(w) /\ ~Counting(w)' /\ Counted' = Counted
          /\ connIdx' = connIdx /\ c \in Counted
      BY <1>1, <2>2, <3>0, ReturnPreserves DEF Return, Counted, InHand, Sent
    <3>2. \A v \in Workers \ {w} : (Counting(v)' <=> Counting(v)) /\ conn'[v] = conn[v]
      BY <3>1 DEF Alone, Counting
    <3>3. Holders(c)' = {}
      BY <3>0, <3>1, <3>2 DEF Holders, LeaseInv, ExclusiveLease
    <3>4. \A d \in Counted : d # c => Holders(d)' = Holders(d)
      BY <3>0, <3>1, <3>2 DEF Holders
    <3>5. Lease!LeasedTo(w) = {c}
      BY <3>0, <3>1, Leased
    <3>6. leases' = [leases EXCEPT ![c] = {}]
      BY <3>1, <3>3, <3>4 DEF leases
    <3>7. Lease!Give(w)
      BY <3>1, <3>5, <3>6 DEF Lease!Give, leases
    <3> QED BY <3>7 DEF Lease!Next
  <2>3. CASE Uncount(w) \/ OpenFailed(w)
    <3>0. PICK c : c = conn[w]
      OBVIOUS
    <3>1. /\ Alone(w) /\ Counting(w) /\ ~Counting(w)' /\ Counted' = Counted \ {c}
          /\ connIdx' = connIdx
      BY <1>1, <2>3, <3>0, ReleasePreserves DEF Uncount, OpenFailed, Uncounted
    <3>2. \A v \in Workers \ {w} : (Counting(v)' <=> Counting(v)) /\ conn'[v] = conn[v]
      BY <3>1 DEF Alone, Counting
    <3>3. \A d \in Counted : d # c => Holders(d)' = Holders(d)
      BY <3>0, <3>1, <3>2 DEF Holders
    <3>4. Lease!LeasedTo(w) = {c}
      BY <3>0, <3>1, Leased
    <3>5. leases' = [d \in DOMAIN leases \ {c} |-> leases[d]]
      BY <3>1, <3>3 DEF leases
    <3>6. Lease!Discard(w)
      BY <3>1, <3>4, <3>5 DEF Lease!Discard, leases
    <3> QED BY <3>6 DEF Lease!Next
  <2>4. CASE Reserve(w)
    <3>1. PICK host \in HostSet :
            /\ HasRoom(host) /\ conn'[w] = [idx |-> connIdx + 1, host |-> host]
            /\ conn'[w] \notin Counted /\ Counted' = Counted \cup {conn'[w]}
      BY <1>1, <2>4, ReservePreserves
    <3>2. /\ Alone(w) /\ ~Counting(w) /\ Counting(w)' /\ connIdx' = connIdx + 1
      BY <1>1, <2>4, ReservePreserves DEF Reserve
    <3>3. \A v \in Workers \ {w} : (Counting(v)' <=> Counting(v)) /\ conn'[v] = conn[v]
      BY <3>2 DEF Alone, Counting
    <3>4. PICK new : new = [idx |-> connIdx + 1, host |-> host] /\ conn'[w] = new
      BY <3>1
    <3>5. Holders(new)' = {w}
      BY <3>1, <3>2, <3>3, <3>4 DEF Holders, Counted, InHand
    <3>6. \A d \in Counted : Holders(d)' = Holders(d)
      BY <3>1, <3>2, <3>3 DEF Holders
    <3>7. Lease!Cardinality(Lease!OnHost(host)) < ConnectionsPerHost
      <4>1. Lease!OnHost(host) = CountedOn(host)
        BY DEF Lease!OnHost, CountedOn, leases
      <4>2. \A S : Lease!Cardinality(S) = Cardinality(S)
        BY DEF Cardinality, Lease!Cardinality
      <4> QED BY <3>1, <4>1, <4>2 DEF HasRoom, LeaseInv, CountExact
    <3>8. leases' = [c \in DOMAIN leases \cup {new} |-> IF c = new THEN {w} ELSE leases[c]]
      BY <3>1, <3>4, <3>5, <3>6 DEF leases
    <3>9. Lease!Open(w)
      <4>1. Lease!LeasedTo(w) = {}
        BY <3>2, Leased
      <4>2. leases' = [c \in DOMAIN leases \cup {[idx |-> connIdx + 1, host |-> host]} |->
                         IF c = [idx |-> connIdx + 1, host |-> host] THEN {w} ELSE leases[c]]
        BY <3>4, <3>8
      <4> QED BY <3>2, <3>7, <4>1, <4>2 DEF Lease!Open
    <3> QED BY <3>9 DEF Lease!Next
  <2>5. CASE \/ Start(w) \/ (OpenConn(w) /\ ~OpenFailed(w))
             \/ PollEmpty(w) \/ Block(w) \/ Remove(w) \/ Shut(w)
             \/ Operate(w) \/ RawClose(w) \/ CloseOne(w) \/ CloseEnd(w)
    <3>1. Silent
      BY <2>5, OthersSilent
    <3>2. connIdx' = connIdx
      BY <2>5 DEF Start, Call, OpenRaw, CloseBegin, CloseAgain, OpenConn, DialOk, DialFail,
         LoginOk, LoginFail, Register, RegisterClosed, PollEmpty, Block, Remove, Shut,
         Operate, RawClose, CloseOne, CloseEnd, poolVars, Registered, Refuses
    <3> QED BY <3>1, <3>2, SilentKeepsLease
  <2>6. ~ReservePanic(w)
    BY RoomSomewhere DEF ReservePanic
  <2> QED BY <1>3, <2>1, <2>2, <2>3, <2>4, <2>5, <2>6 DEF Step, GetIdleConn
<1> QED BY <1>2, <1>3 DEF Next

(* The pool implements the abstract lease, for every number of goroutines   *)
(* and every list of distinct hosts.                                        *)
THEOREM Refinement ==
  ASSUME DistinctHosts
  PROVE  Spec => ImplementsLeasePool
<1>1. Init => Lease!Init
  <2> SUFFICES ASSUME Init PROVE Lease!Init
    OBVIOUS
  <2>1. Counted = {}
    BY DEF Init, Counted, InHand, Counting, Range
  <2> QED BY <2>1 DEF Init, Lease!Init, leases
<1>2. LeaseInv /\ [Next]_vars => [Lease!Next]_<<leases, connIdx>>
  BY LeaseSimulation
<1> QED BY <1>1, <1>2, LeaseInvariant, PTL DEF Spec, ImplementsLeasePool, Lease!Spec
=============================================================================
