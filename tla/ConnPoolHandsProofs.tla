------------------------- MODULE ConnPoolHandsProofs -------------------------
(* What the goroutines of ConnPool have in hand: no open socket is lost, no *)
(* slot is lost, and nobody waits while they are few enough.                *)
EXTENDS ConnPoolProofs

-----------------------------------------------------------------------------
(* No socket is lost *)

(* At these places a goroutine has no connection ...                        *)
EmptyHanded(w) == pc[w] \in {"idle", "poll", "reserve", "wait", "panicked", "closing"}

(* ... and at these one that OpenRawConn numbered.                          *)
RawInHand(w) == pc[w] \in {"dial", "login", "register", "raw"} /\ ~Pooled(conn[w])

(* Hands are empty where the code has no pconn, raw connections are told    *)
(* apart by their index, and what is not open yet, or no longer, has no     *)
(* socket.                                                                  *)
RawInv ==
  /\ \A w \in Workers : EmptyHanded(w) => conn[w] = NoConn
  /\ \A w \in Workers : RawInHand(w) => -conn[w].idx \in 1..rawConnIdx
  /\ \A v, w \in Workers : RawInHand(v) /\ RawInHand(w) /\ conn[v] = conn[w] => v = w

UnopenedInv ==
  /\ \A c \in sockets : c.idx # 0 /\ -c.idx <= rawConnIdx
  /\ \A w \in Workers : pc[w] \in {"dial", "openFailed"} => conn[w] \notin sockets

HandInv == RawInv /\ UnopenedInv /\ NoOrphanSocket

(* Who has a raw connection changes when OpenRawConn takes the next index.  *)
LEMMA RawStep ==
  ASSUME LeaseInv, RawInv, NEW w \in Workers, Start(w) \/ Step(w) \/ RawClose(w)
  PROVE  RawInv' /\ rawConnIdx' \in Nat /\ rawConnIdx' >= rawConnIdx
<1> USE DEF GoTo, Drop, poolVars, regVars
<1>1. pc \in [Workers -> PCs] /\ conn \in [Workers -> PConn] /\ rawConnIdx \in Nat
      /\ resume \in [Workers -> {"poll", "reserve"}]
  BY DEF LeaseInv, TypeOK
<1>2. Alone(w)
  BY StepAlone DEF LeaseInv
<1>3. \A v \in Workers \ {w} : /\ EmptyHanded(v)' <=> EmptyHanded(v)
                               /\ RawInHand(v)' <=> RawInHand(v)
                               /\ conn'[v] = conn[v]
  BY <1>2 DEF Alone, EmptyHanded, RawInHand, Pooled
<1>4. CASE OpenRaw(w)
  <2>1. rawConnIdx' = rawConnIdx + 1 /\ conn'[w].idx = -(rawConnIdx + 1) /\ pc'[w] = "dial"
    BY <1>1, <1>4 DEF OpenRaw, NewCall
  <2>2. ~EmptyHanded(w)' /\ -conn'[w].idx \in 1..rawConnIdx'
    BY <1>1, <2>1 DEF EmptyHanded
  <2>3. \A v \in Workers \ {w} : RawInHand(v) => conn[v] # conn'[w]
    BY <1>1, <2>1 DEF RawInv, PConn
  <2>4. \A v \in Workers \ {w} : RawInHand(v) => -conn[v].idx \in 1..rawConnIdx'
    BY <1>1, <2>1 DEF RawInv, PConn
  <2> QED BY <1>1, <1>3, <2>1, <2>2, <2>3, <2>4 DEF RawInv
<1>5. CASE ~OpenRaw(w)
  <2>1. rawConnIdx' = rawConnIdx
    <3>1. CASE Start(w)
      BY <1>5, <3>1 DEF Start, Call, CloseBegin, CloseAgain
    <3>2. CASE GetIdleConn(w)
      BY <3>2 DEF GetIdleConn, Receive, PollEmpty, Reserve, ReservePanic, Block,
         Uncount, Remove, Shut, Uncounted
    <3>3. CASE OpenConn(w)
      BY <3>3 DEF OpenConn, DialOk, DialFail, LoginOk, LoginFail, Register,
         RegisterClosed, OpenFailed, Uncounted, Registered, Refuses
    <3>4. CASE Operate(w) \/ Return(w) \/ RawClose(w) \/ CloseOne(w) \/ CloseEnd(w)
      BY <3>4 DEF Operate, Return, RawClose, CloseOne, CloseEnd, Sent
    <3> QED BY <3>1, <3>2, <3>3, <3>4 DEF Step
  <2>2. /\ EmptyHanded(w)' => conn'[w] = NoConn
        /\ RawInHand(w)' => RawInHand(w) /\ conn'[w] = conn[w]
    <3> USE DEF EmptyHanded, RawInHand
    <3>1. CASE Start(w)
      BY <1>1, <1>5, <3>1 DEF Start, Call, CloseBegin, CloseAgain, NewCall, RawInv
    <3>2. CASE Reserve(w)
      <4>1. pc'[w] = "dial" /\ conn'[w].idx = connIdx + 1 /\ connIdx \in Nat
        BY <1>1, <3>2 DEF Reserve, LeaseInv, TypeOK
      <4> QED BY <4>1 DEF Pooled
    <3>3. CASE Receive(w)
      BY <1>1, <3>3 DEF Receive
    <3>4. CASE PollEmpty(w) \/ ReservePanic(w) \/ Block(w)
      BY <1>1, <3>4 DEF PollEmpty, ReservePanic, Block, RawInv
    <3>5. CASE Uncount(w) \/ Remove(w) \/ Shut(w)
      BY <1>1, <3>5 DEF Uncount, Remove, Shut, Uncounted
    <3>6. CASE DialOk(w) \/ LoginOk(w) \/ OpenFailed(w)
      BY <1>1, <3>6 DEF DialOk, LoginOk, OpenFailed, Uncounted
    <3>7. CASE DialFail(w) \/ LoginFail(w) \/ RegisterClosed(w)
      <4>1. OpenError(w)
        BY <3>7 DEF DialFail, LoginFail, RegisterClosed
      <4> QED BY <1>1, <4>1 DEF OpenError
    <3>8. CASE Register(w)
      BY <1>1, <3>8 DEF Register, Registered, Refuses
    <3>9. CASE Operate(w) \/ Return(w) \/ RawClose(w)
      BY <1>1, <3>9 DEF Operate, Return, RawClose, Sent
    <3>10. CASE CloseOne(w) \/ CloseEnd(w)
      BY <1>1, <3>10 DEF CloseOne, CloseEnd, RawInv
    <3> QED BY <3>1, <3>2, <3>3, <3>4, <3>5, <3>6, <3>7, <3>8, <3>9, <3>10
            DEF Step, GetIdleConn, OpenConn
  <2> QED BY <1>1, <1>3, <2>1, <2>2 DEF RawInv
<1> QED BY <1>4, <1>5

(* Two goroutines at places where the connection is still to be opened, or  *)
(* could not be, have different ones.                                       *)
LEMMA HandsDiffer ==
  ASSUME LeaseInv, RawInv, NEW v \in Workers, NEW w \in Workers, v # w,
         pc[v] \in {"dial", "openFailed"}, pc[w] = "dial"
  PROVE  conn[v] # conn[w]
<1>1. CASE Pooled(conn[v]) /\ Pooled(conn[w])
  BY <1>1 DEF LeaseInv, ExclusiveLease, Counting
<1>2. CASE ~Pooled(conn[v]) /\ ~Pooled(conn[w])
  BY <1>2 DEF LeaseInv, PooledUse, RawInv, RawInHand
<1> QED BY <1>1, <1>2

(* A socket belongs to a connection that was numbered, and to none that a   *)
(* goroutine has yet to dial or has given up.                               *)
LEMMA UnopenedStep ==
  ASSUME LeaseInv, CloseInv, RawInv, UnopenedInv,
         NEW w \in Workers, Start(w) \/ Step(w) \/ RawClose(w)
  PROVE  UnopenedInv'
<1> USE DEF GoTo, Drop, poolVars, regVars
<1>1. pc \in [Workers -> PCs] /\ conn \in [Workers -> PConn] /\ rawConnIdx \in Nat
      /\ resume \in [Workers -> {"poll", "reserve"}] /\ sockets \subseteq PConn
      /\ connIdx \in Nat
  BY DEF LeaseInv, TypeOK
<1>2. Alone(w) /\ rawConnIdx' \in Nat /\ rawConnIdx' >= rawConnIdx
  BY StepAlone, RawStep DEF LeaseInv
<1>3. CASE DialOk(w)
  <2>1. sockets' = sockets \cup {conn[w]} /\ pc[w] = "dial" /\ pc'[w] = "login"
        /\ conn' = conn /\ rawConnIdx' = rawConnIdx
    BY <1>1, <1>3 DEF DialOk
  <2>2. conn[w].idx # 0 /\ -conn[w].idx <= rawConnIdx
    BY <1>1, <2>1 DEF RawInv, RawInHand, Pooled, PConn
  <2>3. \A v \in Workers \ {w} : pc[v] \in {"dial", "openFailed"} => conn[v] # conn[w]
    BY <2>1, HandsDiffer
  <2> QED BY <1>2, <2>1, <2>2, <2>3 DEF UnopenedInv, Alone
<1>4. CASE ~DialOk(w)
  <2>1. sockets' \subseteq sockets
    <3>1. CASE Start(w)
      BY <3>1 DEF Start, Call, OpenRaw, CloseBegin, CloseAgain
    <3>2. CASE GetIdleConn(w)
      BY <3>2 DEF GetIdleConn, Receive, PollEmpty, Reserve, ReservePanic, Block,
         Uncount, Remove, Shut, Uncounted
    <3>3. CASE OpenConn(w)
      BY <1>4, <3>3 DEF OpenConn, DialFail, LoginOk, LoginFail, Register,
         RegisterClosed, OpenFailed, Uncounted, Registered, Refuses
    <3>4. CASE Operate(w) \/ Return(w) \/ RawClose(w) \/ CloseOne(w) \/ CloseEnd(w)
      BY <3>4 DEF Operate, Return, RawClose, CloseOne, CloseEnd, Sent
    <3> QED BY <3>1, <3>2, <3>3, <3>4 DEF Step
  <2>2. \A c \in sockets' : c.idx # 0 /\ -c.idx <= rawConnIdx'
    BY <1>1, <1>2, <2>1 DEF UnopenedInv, PConn
  <2>3. pc'[w] \in {"dial", "openFailed"} => conn'[w] \notin sockets'
    <3>1. CASE OpenRaw(w)
      <4>1. conn'[w].idx = -(rawConnIdx + 1)
        BY <1>1, <3>1 DEF OpenRaw
      <4>2. \A c \in sockets : c.idx # -(rawConnIdx + 1)
        BY <1>1 DEF UnopenedInv, PConn
      <4> QED BY <2>1, <4>1, <4>2
    <3>2. CASE Reserve(w)
      <4>1. conn'[w].idx = connIdx + 1
        BY <1>1, <3>2 DEF Reserve
      <4>2. \A c \in sockets : c.idx # connIdx + 1
        BY <1>1 DEF CloseInv, PConn
      <4> QED BY <2>1, <4>1, <4>2
    <3>3. CASE DialFail(w)
      BY <1>1, <3>3 DEF DialFail, OpenError, UnopenedInv
    <3>4. CASE LoginFail(w) \/ RegisterClosed(w)
      <4>1. OpenError(w) /\ sockets' = sockets \ {conn[w]}
        BY <3>4 DEF LoginFail, RegisterClosed
      <4> QED BY <1>1, <4>1 DEF OpenError
    <3>5. CASE Call(w) \/ CloseBegin(w) \/ CloseAgain(w)
      BY <1>1, <3>5 DEF Call, CloseBegin, CloseAgain, NewCall
    <3>6. CASE Receive(w) \/ PollEmpty(w) \/ ReservePanic(w) \/ Block(w)
      BY <1>1, <3>6 DEF Receive, PollEmpty, ReservePanic, Block
    <3>7. CASE Uncount(w) \/ Remove(w) \/ Shut(w)
      BY <1>1, <3>7 DEF Uncount, Remove, Shut, Uncounted
    <3>8. CASE LoginOk(w) \/ OpenFailed(w) \/ Register(w)
      BY <1>1, <3>8 DEF LoginOk, OpenFailed, Register, Uncounted, Registered, Refuses
    <3>9. CASE Operate(w) \/ Return(w) \/ RawClose(w) \/ CloseOne(w) \/ CloseEnd(w)
      BY <1>1, <3>9 DEF Operate, Return, RawClose, CloseOne, CloseEnd, Sent
    <3> QED BY <1>4, <3>1, <3>2, <3>3, <3>4, <3>5, <3>6, <3>7, <3>8, <3>9
            DEF Start, Step, GetIdleConn, OpenConn
  <2>4. \A v \in Workers : pc'[v] \in {"dial", "openFailed"} => conn'[v] \notin sockets'
    BY <1>2, <2>1, <2>3 DEF UnopenedInv, Alone
  <2> QED BY <2>2, <2>4 DEF UnopenedInv
<1> QED BY <1>3, <1>4

(* A socket that stays open stays idle or in a hand, or changes from one to *)
(* the other.                                                               *)
LEMMA OrphanStep ==
  ASSUME LeaseInv, RawInv, UnopenedInv, NoOrphanSocket,
         NEW w \in Workers, Start(w) \/ Step(w) \/ RawClose(w)
  PROVE  NoOrphanSocket'
<1> USE DEF GoTo, Drop, poolVars, regVars
<1>1. pc \in [Workers -> PCs] /\ conn \in [Workers -> PConn]
      /\ freeConnCh \in Seq(PConn) /\ sockets \subseteq PConn
  BY DEF LeaseInv, TypeOK
<1>2. Alone(w)
  BY StepAlone DEF LeaseInv
<1>3. ASSUME NEW c \in sockets', ~(c \in Range(freeConnCh') \/ \E v \in Workers : conn'[v] = c)
      PROVE  FALSE
  <2>1. ASSUME c \in sockets, Range(freeConnCh) \subseteq Range(freeConnCh'),
               conn[w] # c
        PROVE  FALSE
    BY <1>2, <1>3, <2>1 DEF NoOrphanSocket, Alone
  <2>2. conn[w] = NoConn /\ c \in sockets => conn[w] # c
    <3>1. NoConn.idx = 0
      BY DEF NoConn
    <3> QED BY <3>1 DEF UnopenedInv
  <2>3. ASSUME c \in sockets, freeConnCh' = freeConnCh, conn'[w] = conn[w]
        PROVE  FALSE
    BY <1>2, <1>3, <2>3 DEF NoOrphanSocket, Alone
  <2>4. CASE Call(w) \/ CloseBegin(w) \/ CloseAgain(w)
    BY <2>3, <2>4 DEF Call, CloseBegin, CloseAgain
  <2>5. CASE OpenRaw(w)
    BY <2>1, <2>2, <2>5 DEF OpenRaw, NewCall, RawInv, EmptyHanded
  <2>6. CASE Receive(w)
    <3>1. conn'[w] = Head(freeConnCh) /\ c \in sockets /\ conn[w] = NoConn
      BY <1>1, <2>6 DEF Receive, RawInv, EmptyHanded
    <3>2. Range(freeConnCh) = Range(freeConnCh') \cup {Head(freeConnCh)}
      BY <1>1, <2>6, RangeTail DEF Receive, LeaseInv, ExclusiveLease
    <3> QED BY <1>2, <1>3, <2>2, <3>1, <3>2 DEF NoOrphanSocket, Alone
  <2>7. CASE Reserve(w)
    BY <2>1, <2>2, <2>7 DEF Reserve, RawInv, EmptyHanded
  <2>8. CASE PollEmpty(w) \/ ReservePanic(w) \/ Block(w) \/ Uncount(w) \/ Remove(w)
    BY <2>3, <2>8 DEF PollEmpty, ReservePanic, Block, Uncount, Remove, Uncounted
  <2>9. CASE Shut(w) \/ RawClose(w)
    BY <2>1, <2>9 DEF Shut, RawClose
  <2>10. CASE DialOk(w)
    BY <1>3, <2>3, <2>10 DEF DialOk
  <2>11. CASE DialFail(w)
    <3>1. conn[w] \notin sockets /\ c \in sockets /\ freeConnCh' = freeConnCh
      BY <2>11 DEF DialFail, UnopenedInv
    <3> QED BY <2>1, <3>1
  <2>12. CASE LoginFail(w) \/ RegisterClosed(w)
    BY <2>1, <2>12 DEF LoginFail, RegisterClosed
  <2>13. CASE LoginOk(w) \/ Register(w)
    BY <2>3, <2>13 DEF LoginOk, Register, Registered, Refuses
  <2>14. CASE OpenFailed(w)
    <3>1. conn[w] \notin sockets /\ c \in sockets /\ freeConnCh' = freeConnCh
      BY <2>14 DEF OpenFailed, UnopenedInv, Uncounted
    <3> QED BY <2>1, <3>1
  <2>15. CASE Operate(w) \/ CloseOne(w) \/ CloseEnd(w)
    BY <2>3, <2>15 DEF Operate, CloseOne, CloseEnd
  <2>16. CASE Return(w)
    <3>1. freeConnCh' = Append(freeConnCh, conn[w]) /\ c \in sockets
      BY <2>16 DEF Return, Sent
    <3>2. Counting(w)
      BY <2>16 DEF Return, Counting, LeaseInv, PooledUse
    <3>3. conn[w] \notin Range(freeConnCh) /\ conn[w] \in PConn
      BY <1>1, <3>2 DEF LeaseInv, ExclusiveLease, InHand
    <3>4. Range(freeConnCh') = Range(freeConnCh) \cup {conn[w]}
      BY <1>1, <3>1, <3>3, RangeAppend DEF LeaseInv, ExclusiveLease
    <3> QED BY <1>3, <2>1, <3>1, <3>4
  <2> QED BY <2>4, <2>5, <2>6, <2>7, <2>8, <2>9, <2>10, <2>11, <2>12, <2>13, <2>14, <2>15,
          <2>16 DEF Start, Step, GetIdleConn, OpenConn
<1> QED BY <1>3 DEF NoOrphanSocket

(* Every open control socket belongs to a connection that is idle in the    *)
(* channel or that some goroutine has in hand.                              *)
THEOREM NoSocketIsLost == Spec => []NoOrphanSocket
<1>1. Init => CloseInv /\ HandInv
  BY DEF Init, CloseInv, CloseReturned, HandInv, RawInv, UnopenedInv, NoOrphanSocket, RawInHand
<1>2. LeaseInv /\ CloseInv /\ HandInv /\ [Next]_vars => CloseInv' /\ HandInv'
  <2> SUFFICES ASSUME LeaseInv, CloseInv, HandInv, [Next]_vars
               PROVE  CloseInv' /\ HandInv'
    OBVIOUS
  <2>1. CASE UNCHANGED vars
    BY <2>1 DEF vars, CloseInv, CloseReturned, Closing, Reachable, HandInv, RawInv,
       UnopenedInv, NoOrphanSocket, RawInHand, EmptyHanded
  <2>2. CASE Next
    BY <2>2, CloseStep, RawStep, UnopenedStep, OrphanStep DEF Next, HandInv
  <2> QED BY <2>1, <2>2
<1>3. HandInv => NoOrphanSocket
  BY DEF HandInv
<1> QED BY <1>1, <1>2, <1>3, LeaseInvariant, PTL DEF Spec
-----------------------------------------------------------------------------
(* No slot is lost *)

(* The slots taken are as many as the connections that are counted.         *)
LEMMA SlotsTaken ==
  ASSUME LeaseInv
  PROVE  NumOpenConns = Cardinality(Counted) /\ NumOpenConns \in Nat
<1> DEFINE number == [h \in HostSet |-> CHOOSE f : f \in Bijection(1..numConnsPerHost[h], CountedOn(h))]
           held == [s \in Slots |-> number[s[1]][s[2]]]
<1>1. /\ IsFiniteSet(Counted) /\ Cardinality(Counted) \in Nat
      /\ \A h \in HostSet : IsFiniteSet(CountedOn(h))
  BY CountedFinite, FS_CardinalityType DEF LeaseInv
<1>2. ASSUME NEW h \in HostSet
      PROVE  number[h] \in Bijection(1..numConnsPerHost[h], CountedOn(h))
  <2>1. numConnsPerHost[h] = Cardinality(CountedOn(h))
    BY DEF LeaseInv, CountExact
  <2>2. PICK f : f \in Bijection(1..Cardinality(CountedOn(h)), CountedOn(h))
    BY <1>1, FS_CardinalityType DEF ExistsBijection
  <2> QED BY <2>1, <2>2
<1> HIDE DEF number
<1>3. \A c \in Counted : c.host \in HostSet /\ c \in CountedOn(c.host)
  <2>1. Counted \subseteq PConn
    BY LenProperties DEF Counted, InHand, LeaseInv, TypeOK, Range
  <2> QED BY <2>1 DEF CountedOn, PConn
<1>4. ASSUME NEW h \in HostSet
      PROVE  /\ number[h] \in [1..numConnsPerHost[h] -> CountedOn(h)]
             /\ \A a, b \in 1..numConnsPerHost[h] : number[h][a] = number[h][b] => a = b
             /\ \A c \in CountedOn(h) : \E a \in 1..numConnsPerHost[h] : number[h][a] = c
  <2> DEFINE n == number[h]
             D == 1..numConnsPerHost[h]
             C == CountedOn(h)
  <2>1. n \in Injection(D, C) /\ n \in Surjection(D, C)
    BY <1>2, Fun_BijectionProperties
  <2> HIDE DEF n, D, C
  <2>2. n \in [D -> C] /\ \A a, b \in D : n[a] = n[b] => a = b
    BY <2>1, Fun_InjectionProperties
  <2>3. \A c \in C : \E a \in D : n[a] = c
    BY <2>1 DEF Surjection
  <2> QED BY <2>2, <2>3 DEF n, D, C
<1>5. \A s \in Slots : /\ s[1] \in HostSet /\ s[2] \in 1..numConnsPerHost[s[1]]
                       /\ s = <<s[1], s[2]>>
  BY DEF Slots
<1>6. held \in [Slots -> Counted]
  <2> SUFFICES ASSUME NEW s \in Slots PROVE number[s[1]][s[2]] \in Counted
    OBVIOUS
  <2>1. PICK h \in HostSet : h = s[1]
    BY <1>5
  <2>2. PICK a \in 1..numConnsPerHost[h] : a = s[2]
    BY <1>5, <2>1
  <2>3. number[h][a] \in CountedOn(h)
    BY <1>4, <2>2
  <2> QED BY <2>1, <2>2, <2>3 DEF CountedOn
<1>7. ASSUME NEW a \in Slots, NEW b \in Slots, held[a] = held[b] PROVE a = b
  <2>1. number[a[1]][a[2]] = number[b[1]][b[2]]
    BY <1>7
  <2>2. ASSUME NEW s \in Slots PROVE number[s[1]][s[2]] \in CountedOn(s[1])
    <3>1. PICK h \in HostSet : h = s[1]
      BY <1>5
    <3>2. PICK i \in 1..numConnsPerHost[h] : i = s[2]
      BY <1>5, <3>1
    <3>3. number[h][i] \in CountedOn(h)
      BY <1>4, <3>2
    <3> QED BY <3>1, <3>2, <3>3
  <2>3. a[1] = b[1]
    BY <2>1, <2>2 DEF CountedOn
  <2>4. a[2] = b[2]
    BY <1>4, <1>5, <2>1, <2>3
  <2> QED BY <1>5, <2>3, <2>4
<1>8. ASSUME NEW c \in Counted PROVE \E s \in Slots : held[s] = c
  <2>1. PICK a \in 1..numConnsPerHost[c.host] : number[c.host][a] = c
    BY <1>3, <1>4
  <2>2. <<c.host, a>> \in Slots
    BY <1>3 DEF Slots
  <2>3. held[<<c.host, a>>] = c
    BY <2>1, <2>2
  <2> QED BY <2>2, <2>3
<1> HIDE DEF held
<1>9. held \in Bijection(Slots, Counted)
  BY <1>6, <1>7, <1>8, Fun_IsBij
<1>10. ExistsBijection(Counted, Slots)
  BY <1>9, Fun_ExistsBijSymmetric DEF ExistsBijection
<1> QED BY <1>1, <1>10, FS_Bijection DEF NumOpenConns

(* When no method runs, every slot taken is an idle connection's: failed    *)
(* openings and dropped connections have given theirs back.                 *)
THEOREM NoSlotIsLost == Spec => []NoLeak
<1>1. LeaseInv => NoLeak
  <2> SUFFICES ASSUME LeaseInv, Quiet PROVE NumOpenConns = Len(freeConnCh)
    BY DEF NoLeak
  <2>1. Counted = Range(freeConnCh)
    BY DEF Quiet, Counting, InHand, Counted
  <2>2. /\ Len(freeConnCh) \in Nat /\ DOMAIN freeConnCh = 1..Len(freeConnCh)
        /\ freeConnCh \in [1..Len(freeConnCh) -> PConn]
    BY LenProperties DEF LeaseInv, TypeOK
  <2>3. freeConnCh \in Bijection(1..Len(freeConnCh), Range(freeConnCh))
    <3>1. freeConnCh \in [1..Len(freeConnCh) -> Range(freeConnCh)]
      BY <2>2 DEF Range
    <3>2. \A c \in Range(freeConnCh) : \E i \in 1..Len(freeConnCh) : freeConnCh[i] = c
      BY <2>2 DEF Range
    <3>3. \A i, j \in 1..Len(freeConnCh) : freeConnCh[i] = freeConnCh[j] => i = j
      BY <2>2 DEF LeaseInv, ExclusiveLease
    <3> QED BY <3>1, <3>2, <3>3, Fun_IsBij
  <2>4. Cardinality(Range(freeConnCh)) = Len(freeConnCh)
    BY <2>2, <2>3, FS_CountingElements DEF ExistsBijection
  <2> QED BY <2>1, <2>4, SlotsTaken
<1> QED BY <1>1, LeaseInvariant, PTL
-----------------------------------------------------------------------------
(* Nobody waits *)

(* A goroutine that found the channel empty is about to open a connection   *)
(* or to block. The slots taken leave room for each of these, as long as no *)
(* more goroutines than connections are inside methods.                     *)
Reserving == {w \in Workers : pc[w] = "reserve"}

RoomInv ==
  /\ NobodyWaits
  /\ \A w \in Workers : resume[w] = "poll"
  /\ Cardinality(Counted) + Cardinality(Reserving) <= MaxOpen

(* Each connection in a hand is in the hand of another goroutine, so there  *)
(* are at most as many as there are goroutines that count one.              *)
LEMMA HandsOfWorkers ==
  ASSUME NEW S \in SUBSET Workers, IsFiniteSet(S), \A w \in Workers : Counting(w) => w \in S
  PROVE  /\ IsFiniteSet(InHand)
         /\ Cardinality(InHand) <= Cardinality({w \in S : Counting(w)})
<1> DEFINE C == {w \in S : Counting(w)}
           hand == [w \in C |-> conn[w]]
<1>1. IsFiniteSet(C)
  BY FS_Subset
<1>2. InHand = {conn[w] : w \in C}
  BY DEF InHand
<1>3. hand \in [C -> InHand] /\ \A c \in InHand : \E w \in C : hand[w] = c
  BY <1>2
<1> HIDE DEF C, hand
<1>4. hand \in Surjection(C, InHand)
  BY <1>3, Fun_IsSurj
<1> QED BY <1>1, <1>4, FS_Surjection DEF C

(* When the channel is empty, everything counted is in a hand.              *)
LEMMA RoomWhenEmpty ==
  ASSUME IsFiniteSet(Workers), LeaseInv, FewEnough, freeConnCh = <<>>,
         NEW R \in SUBSET Workers, \A w \in R : pc[w] # "idle" /\ ~Counting(w)
  PROVE  Cardinality(Counted) + Cardinality(R) <= MaxOpen
<1> DEFINE B == {w \in Workers : pc[w] # "idle"}
           C == {w \in B : Counting(w)}
<1>1. IsFiniteSet(B) /\ IsFiniteSet(C) /\ IsFiniteSet(R)
  BY FS_Subset
<1>2. Counted = InHand
  BY DEF Counted, Range
<1>3. IsFiniteSet(InHand) /\ Cardinality(InHand) <= Cardinality(C)
  <2>1. \A w \in Workers : Counting(w) => w \in B
    BY DEF Counting
  <2>2. B \in SUBSET Workers
    OBVIOUS
  <2> HIDE DEF B
  <2> QED BY <1>1, <2>1, <2>2, HandsOfWorkers
<1>4. C \cap R = {} /\ C \cup R \subseteq B
  OBVIOUS
<1>5. Cardinality(B) <= MaxOpen
  BY DEF FewEnough
<1> HIDE DEF B, C
<1>6. Cardinality(C \cup R) = Cardinality(C) + Cardinality(R)
  <2>1. Cardinality(C \cup R) = Cardinality(C) + Cardinality(R) - Cardinality(C \cap R)
    BY <1>1, FS_Union
  <2>2. Cardinality(C \cap R) = 0 /\ Cardinality(C) \in Nat /\ Cardinality(R) \in Nat
    BY <1>1, <1>4, FS_EmptySet, FS_CardinalityType
  <2> QED BY <2>1, <2>2
<1>7. Cardinality(C \cup R) <= Cardinality(B)
  BY <1>1, <1>4, FS_Subset
<1>8. /\ Cardinality(InHand) \in Nat /\ Cardinality(C) \in Nat /\ Cardinality(R) \in Nat
      /\ Cardinality(B) \in Nat
  BY <1>1, <1>3, FS_CardinalityType
<1> QED BY <1>2, <1>3, <1>5, <1>6, <1>7, <1>8, Constants

LEMMA RoomStep ==
  ASSUME IsFiniteSet(Workers), LeaseInv, RoomInv, FewEnough,
         NEW w \in Workers, Start(w) \/ Step(w) \/ RawClose(w)
  PROVE  RoomInv'
<1> USE DEF GoTo, Drop, poolVars, regVars
<1>1. /\ pc \in [Workers -> PCs] /\ resume \in [Workers -> {"poll", "reserve"}]
      /\ \A v \in Workers : pc[v] # "wait" /\ resume[v] = "poll"
      /\ TypeOK'
  BY TypeStep DEF LeaseInv, TypeOK, RoomInv, NobodyWaits, Next
<1>2. Alone(w)
  BY StepAlone DEF LeaseInv
<1>3. /\ IsFiniteSet(Counted) /\ IsFiniteSet(Reserving)
      /\ Cardinality(Counted) \in Nat /\ Cardinality(Reserving) \in Nat
      /\ Cardinality(Counted) + Cardinality(Reserving) <= MaxOpen
  BY CountedBound, FS_Subset, FS_CardinalityType DEF RoomInv, Reserving
<1>4. ~Block(w)
  <2> SUFFICES ASSUME Block(w) PROVE FALSE
    OBVIOUS
  <2>1. w \in Reserving /\ NumOpenConns >= MaxOpen
    BY DEF Block, Reserving
  <2>2. Cardinality(Reserving) # 0
    BY <1>3, <2>1, FS_EmptySet
  <2> QED BY <1>3, <2>1, <2>2, SlotsTaken, Constants
<1>5. NobodyWaits'
  <2>1. pc'[w] # "wait"
    <3>1. CASE Start(w)
      BY <1>1, <3>1 DEF Start, Call, OpenRaw, CloseBegin, CloseAgain, NewCall
    <3>2. CASE GetIdleConn(w)
      BY <1>1, <1>4, <3>2 DEF GetIdleConn, Receive, PollEmpty, Reserve, ReservePanic,
         Uncount, Remove, Shut, Uncounted
    <3>3. CASE OpenConn(w)
      BY <1>1, <3>3 DEF OpenConn, DialOk, DialFail, LoginOk, LoginFail, Register,
         RegisterClosed, OpenFailed, OpenError, Uncounted, Registered, Refuses
    <3>4. CASE Operate(w) \/ Return(w) \/ RawClose(w) \/ CloseOne(w) \/ CloseEnd(w)
      BY <1>1, <3>4 DEF Operate, Return, RawClose, CloseOne, CloseEnd, Sent
    <3> QED BY <3>1, <3>2, <3>3, <3>4 DEF Step
  <2> QED BY <1>1, <1>2, <2>1 DEF NobodyWaits, Alone
<1>6. \A v \in Workers : resume'[v] = "poll"
  <2>1. CASE Receive(w)
    BY <1>1, <2>1 DEF Receive
  <2>2. CASE ~Receive(w)
    <3>1. resume' = resume
      <4>1. CASE Start(w)
        BY <4>1 DEF Start, Call, OpenRaw, CloseBegin, CloseAgain
      <4>2. CASE GetIdleConn(w)
        BY <2>2, <4>2 DEF GetIdleConn, PollEmpty, Reserve, ReservePanic, Block, Uncount,
           Remove, Shut, Uncounted
      <4>3. CASE OpenConn(w)
        BY <4>3 DEF OpenConn, DialOk, DialFail, LoginOk, LoginFail, Register,
           RegisterClosed, OpenFailed, Uncounted, Registered, Refuses
      <4>4. CASE Operate(w) \/ Return(w) \/ RawClose(w) \/ CloseOne(w) \/ CloseEnd(w)
        BY <4>4 DEF Operate, Return, RawClose, CloseOne, CloseEnd, Sent
      <4> QED BY <4>1, <4>2, <4>3, <4>4 DEF Step
    <3> QED BY <1>1, <3>1
  <2> QED BY <2>1, <2>2
<1>7. Cardinality(Counted') + Cardinality(Reserving') <= MaxOpen
  <2>1. CASE PollEmpty(w)
    <3>1. Counted' = Counted
      BY <2>1, OthersSilent DEF Silent, Counted, InHand
    <3>2. \A v \in Reserving' : v \in Workers /\ pc[v] # "idle" /\ ~Counting(v)
      BY <1>1, <2>1 DEF PollEmpty, Reserving, Counting
    <3>3. freeConnCh = <<>> /\ Reserving' \in SUBSET Workers
      BY <2>1 DEF PollEmpty, Reserving
    <3>4. PICK R : R = Reserving'
      OBVIOUS
    <3>5. Cardinality(Counted) + Cardinality(R) <= MaxOpen
      BY <3>2, <3>3, <3>4, RoomWhenEmpty
    <3> QED BY <3>1, <3>4, <3>5
  <2>2. CASE Reserve(w)
    <3>1. PICK host \in HostSet :
            /\ HasRoom(host) /\ conn'[w] = [idx |-> connIdx + 1, host |-> host]
            /\ conn'[w] \notin Counted /\ Counted' = Counted \cup {conn'[w]}
      BY <1>1, <2>2, ReservePreserves
    <3>2. Cardinality(Counted') = Cardinality(Counted) + 1
      BY <1>3, <3>1, FS_AddElement
    <3>3. Reserving' = Reserving \ {w} /\ w \in Reserving
      BY <1>1, <1>2, <2>2 DEF Reserve, Reserving, Alone
    <3>4. Cardinality(Reserving') = Cardinality(Reserving) - 1
      BY <1>3, <3>3, FS_RemoveElement
    <3> QED BY <1>3, <3>2, <3>4, Constants
  <2>3. CASE ~PollEmpty(w) /\ ~Reserve(w)
    <3>1. Reserving' \subseteq Reserving
      <4>1. pc'[w] # "reserve"
        <5>1. CASE Start(w)
          BY <1>1, <5>1 DEF Start, Call, OpenRaw, CloseBegin, CloseAgain, NewCall
        <5>2. CASE GetIdleConn(w)
          BY <1>1, <1>4, <2>3, <5>2 DEF GetIdleConn, Receive, ReservePanic, Uncount,
             Remove, Shut, Uncounted
        <5>3. CASE OpenConn(w)
          BY <1>1, <5>3 DEF OpenConn, DialOk, DialFail, LoginOk, LoginFail, Register,
             RegisterClosed, OpenFailed, OpenError, Uncounted, Registered, Refuses
        <5>4. CASE Operate(w) \/ Return(w) \/ RawClose(w) \/ CloseOne(w) \/ CloseEnd(w)
          BY <1>1, <5>4 DEF Operate, Return, RawClose, CloseOne, CloseEnd, Sent
        <5> QED BY <5>1, <5>2, <5>3, <5>4 DEF Step
      <4> QED BY <1>2, <4>1 DEF Reserving, Alone
    <3>2. Counted' \subseteq Counted
      <4>1. CASE Receive(w)
        BY <1>1, <4>1, ReceivePreserves
      <4>2. CASE Return(w)
        BY <1>1, <4>2, ReturnPreserves
      <4>3. CASE Uncount(w) \/ OpenFailed(w)
        BY <1>1, <4>3, ReleasePreserves
      <4>4. CASE \/ Start(w) \/ (OpenConn(w) /\ ~OpenFailed(w))
                 \/ ReservePanic(w) \/ Remove(w) \/ Shut(w)
                 \/ Operate(w) \/ RawClose(w) \/ CloseOne(w) \/ CloseEnd(w)
        BY <4>4, OthersSilent DEF Silent, Counted, InHand
      <4> QED BY <1>4, <2>3, <4>1, <4>2, <4>3, <4>4 DEF Step, GetIdleConn
    <3>3. /\ Cardinality(Counted') <= Cardinality(Counted) /\ Cardinality(Counted') \in Nat
          /\ Cardinality(Reserving') <= Cardinality(Reserving) /\ Cardinality(Reserving') \in Nat
      BY <1>3, <3>1, <3>2, FS_Subset, FS_CardinalityType
    <3> QED BY <1>3, <3>3, Constants
  <2> QED BY <2>1, <2>2, <2>3
<1> QED BY <1>5, <1>6, <1>7 DEF RoomInv

(* As long as no more goroutines are inside methods of the client than it   *)
(* may have connections, none of them ever blocks for one.                  *)
THEOREM FewNeverWait ==
  ASSUME IsFiniteSet(Workers)
  PROVE  Spec /\ []FewEnough => []NobodyWaits
<1>1. Init => RoomInv
  <2> SUFFICES ASSUME Init PROVE RoomInv
    OBVIOUS
  <2>1. Counted = {} /\ Reserving = {}
    BY DEF Init, Counted, InHand, Counting, Reserving, Range
  <2> QED BY <2>1, FS_EmptySet, Constants DEF Init, RoomInv, NobodyWaits
<1>2. LeaseInv /\ RoomInv /\ FewEnough /\ [Next]_vars => RoomInv'
  <2> SUFFICES ASSUME LeaseInv, RoomInv, FewEnough, [Next]_vars PROVE RoomInv'
    OBVIOUS
  <2>1. CASE UNCHANGED vars
    BY <2>1 DEF vars, RoomInv, NobodyWaits, Counted, InHand, Counting, Reserving
  <2>2. CASE Next
    BY <2>2, RoomStep DEF Next
  <2> QED BY <2>1, <2>2
<1>3. RoomInv => NobodyWaits
  BY DEF RoomInv
<1> QED BY <1>1, <1>2, <1>3, LeaseInvariant, PTL DEF Spec
=============================================================================
