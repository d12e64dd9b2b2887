------------------------ MODULE PieceDispatcherProofs ------------------------
(***************************************************************************)
(* For every number of workers, file length, threshold and buffer: the     *)
(* pieces of PieceDispatcher cover the file without overlapping, every     *)
(* byte is counted once, the data source of an upload never runs dry in    *)
(* spite of the race on its offset, and, when the threshold leaves each    *)
(* worker a byte, the workers stop only at the end of the file.            *)
(*                                                                         *)
(* The inductive invariant says, position by position, who has it.         *)
(***************************************************************************)
EXTENDS PieceDispatcher, FiniteSetTheorems, TLAPS

Holds(w, x) == Transferring(w) /\ pos[w] <= x /\ x < end[w]

(* A worker's piece is a nonempty part of what has been handed out.         *)
InPiece ==
  \A w \in Workers :
    /\ Transferring(w) => pos[w] < end[w] /\ end[w] <= start
    /\ pc[w] \in {"bump", "store"} => 0 < chunk[w] /\ chunk[w] <= end[w] - pos[w]

Cover ==
  \A x \in Positions :
    x < start <=> x \in moved \/ x \in lost \/ \E w \in Workers : Holds(w, x)

Apart ==
  /\ \A v, w \in Workers, x \in Positions : Holds(v, x) /\ Holds(w, x) => v = w
  /\ \A w \in Workers, x \in Positions : Holds(w, x) => x \notin moved /\ x \notin lost
  /\ moved \cap lost = {}

(* A lost update leaves offset too small, never too large.                  *)
OffsetBehind ==
  /\ offset <= transBytes
  /\ \A w \in Workers : pc[w] = "store" => reg[w] <= transBytes

PieceInv ==
  /\ TypeOK /\ start <= FileLength
  /\ InPiece /\ Cover /\ Apart
  /\ CountedOnce /\ OffsetBehind
-----------------------------------------------------------------------------
(* The arithmetic.                                                          *)

LEMMA NoWrap ==
  ASSUME NEW a \in Nat, NEW b \in Nat
  PROVE  /\ a + b < Word => Plus(a, b) = a + b
         /\ b <= a /\ a < Word => Minus(a, b) = a - b
  BY DispatcherAssumption DEF Plus, Minus

LEMMA PlusType ==
  ASSUME NEW a \in Nat, NEW b \in Nat
  PROVE  Plus(a, b) \in 0..(Word - 1)
  BY DispatcherAssumption DEF Plus

LEMMA ParallelsPositive == Parallels \in Nat \ {0}
  <1>1. Cardinality(Workers) \in Nat
    BY DispatcherAssumption, FS_CardinalityType
  <1>2. Cardinality(Workers) # 0
    BY DispatcherAssumption, FS_EmptySet
  <1> QED BY <1>1, <1>2 DEF Parallels

LEMMA PieceSizeBounds ==
  ASSUME NEW left \in Nat
  PROVE  PieceSize(left) \in 0..left
  <1>1. /\ left \div 2 \in 0..left
        /\ (left \div 2) \div Parallels \in 0..(left \div 2)
    BY ParallelsPositive
  <1> QED BY <1>1, DispatcherAssumption DEF PieceSize

(* With at least a byte for each worker twice over above the threshold, a   *)
(* piece is empty only when nothing is left.                                *)
LEMMA PieceSizePositive ==
  ASSUME NEW left \in Nat \ {0}, 2 * Parallels <= Threshold + 1
  PROVE  PieceSize(left) > 0
  <1>1. CASE left > Threshold /\ Parallels > 1
    <2>1. left \div 2 \in Nat /\ left \div 2 >= Parallels
      BY <1>1, ParallelsPositive, DispatcherAssumption
    <2>2. (left \div 2) \div Parallels >= 1
      BY <2>1, ParallelsPositive
    <2> QED BY <1>1, <2>1, <2>2, ParallelsPositive DEF PieceSize
  <1>2. CASE ~(left > Threshold /\ Parallels > 1)
    BY <1>2 DEF PieceSize
  <1> QED BY <1>1, <1>2

LEMMA MinOfTwo ==
  ASSUME NEW a \in Nat, NEW b \in Nat
  PROVE  Min({a, b}) = IF a <= b THEN a ELSE b
  BY DEF Min

LEMMA MinOfThree ==
  ASSUME NEW a \in Nat, NEW b \in Nat, NEW c \in Nat
  PROVE  /\ Min({a, b, c}) \in {a, b, c}
         /\ Min({a, b, c}) <= a /\ Min({a, b, c}) <= b /\ Min({a, b, c}) <= c
  <1> DEFINE m == IF a <= b THEN IF a <= c THEN a ELSE c
                            ELSE IF b <= c THEN b ELSE c
  <1>1. m \in {a, b, c} /\ \A y \in {a, b, c} : m <= y
    OBVIOUS
  <1> QED BY <1>1 DEF Min

LEMMA SpanCardinality ==
  ASSUME NEW a \in Nat, NEW n \in Nat
  PROVE  IsFiniteSet(Span(a, a + n)) /\ Cardinality(Span(a, a + n)) = n
  <1>1. IsFiniteSet(a..(a + n - 1))
    BY FS_Interval
  <1>2. Cardinality(a..(a + n - 1)) = n
    BY FS_Interval
  <1> QED BY <1>1, <1>2 DEF Span

LEMMA MovedFinite == ASSUME TypeOK PROVE IsFiniteSet(moved)
  <1>1. IsFiniteSet(0..(FileLength - 1))
    BY FS_Interval, DispatcherAssumption
  <1>2. moved \subseteq 0..(FileLength - 1)
    BY DEF TypeOK, Positions
  <1> QED BY <1>1, <1>2, FS_Subset

(* What is moved and what a worker still holds fit in the file together.    *)
LEMMA RoomForPiece ==
  ASSUME PieceInv, NEW w \in Workers, Transferring(w)
  PROVE  transBytes + (end[w] - pos[w]) <= FileLength
  <1> DEFINE n == end[w] - pos[w]
             S == Span(pos[w], pos[w] + n)
  <1>1. n \in Nat /\ pos[w] \in Nat /\ pos[w] + n = end[w] /\ end[w] <= FileLength
    BY DispatcherAssumption DEF PieceInv, InPiece, TypeOK
  <1>2. IsFiniteSet(S) /\ Cardinality(S) = n
    BY <1>1, SpanCardinality
  <1>3. IsFiniteSet(moved)
    BY MovedFinite DEF PieceInv
  <1>4. moved \cap S = {}
    BY <1>1 DEF PieceInv, Apart, Holds, Span, Positions, TypeOK
  <1>5. moved \cup S \subseteq 0..(FileLength - 1)
    <2>1. moved \subseteq 0..(FileLength - 1)
      BY DEF PieceInv, TypeOK, Positions
    <2>2. S \subseteq 0..(FileLength - 1)
      BY <1>1, DispatcherAssumption DEF Span
    <2> QED BY <2>1, <2>2
  <1>6. IsFiniteSet(0..(FileLength - 1)) /\ Cardinality(0..(FileLength - 1)) = FileLength
    BY FS_Interval, DispatcherAssumption
  <1> HIDE DEF n, S
  <1>7. Cardinality(moved \cup S) = Cardinality(moved) + n
    <2>1. Cardinality(moved \cap S) = 0
      BY <1>4, FS_EmptySet
    <2>2. Cardinality(moved \cup S) = Cardinality(moved) + Cardinality(S) - Cardinality(moved \cap S)
      BY <1>2, <1>3, FS_Union
    <2>3. Cardinality(moved) \in Nat
      BY <1>3, FS_CardinalityType
    <2> QED BY <1>1, <1>2, <2>1, <2>2, <2>3
  <1>8. Cardinality(moved \cup S) <= FileLength
    BY <1>5, <1>6, FS_Subset
  <1> QED BY <1>7, <1>8 DEF n, PieceInv, CountedOnce
-----------------------------------------------------------------------------
(* How positions change hands.                                              *)

(* Worker w lets go of the positions in M, which are moved, and in L, which *)
(* are lost; nobody else's hands change.                                    *)
LEMMA Release ==
  ASSUME PieceInv, NEW w \in Workers, NEW M \in SUBSET Positions,
         NEW L \in SUBSET Positions, M \cap L = {},
         \A x \in M \cup L : Holds(w, x),
         start' = start, moved' = moved \cup M, lost' = lost \cup L,
         \A v \in Workers, x \in Positions :
           Holds(v, x)' <=> Holds(v, x) /\ ~(v = w /\ x \in M \cup L)
  PROVE  Cover' /\ Apart'
  <1> USE DEF PieceInv
  <1>1. ASSUME NEW x \in Positions
        PROVE  x < start' <=> x \in moved' \/ x \in lost' \/ \E v \in Workers : Holds(v, x)'
    <2>1. x < start <=> x \in moved \/ x \in lost \/ \E v \in Workers : Holds(v, x)
      BY DEF Cover
    <2>2. CASE x \in M \cup L
      BY <2>1, <2>2
    <2>3. CASE x \notin M \cup L
      BY <2>1, <2>3
    <2> QED BY <2>2, <2>3
  <1>2. Cover'
    BY <1>1 DEF Cover
  <1>3. \A u, v \in Workers, x \in Positions : Holds(u, x)' /\ Holds(v, x)' => u = v
    BY DEF Apart
  <1>4. ASSUME NEW v \in Workers, NEW x \in Positions, Holds(v, x)'
        PROVE  x \notin moved' /\ x \notin lost'
    <2>1. Holds(v, x) /\ x \notin moved /\ x \notin lost
      BY <1>4 DEF Apart
    <2>2. x \notin M \cup L
      BY <2>1, <1>4 DEF Apart
    <2> QED BY <2>1, <2>2
  <1>5. moved' \cap lost' = {}
    BY DEF Apart
  <1> QED BY <1>2, <1>3, <1>4, <1>5 DEF Apart

(* Nothing changes hands.                                                   *)
LEMMA Keep ==
  ASSUME PieceInv, start' = start, moved' = moved, lost' = lost,
         \A v \in Workers, x \in Positions : Holds(v, x)' <=> Holds(v, x)
  PROVE  Cover' /\ Apart'
  BY DEF PieceInv, Cover, Apart

(* Moving the next n positions of a piece counts n more bytes.              *)
LEMMA CountMoved ==
  ASSUME PieceInv, NEW w \in Workers, Transferring(w), NEW n \in Nat,
         n <= end[w] - pos[w],
         moved' = moved \cup Span(pos[w], pos[w] + n),
         transBytes' = Plus(transBytes, n)
  PROVE  /\ transBytes' = transBytes + n
         /\ transBytes' <= FileLength
         /\ CountedOnce'
  <1> DEFINE S == Span(pos[w], pos[w] + n)
  <1>1. pos[w] \in Nat /\ end[w] \in Nat /\ end[w] <= FileLength /\ transBytes \in Nat
    BY DispatcherAssumption DEF PieceInv, InPiece, TypeOK
  <1>2. transBytes + n <= FileLength
    BY <1>1, RoomForPiece, DispatcherAssumption
  <1>3. transBytes' = transBytes + n
    BY <1>1, <1>2, NoWrap, DispatcherAssumption
  <1>4. IsFiniteSet(S) /\ Cardinality(S) = n
    BY <1>1, SpanCardinality
  <1>5. IsFiniteSet(moved)
    BY MovedFinite DEF PieceInv
  <1>6. moved \cap S = {}
    BY <1>1 DEF PieceInv, Apart, Holds, Span, Positions, TypeOK
  <1> HIDE DEF S
  <1>7. Cardinality(moved \cup S) = Cardinality(moved) + n
    <2>1. Cardinality(moved \cap S) = 0
      BY <1>6, FS_EmptySet
    <2>2. Cardinality(moved \cup S) = Cardinality(moved) + Cardinality(S) - Cardinality(moved \cap S)
      BY <1>4, <1>5, FS_Union
    <2>3. Cardinality(moved) \in Nat
      BY <1>5, FS_CardinalityType
    <2> QED BY <1>4, <2>1, <2>2, <2>3
  <1>8. Cardinality(moved') = Cardinality(moved) + n
    BY <1>7 DEF S
  <1> QED BY <1>2, <1>3, <1>8 DEF PieceInv, CountedOnce
-----------------------------------------------------------------------------
(* The steps.                                                               *)

LEMMA InitInv == Init => PieceInv
  <1> SUFFICES ASSUME Init PROVE PieceInv
    OBVIOUS
  <1>1. \A w \in Workers : ~Transferring(w)
    BY DEF Init, Transferring
  <1>2. TypeOK /\ start <= FileLength
    <2>1. FileLength \in Nat /\ Word \in Nat /\ 0 < Word
      BY DispatcherAssumption
    <2>2. /\ start \in 0..(Word - 1) /\ transBytes \in 0..(Word - 1)
          /\ offset \in 0..(Word - 1) /\ start <= FileLength
      BY <2>1 DEF Init
    <2>3. /\ pc \in [Workers -> PCs]
          /\ pos \in [Workers -> Nat] /\ end \in [Workers -> Nat]
          /\ chunk \in [Workers -> Nat] /\ reg \in [Workers -> Nat]
      BY DEF Init, PCs
    <2> QED BY <2>2, <2>3 DEF Init, TypeOK
  <1>3. InPiece /\ Apart /\ Cover
    BY <1>1 DEF Init, InPiece, Apart, Cover, Holds, Positions
  <1>4. CountedOnce
    BY FS_EmptySet DEF Init, CountedOnce
  <1>5. OffsetBehind
    BY DEF Init, OffsetBehind
  <1> QED BY <1>2, <1>3, <1>4, <1>5 DEF PieceInv

LEMMA SliceInv == ASSUME PieceInv, NEW w \in Workers, Slice(w) PROVE PieceInv'
  <1> DEFINE sz == PieceSize(FileLength - start)
  <1> USE DEF PieceInv
  <1>1. /\ start \in Nat /\ FileLength \in Nat /\ FileLength - start \in Nat
        /\ Minus(FileLength, start) = FileLength - start
    BY NoWrap, DispatcherAssumption DEF TypeOK
  <1>2. sz \in Nat /\ start + sz <= FileLength
    BY <1>1, PieceSizeBounds
  <1>3. Plus(start, sz) = start + sz
    BY <1>1, <1>2, NoWrap, DispatcherAssumption
  <1>4. /\ pc[w] = "slice"
        /\ pos' = [pos EXCEPT ![w] = start]
        /\ end' = [end EXCEPT ![w] = start + sz]
        /\ start' = start + sz
        /\ pc' = [pc EXCEPT ![w] = IF sz > 0 THEN "borrow" ELSE "done"]
        /\ UNCHANGED <<method, started, timeUp, readVars, countVars, lost>>
    BY <1>1, <1>3 DEF Slice, Advance, GoTo
  <1> HIDE DEF sz
  <1>5. TypeOK'
    BY <1>1, <1>2, <1>4, DispatcherAssumption DEF TypeOK, PCs, readVars, countVars
  <1>6. ASSUME NEW v \in Workers, NEW x \in Positions
        PROVE  Holds(v, x)' <=> \/ v # w /\ Holds(v, x)
                                \/ v = w /\ start <= x /\ x < start + sz
    <2>1. CASE v # w
      BY <2>1, <1>4 DEF Holds, Transferring, TypeOK
    <2>2. CASE v = w
      <3>1. /\ pos'[w] = start /\ end'[w] = start + sz
            /\ pc'[w] = IF sz > 0 THEN "borrow" ELSE "done"
        BY <1>4 DEF TypeOK
      <3>2. x \in Int
        BY DEF Positions
      <3>3. Holds(v, x)' <=> (pc'[w] \in {"borrow", "open", "moving", "bump", "store"}
                              /\ start <= x /\ x < start + sz)
        BY <3>1, <2>2 DEF Holds, Transferring
      <3>4. pc'[w] \in {"borrow", "open", "moving", "bump", "store"} <=> sz > 0
        BY <3>1
      <3> QED BY <3>2, <3>3, <3>4, <2>2, <1>1, <1>2
    <2> QED BY <2>1, <2>2
  <1>7. \A x \in Positions : ~Holds(w, x)
    BY <1>4 DEF Holds, Transferring
  <1>8. \A v \in Workers, x \in Positions : Holds(v, x) => x < start
    BY <1>1, <1>2 DEF Cover
  <1>9. Cover'
    <2>1. ASSUME NEW x \in Positions
          PROVE  x < start' <=> x \in moved' \/ x \in lost' \/ \E v \in Workers : Holds(v, x)'
      <3>1. x \in Int /\ (x < start + sz <=> x < start \/ (start <= x /\ x < start + sz))
        BY <1>1, <1>2 DEF Positions
      <3>2. x < start <=> x \in moved \/ x \in lost \/ \E v \in Workers : Holds(v, x)
        BY DEF Cover
      <3>3. (\E v \in Workers : Holds(v, x)')
               <=> (\E v \in Workers : Holds(v, x)) \/ (start <= x /\ x < start + sz)
        BY <1>6, <1>7
      <3> QED BY <3>1, <3>2, <3>3, <1>4 DEF countVars
    <2> QED BY <2>1 DEF Cover
  <1>10. Apart'
    <2>1. ASSUME NEW x \in Positions, start <= x
          PROVE  x \notin moved /\ x \notin lost
      BY <2>1, <1>1 DEF Cover, Positions
    <2>2. ASSUME NEW u \in Workers, NEW v \in Workers, NEW x \in Positions,
                 Holds(u, x)', Holds(v, x)'
          PROVE  u = v
      BY <2>2, <1>6, <1>8, <1>1 DEF Apart, Positions
    <2>3. ASSUME NEW v \in Workers, NEW x \in Positions, Holds(v, x)'
          PROVE  x \notin moved' /\ x \notin lost'
      <3>1. x \notin moved /\ x \notin lost
        BY <2>3, <2>1, <1>6 DEF Apart
      <3> QED BY <3>1, <1>4 DEF countVars
    <2>4. moved' \cap lost' = {}
      BY <1>4 DEF countVars, Apart
    <2> QED BY <2>2, <2>3, <2>4 DEF Apart
  <1>11. InPiece'
    <2>1. ASSUME NEW v \in Workers, v # w
          PROVE  /\ Transferring(v)' => pos'[v] < end'[v] /\ end'[v] <= start'
                 /\ pc'[v] \in {"bump", "store"} => 0 < chunk'[v] /\ chunk'[v] <= end'[v] - pos'[v]
      BY <2>1, <1>1, <1>2, <1>4 DEF InPiece, TypeOK, Transferring, readVars
    <2>2. /\ Transferring(w)' => pos'[w] < end'[w] /\ end'[w] <= start'
          /\ pc'[w] \notin {"bump", "store"}
      BY <1>1, <1>2, <1>4 DEF TypeOK, Transferring
    <2> QED BY <2>1, <2>2 DEF InPiece
  <1>12. CountedOnce' /\ OffsetBehind'
    BY <1>4 DEF CountedOnce, OffsetBehind, countVars, readVars, TypeOK
  <1>13. start' <= FileLength
    BY <1>2, <1>4
  <1> QED BY <1>5, <1>9, <1>10, <1>11, <1>12, <1>13

(* The steps in which nothing changes hands.                                *)
LEMMA QuietInv ==
  ASSUME PieceInv, NEW w \in Workers,
         SliceTimeUp(w) \/ Borrow(w) \/ Open(w) \/ Bump(w) \/ Expire \/ UNCHANGED vars
  PROVE  PieceInv'
  <1> USE DEF PieceInv
  <1>1. TypeOK'
    <2>1. CASE SliceTimeUp(w)
      BY <2>1, DispatcherAssumption DEF TypeOK, PCs, SliceTimeUp, GoTo, readVars, countVars
    <2>2. CASE Open(w)
      BY <2>2 DEF TypeOK, PCs, Open, GoTo, readVars, countVars
    <2>3. CASE Bump(w)
      BY <2>3, DispatcherAssumption DEF TypeOK, PCs, Bump, GoTo, countVars
    <2>4. CASE Expire
      BY <2>4 DEF TypeOK, Expire, workVars, readVars, countVars
    <2>5. CASE UNCHANGED vars
      BY <2>5 DEF TypeOK, vars
    <2>6. CASE Borrow(w)
      BY <2>6 DEF TypeOK, PCs, Borrow, GoTo, readVars, countVars
    <2> QED BY <2>1, <2>2, <2>3, <2>4, <2>5, <2>6
  <1>2. /\ start' = start /\ moved' = moved /\ lost' = lost
        /\ transBytes' = transBytes /\ offset' = offset /\ chunk' = chunk
    BY DEF SliceTimeUp, Borrow, Open, Bump, Expire, vars, readVars, countVars
  <1>3. ASSUME NEW v \in Workers
        PROVE  /\ Transferring(v)' <=> Transferring(v)
               /\ Transferring(v) => pos'[v] = pos[v] /\ end'[v] = end[v]
               /\ pc'[v] \in {"bump", "store"} => pc[v] \in {"bump", "store"}
               /\ pc'[v] = "store" => reg'[v] \in {reg[v], offset} /\ pc[v] \in {"bump", "store"}
               /\ pc'[v] = "store" /\ pc[v] # "store" => reg'[v] = offset
               /\ pc'[v] = "store" /\ pc[v] = "store" => reg'[v] = reg[v]
    BY DEF TypeOK, SliceTimeUp, Borrow, Open, Bump, Expire, vars, GoTo, workVars, readVars,
       Transferring
  <1>4. \A v \in Workers, x \in Positions : Holds(v, x)' <=> Holds(v, x)
    BY <1>3 DEF Holds
  <1>5. Cover' /\ Apart'
    BY <1>2, <1>4, Keep
  <1>6. InPiece'
    BY <1>2, <1>3 DEF InPiece, Transferring
  <1>7. CountedOnce'
    BY <1>2 DEF CountedOnce
  <1>8. OffsetBehind'
    BY <1>2, <1>3 DEF OffsetBehind
  <1> QED BY <1>1, <1>2, <1>5, <1>6, <1>7, <1>8

(* The transfer of a worker ends early: what it still held is lost.         *)
LEMMA GiveUpInv ==
  ASSUME PieceInv, NEW w \in Workers, pc[w] \in {"borrow", "open", "moving"},
         lost' = GiveUp(w, pos[w]), GoTo(w, "slice"),
         UNCHANGED <<method, start, started, timeUp, pos, end, readVars, countVars>>
  PROVE  PieceInv'
  <1> DEFINE L == Span(pos[w], end[w])
  <1> USE DEF PieceInv
  <1>1. pos[w] \in Nat /\ end[w] \in Nat /\ end[w] <= FileLength /\ Transferring(w)
    BY DispatcherAssumption DEF InPiece, TypeOK, Transferring
  <1>2. L \subseteq Positions
    BY <1>1, DispatcherAssumption DEF Span, Positions
  <1>3. pc' = [pc EXCEPT ![w] = "slice"] /\ lost' = lost \cup L /\ moved' = moved
    BY DEF GoTo, GiveUp, countVars
  <1>4. TypeOK'
    BY <1>2, <1>3 DEF TypeOK, PCs, readVars, countVars
  <1>5. \A x \in L : Holds(w, x)
    BY <1>1 DEF Holds, Span
  <1>6. ASSUME NEW v \in Workers
        PROVE  Transferring(v)' <=> Transferring(v) /\ v # w
    BY <1>1, <1>3 DEF Transferring, TypeOK
  <1>7. \A x \in Positions : x \in L <=> Holds(w, x)
    BY <1>1 DEF Holds, Span, Positions
  <1>8. \A v \in Workers, x \in Positions :
          Holds(v, x)' <=> Holds(v, x) /\ ~(v = w /\ x \in {} \cup L)
    BY <1>6, <1>7 DEF Holds
  <1> HIDE DEF L
  <1>9. Cover' /\ Apart'
    BY <1>2, <1>3, <1>5, <1>8, Release
  <1>10. InPiece'
    BY <1>3, <1>6 DEF InPiece, TypeOK, readVars
  <1>11. CountedOnce' /\ OffsetBehind'
    BY <1>3 DEF CountedOnce, OffsetBehind, TypeOK, readVars, countVars
  <1> QED BY <1>4, <1>9, <1>10, <1>11

(* n more bytes of worker w's piece are moved and counted.                  *)
LEMMA ProgressInv ==
  ASSUME PieceInv, NEW w \in Workers, Transferring(w),
         NEW n \in Nat \ {0}, n <= end[w] - pos[w], Progress(w, n),
         UNCHANGED <<method, start, started, timeUp, end, chunk, reg>>
  PROVE  /\ TypeOK' <=> offset' \in 0..(Word - 1)
         /\ Cover' /\ Apart' /\ InPiece' /\ CountedOnce'
         /\ transBytes' = transBytes + n /\ pc'[w] # "store"
         /\ \A v \in Workers \ {w} : pc'[v] = pc[v]
  <1> DEFINE next == pos[w] + n
             M == Span(pos[w], next)
             L == IF timeUp THEN Span(next, end[w]) ELSE {}
             to == IF timeUp THEN "slice" ELSE IF next < end[w] THEN "moving" ELSE "slice"
  <1> USE DEF PieceInv
  <1>1. /\ pos[w] \in Nat /\ end[w] \in Nat /\ end[w] <= FileLength
        /\ next \in Nat /\ pos[w] <= next /\ next <= end[w] /\ FileLength \in Nat
    BY DispatcherAssumption DEF InPiece, TypeOK
  <1>2. M \subseteq Positions /\ L \subseteq Positions /\ M \cap L = {}
    BY <1>1 DEF Span, Positions
  <1>3. /\ moved' = moved \cup M /\ lost' = lost \cup L
        /\ transBytes' = Plus(transBytes, n)
        /\ pos' = [pos EXCEPT ![w] = next]
        /\ pc' = [pc EXCEPT ![w] = to]
    BY DEF Progress, GiveUp, GoTo
  <1>4. /\ transBytes' = transBytes + n
        /\ transBytes' <= FileLength /\ CountedOnce'
    BY <1>3, CountMoved
  <1>5. TypeOK' <=> offset' \in 0..(Word - 1)
    <2>1. transBytes' \in 0..(Word - 1)
      BY <1>1, <1>4, DispatcherAssumption DEF TypeOK
    <2>2. pc' \in [Workers -> PCs] /\ pos' \in [Workers -> Nat]
      BY <1>1, <1>3 DEF TypeOK, PCs
    <2>3. moved' \subseteq Positions /\ lost' \subseteq Positions
      BY <1>2, <1>3 DEF TypeOK
    <2> QED BY <2>1, <2>2, <2>3 DEF TypeOK
  <1>6. \A x \in M \cup L : Holds(w, x)
    BY <1>1 DEF Holds, Span
  <1>7. \A v \in Workers \ {w} : pc'[v] = pc[v] /\ pos'[v] = pos[v]
    BY <1>3 DEF TypeOK
  <1>8. pc'[w] = to /\ pos'[w] = next
    BY <1>3 DEF TypeOK
  <1>9. ASSUME NEW x \in Positions
        PROVE  Holds(w, x)' <=> Holds(w, x) /\ x \notin M \cup L
    <2>1. x \in Int
      BY DEF Positions
    <2>2. Holds(w, x) <=> pos[w] <= x /\ x < end[w]
      BY DEF Holds
    <2>3. Holds(w, x)' <=> (to = "moving" /\ next <= x /\ x < end[w])
      BY <1>8 DEF Holds, Transferring
    <2>4. x \in M <=> pos[w] <= x /\ x < next
      BY <1>1, <2>1 DEF Span
    <2>5. x \in L <=> timeUp /\ next <= x /\ x < end[w]
      BY <1>1, <2>1 DEF Span
    <2>6. to = "moving" <=> ~timeUp /\ next < end[w]
      OBVIOUS
    <2> HIDE DEF M, L, to, next
    <2>7. CASE timeUp
      BY <2>7, <1>1, <2>1, <2>2, <2>3, <2>4, <2>5, <2>6
    <2>8. CASE ~timeUp
      BY <2>8, <1>1, <2>1, <2>2, <2>3, <2>4, <2>5, <2>6
    <2> QED BY <2>7, <2>8
  <1>10. \A v \in Workers, x \in Positions :
           Holds(v, x)' <=> Holds(v, x) /\ ~(v = w /\ x \in M \cup L)
    BY <1>7, <1>9 DEF Holds, Transferring
  <1>11. Cover' /\ Apart'
    <2> HIDE DEF M, L, next, to, PieceInv
    <2>1. start' = start /\ moved' = moved \cup M /\ lost' = lost \cup L
      BY <1>3
    <2>2. M \in SUBSET Positions /\ L \in SUBSET Positions
      BY <1>2
    <2>3. M \cap L = {} /\ \A x \in M \cup L : Holds(w, x)
      BY <1>2, <1>6
    <2> QED BY ONLY PieceInv, w \in Workers, <2>1, <2>2, <2>3, <1>10, Release
  <1>12. InPiece'
    <2>1. ASSUME NEW v \in Workers, v # w
          PROVE  /\ Transferring(v)' => pos'[v] < end'[v] /\ end'[v] <= start'
                 /\ pc'[v] \in {"bump", "store"} => 0 < chunk'[v] /\ chunk'[v] <= end'[v] - pos'[v]
      BY <2>1, <1>7 DEF InPiece, Transferring
    <2>2. /\ Transferring(w)' => pos'[w] < end'[w] /\ end'[w] <= start'
          /\ pc'[w] \notin {"bump", "store"}
      BY <1>8 DEF InPiece, Transferring
    <2> QED BY <2>1, <2>2 DEF InPiece
  <1>13. pc'[w] # "store"
    BY <1>8
  <1> QED BY <1>4, <1>5, <1>7, <1>11, <1>12, <1>13

LEMMA WriteInv == ASSUME PieceInv, NEW w \in Workers, Write(w) PROVE PieceInv'
  <1>1. pc[w] = "moving" /\ Transferring(w)
    BY DEF Write, Transferring
  <1>2. Chunk \in Nat \ {0} /\ end[w] - pos[w] \in Nat
    BY <1>1, DispatcherAssumption DEF PieceInv, InPiece, TypeOK
  <1>3. PICK n \in 1..Min({Chunk, end[w] - pos[w]}) : Progress(w, n)
    BY DEF Write
  <1>4. n \in Nat \ {0} /\ n <= end[w] - pos[w]
    BY <1>2, <1>3, MinOfTwo
  <1>5. UNCHANGED <<method, start, started, timeUp, end, chunk, reg>> /\ offset' = offset
    BY DEF Write, readVars
  <1>6. /\ TypeOK' <=> offset' \in 0..(Word - 1)
        /\ Cover' /\ Apart' /\ InPiece' /\ CountedOnce'
        /\ transBytes' = transBytes + n /\ pc'[w] # "store"
        /\ \A v \in Workers \ {w} : pc'[v] = pc[v]
    BY <1>1, <1>3, <1>4, <1>5, ProgressInv
  <1>7. TypeOK' /\ start' <= FileLength
    BY <1>5, <1>6 DEF PieceInv, TypeOK
  <1>8. OffsetBehind'
    BY <1>4, <1>5, <1>6, DispatcherAssumption DEF PieceInv, OffsetBehind, TypeOK
  <1> QED BY <1>6, <1>7, <1>8 DEF PieceInv

LEMMA StoreInv == ASSUME PieceInv, NEW w \in Workers, Store(w) PROVE PieceInv'
  <1>1. pc[w] = "store" /\ Transferring(w)
    BY DEF Store, Transferring
  <1>2. chunk[w] \in Nat \ {0} /\ chunk[w] <= end[w] - pos[w]
    BY <1>1 DEF PieceInv, InPiece, TypeOK
  <1>3. /\ UNCHANGED <<method, start, started, timeUp, end, chunk, reg>>
        /\ Progress(w, chunk[w]) /\ offset' = Plus(reg[w], chunk[w])
    BY DEF Store, Stored
  <1>4. /\ TypeOK' <=> offset' \in 0..(Word - 1)
        /\ Cover' /\ Apart' /\ InPiece' /\ CountedOnce'
        /\ transBytes' = transBytes + chunk[w] /\ pc'[w] # "store"
        /\ \A v \in Workers \ {w} : pc'[v] = pc[v]
    BY <1>1, <1>2, <1>3, ProgressInv
  <1>5. /\ reg[w] \in Nat /\ reg[w] <= transBytes /\ transBytes \in Nat
        /\ transBytes + chunk[w] <= FileLength
    <2>1. transBytes + (end[w] - pos[w]) <= FileLength
      BY <1>1, RoomForPiece
    <2>2. /\ transBytes \in Nat /\ pos[w] \in Nat /\ end[w] \in Nat
          /\ reg[w] \in Nat /\ reg[w] <= transBytes
      BY <1>1, DispatcherAssumption DEF PieceInv, TypeOK, OffsetBehind
    <2> QED BY <1>2, <2>1, <2>2, DispatcherAssumption
  <1>6. offset' = reg[w] + chunk[w]
    BY <1>2, <1>3, <1>5, NoWrap, DispatcherAssumption
  <1>7. TypeOK' /\ start' <= FileLength
    <2>1. offset' \in 0..(Word - 1)
      BY <1>2, <1>5, <1>6, DispatcherAssumption
    <2> QED BY <2>1, <1>3, <1>4 DEF PieceInv
  <1>8. OffsetBehind'
    <2>1. offset' <= transBytes'
      BY <1>2, <1>4, <1>5, <1>6
    <2>2. ASSUME NEW v \in Workers, pc'[v] = "store"
          PROVE  reg'[v] <= transBytes'
      <3>1. v # w /\ pc[v] = "store" /\ reg'[v] = reg[v]
        BY <2>2, <1>3, <1>4
      <3>2. reg[v] \in Nat /\ reg[v] <= transBytes
        BY <3>1 DEF PieceInv, TypeOK, OffsetBehind
      <3> QED BY <3>1, <3>2, <1>2, <1>4, <1>5
    <2> QED BY <2>1, <2>2 DEF OffsetBehind
  <1> QED BY <1>4, <1>7, <1>8 DEF PieceInv

(* A Read finds at least what the piece needs, so it is never at the end.   *)
LEMMA LeftEnough ==
  ASSUME PieceInv, NEW w \in Workers, Transferring(w)
  PROVE  Left \in Nat /\ Left >= end[w] - pos[w]
  <1>1. transBytes + (end[w] - pos[w]) <= FileLength
    BY RoomForPiece
  <1>2. /\ offset \in Nat /\ transBytes \in Nat /\ offset <= transBytes
        /\ pos[w] \in Nat /\ end[w] \in Nat /\ pos[w] < end[w]
    BY DispatcherAssumption DEF PieceInv, TypeOK, OffsetBehind, InPiece
  <1>3. Left = FileLength - offset
    BY <1>1, <1>2, NoWrap, DispatcherAssumption DEF Left
  <1> QED BY <1>1, <1>2, <1>3, DispatcherAssumption

LEMMA ReadInv == ASSUME PieceInv, NEW w \in Workers, Read(w) PROVE PieceInv'
  <1> DEFINE n == Min({Chunk, end[w] - pos[w], Left})
  <1>1. pc[w] = "moving" /\ Transferring(w)
    BY DEF Read, Transferring
  <1>2. /\ Chunk \in Nat \ {0} /\ Left \in Nat /\ Left >= end[w] - pos[w]
        /\ end[w] - pos[w] \in Nat \ {0}
    <2>1. pos[w] \in Nat /\ end[w] \in Nat /\ pos[w] < end[w]
      BY <1>1 DEF PieceInv, InPiece, TypeOK
    <2> QED BY <2>1, <1>1, LeftEnough, DispatcherAssumption
  <1>3. n \in Nat \ {0} /\ n <= end[w] - pos[w]
    <2>1. n \in {Chunk, end[w] - pos[w], Left} /\ n <= end[w] - pos[w]
      BY <1>2, MinOfThree
    <2> HIDE DEF n
    <2> QED BY <2>1, <1>2
  <1>4. /\ chunk' = [chunk EXCEPT ![w] = n]
        /\ pc' = [pc EXCEPT ![w] = "bump"]
        /\ UNCHANGED <<method, lost, start, started, timeUp, pos, end, offset, reg, countVars>>
    BY <1>3 DEF Read, GoTo
  <1> HIDE DEF n
  <1>5. TypeOK' /\ start' <= FileLength
    BY <1>3, <1>4 DEF PieceInv, TypeOK, PCs, countVars
  <1>6. ASSUME NEW v \in Workers
        PROVE  /\ Transferring(v)' <=> Transferring(v)
               /\ pc'[v] = "store" => pc[v] = "store"
               /\ pc'[v] \in {"bump", "store"} /\ v # w => pc[v] \in {"bump", "store"}
    BY <1>1, <1>4 DEF PieceInv, TypeOK, Transferring
  <1>7. \A v \in Workers, x \in Positions : Holds(v, x)' <=> Holds(v, x)
    BY <1>4, <1>6 DEF Holds
  <1>8. Cover' /\ Apart'
    BY <1>4, <1>7, Keep DEF countVars
  <1>9. InPiece'
    <2>1. ASSUME NEW v \in Workers
          PROVE  Transferring(v)' => pos'[v] < end'[v] /\ end'[v] <= start'
      BY <1>4, <1>6 DEF PieceInv, InPiece
    <2>2. ASSUME NEW v \in Workers, pc'[v] \in {"bump", "store"}
          PROVE  0 < chunk'[v] /\ chunk'[v] <= end'[v] - pos'[v]
      <3>1. CASE v = w
        BY <3>1, <1>3, <1>4 DEF PieceInv, TypeOK
      <3>2. CASE v # w
        BY <3>2, <2>2, <1>4, <1>6 DEF PieceInv, InPiece, TypeOK
      <3> QED BY <3>1, <3>2
    <2> QED BY <2>1, <2>2 DEF InPiece
  <1>10. CountedOnce' /\ OffsetBehind'
    BY <1>4, <1>6 DEF PieceInv, CountedOnce, OffsetBehind, countVars
  <1> QED BY <1>5, <1>8, <1>9, <1>10 DEF PieceInv

LEMMA NextInv == ASSUME PieceInv, [Next]_vars PROVE PieceInv'
  <1>1. CASE \E w \in Workers : Borrow(w) \/ Step(w) \/ Fail(w)
    <2>1. PICK w \in Workers : Borrow(w) \/ Step(w) \/ Fail(w)
      BY <1>1
    <2>2. CASE Slice(w)
      BY <2>2, SliceInv
    <2>3. CASE SliceTimeUp(w) \/ Borrow(w) \/ Open(w) \/ Bump(w)
      BY <2>3, QuietInv
    <2>4. CASE Write(w)
      BY <2>4, WriteInv
    <2>5. CASE Read(w)
      BY <2>5, ReadInv
    <2>6. CASE Store(w)
      BY <2>6, StoreInv
    <2>7. CASE Fail(w)
      BY <2>7, GiveUpInv DEF Fail
    <2> QED BY <2>1, <2>2, <2>3, <2>4, <2>5, <2>6, <2>7 DEF Step
  <1>2. CASE Expire \/ Finished \/ UNCHANGED vars
    <2>1. \E w \in Workers : TRUE
      BY DispatcherAssumption
    <2> QED BY <1>2, <2>1, QuietInv DEF Finished
  <1> QED BY <1>1, <1>2 DEF Next
-----------------------------------------------------------------------------
THEOREM PieceInvariant == Spec => []PieceInv
  BY InitInv, NextInv, PTL DEF Spec

(* Every variable keeps its type: in particular no unsigned value of the    *)
(* dispatcher, the gauge or FTPData leaves its word, and no position        *)
(* outside the file is ever moved.                                          *)
THEOREM TypeCorrect == Spec => []TypeOK
  <1>1. PieceInv => TypeOK
    BY DEF PieceInv
  <1> QED BY <1>1, PieceInvariant, PTL

(* slice never hands out a position outside the file, and each position     *)
(* handed out is moved, held by a worker or given up.                       *)
THEOREM EverythingAccounted == Spec => []Accounted
  <1>1. ASSUME PieceInv PROVE Accounted
    <2>1. /\ start \in Nat /\ FileLength \in Nat /\ start <= FileLength
          /\ \A w \in Workers : pos[w] \in Nat /\ end[w] \in Nat
          /\ moved \subseteq Positions /\ lost \subseteq Positions
      BY <1>1, DispatcherAssumption DEF PieceInv, TypeOK
    <2>2. \A x \in Positions : x \in InHand <=> \E w \in Workers : Holds(w, x)
      BY <2>1 DEF InHand, Rest, Span, Holds, Positions
    <2>3. InHand \subseteq Positions
      BY <2>1, <1>1 DEF InHand, Rest, Span, Positions, PieceInv, InPiece
    <2>4. Span(0, start) \subseteq Positions
      BY <2>1 DEF Span, Positions
    <2>5. \A x \in Positions : x \in Span(0, start) <=> x < start
      BY <2>1 DEF Span, Positions
    <2>6. \A x \in Positions :
            x \in Span(0, start) <=> x \in moved \/ x \in lost \/ x \in InHand
      BY <1>1, <2>2, <2>5 DEF PieceInv, Cover
    <2>7. Span(0, start) = moved \cup lost \cup InHand
      BY <2>1, <2>3, <2>4, <2>6
    <2> QED BY <2>1, <2>7 DEF Accounted
  <1> QED BY <1>1, PieceInvariant, PTL

(* No position of the file is handed out twice.                             *)
THEOREM PiecesDisjoint == Spec => []Disjoint
  <1>1. ASSUME PieceInv PROVE Disjoint
    <2>1. ASSUME NEW w \in Workers, Transferring(w), NEW x \in Rest(w)
          PROVE  x \in Positions /\ Holds(w, x)
      BY <1>1, <2>1, DispatcherAssumption
      DEF PieceInv, TypeOK, InPiece, Rest, Span, Holds, Positions
    <2>2. \A v, w \in Workers :
            Transferring(v) /\ Transferring(w) /\ v # w => Rest(v) \cap Rest(w) = {}
      BY <1>1, <2>1 DEF PieceInv, Apart
    <2>3. InHand \cap (moved \cup lost) = {}
      BY <1>1, <2>1 DEF PieceInv, Apart, InHand
    <2> QED BY <1>1, <2>2, <2>3 DEF Disjoint, PieceInv, Apart
  <1> QED BY <1>1, PieceInvariant, PTL

(* g.TransBytes is the number of bytes moved, whatever the interleaving.    *)
THEOREM BytesCountedOnce == Spec => []CountedOnce
  <1>1. PieceInv => CountedOnce
    BY DEF PieceInv
  <1> QED BY <1>1, PieceInvariant, PTL

(* The race on FTPData.offset is harmless: it can lose updates, never       *)
(* invent them, and the pieces leave room for every reader.                 *)
THEOREM SourceNeverRunsDry == Spec => []SourceNeverDry
  <1>1. PieceInv => SourceNeverDry
    BY LeftEnough DEF SourceNeverDry
  <1> QED BY <1>1, PieceInvariant, PTL
-----------------------------------------------------------------------------
(* Stopping.                                                                *)

DoneAtEnd == \A w \in Workers : pc[w] = "done" => timeUp \/ start = FileLength

LEMMA DoneInv ==
  ASSUME 2 * Parallels <= Threshold + 1, PieceInv, DoneAtEnd, [Next]_vars
  PROVE  DoneAtEnd'
  <1> USE DEF PieceInv
  <1>1. ASSUME NEW w \in Workers, Slice(w)
        PROVE  DoneAtEnd'
    <2> DEFINE sz == PieceSize(FileLength - start)
    <2>1. /\ start \in Nat /\ FileLength \in Nat /\ FileLength - start \in Nat
          /\ Minus(FileLength, start) = FileLength - start
      BY NoWrap, DispatcherAssumption DEF TypeOK
    <2>2. sz \in Nat /\ start + sz <= FileLength
      BY <2>1, PieceSizeBounds
    <2>3. start' = start + sz
      BY <1>1, <2>1, <2>2, NoWrap, DispatcherAssumption DEF Slice, Advance
    <2>4. start < FileLength => sz > 0
      BY <2>1, PieceSizePositive
    <2>5. pc' = [pc EXCEPT ![w] = IF sz > 0 THEN "borrow" ELSE "done"] /\ ~timeUp
      BY <1>1, <2>1 DEF Slice, GoTo
    <2> HIDE DEF sz
    <2>6. ASSUME NEW v \in Workers, pc'[v] = "done"
          PROVE  start' = FileLength
      <3>1. CASE v = w
        BY <3>1, <2>6, <2>1, <2>2, <2>3, <2>4, <2>5 DEF TypeOK
      <3>2. CASE v # w
        <4>1. pc[v] = "done"
          BY <3>2, <2>5, <2>6 DEF TypeOK
        <4> QED BY <4>1, <2>1, <2>2, <2>3, <2>5 DEF DoneAtEnd
      <3> QED BY <3>1, <3>2
    <2> QED BY <2>6 DEF DoneAtEnd
  <1>2. ASSUME NEW w \in Workers,
               SliceTimeUp(w) \/ Borrow(w) \/ Open(w) \/ Write(w) \/ Read(w)
                 \/ Bump(w) \/ Store(w) \/ Fail(w)
        PROVE  DoneAtEnd'
    <2>1. /\ start' = start /\ timeUp' = timeUp
          /\ \A v \in Workers : pc'[v] = "done" => pc[v] = "done" \/ timeUp
      <3>1. CASE SliceTimeUp(w)
        BY <3>1 DEF SliceTimeUp, GoTo, TypeOK
      <3>2. CASE Open(w)
        BY <3>2 DEF Open, GoTo, TypeOK
      <3>3. CASE Write(w)
        BY <3>3 DEF Write, Progress, GoTo, TypeOK
      <3>4. CASE Read(w)
        BY <3>4 DEF Read, GoTo, TypeOK
      <3>5. CASE Bump(w)
        BY <3>5 DEF Bump, GoTo, TypeOK
      <3>6. CASE Store(w)
        BY <3>6 DEF Store, Progress, GoTo, TypeOK
      <3>7. CASE Fail(w)
        BY <3>7 DEF Fail, GoTo, TypeOK
      <3>8. CASE Borrow(w)
        BY <3>8 DEF Borrow, GoTo, TypeOK
      <3> QED BY <1>2, <3>1, <3>2, <3>3, <3>4, <3>5, <3>6, <3>7, <3>8
    <2> QED BY <2>1 DEF DoneAtEnd
  <1>3. ASSUME Expire \/ Finished \/ UNCHANGED vars
        PROVE  DoneAtEnd'
    BY <1>3 DEF Expire, Finished, vars, workVars, DoneAtEnd
  <1> QED BY <1>1, <1>2, <1>3 DEF Next, Step

(* When the threshold holds two bytes for each worker, integer division     *)
(* never makes an empty piece: unless the time is up, the workers stop only *)
(* once the whole file has been handed out. The code fixes the threshold at *)
(* 128<<10 and takes parallels from the URI unchecked, hence the premise.   *)
THEOREM NothingIsSkipped ==
  ASSUME 2 * Parallels <= Threshold + 1
  PROVE  Spec => []NothingSkipped
  <1>1. Init => DoneAtEnd
    BY DEF Init, DoneAtEnd
  <1>2. PieceInv /\ DoneAtEnd /\ [Next]_vars => DoneAtEnd'
    BY DoneInv
  <1>3. DoneAtEnd => NothingSkipped
    <2>1. \E w \in Workers : TRUE
      BY DispatcherAssumption
    <2> QED BY <2>1 DEF DoneAtEnd, NothingSkipped, AllDone
  <1> QED BY <1>1, <1>2, <1>3, PieceInvariant, PTL DEF Spec
=============================================================================
