------------------------ MODULE ResumedTransferProofs ------------------------
(* Proofs about ResumedTransfer and the FtpServer in it, for any number of  *)
(* connections and clients, and any length of the file.                     *)
EXTENDS ResumedTransfer, FiniteSetTheorems, SequenceTheorems, TLAPS

-----------------------------------------------------------------------------
(* The built-in server *)

ServerInv == S!TypeOK /\ S!CountsClients /\ S!WithinLimit

(* A client arrives or leaves: one more or one less is present. A transfer  *)
(* changes neither.                                                         *)
LEMMA Present ==
  ASSUME ServerInv
  PROVE  /\ \A T : S!Cardinality(T) = Cardinality(T)
         /\ IsFiniteSet(S!Present) /\ IsFiniteSet(S!Served)
         /\ nbClients = Cardinality(S!Present) /\ nbClients \in Nat
         /\ Cardinality(S!Served) \in Nat /\ Cardinality(S!Served) <= nbClients
         /\ Cardinality(S!Served) <= MaxConnections
<1>1. \A T : S!Cardinality(T) = Cardinality(T)
  BY DEF Cardinality, S!Cardinality
<1>2. S!Present \subseteq Handlers /\ S!Served \subseteq S!Present
  BY DEF S!Present, S!Served
<1>3. IsFiniteSet(S!Present) /\ IsFiniteSet(S!Served)
      /\ Cardinality(S!Served) <= Cardinality(S!Present)
  BY <1>2, TransferAssumption, FS_Subset
<1>4. Cardinality(S!Present) \in Nat /\ Cardinality(S!Served) \in Nat
  BY <1>3, FS_CardinalityType
<1> QED BY <1>1, <1>3, <1>4 DEF ServerInv, S!CountsClients, S!WithinLimit

LEMMA WelcomePreserves ==
  ASSUME ServerInv, NEW h \in Handlers, S!WelcomeUser(h)
  PROVE  /\ ServerInv'
         /\ phase[h] = "away" /\ phase'[h] \in {"welcome", "refused"} /\ offset' = offset
         /\ \A g \in Handlers : g # h => phase'[g] = phase[g]
<1>1. phase \in [Handlers -> {"away", "welcome", "refused"}] /\ nbClients \in Int
  BY DEF ServerInv, S!TypeOK
<1>2. PICK p \in {"welcome", "refused"} :
        /\ phase' = [phase EXCEPT ![h] = p] /\ phase[h] = "away" /\ offset' = offset
        /\ nbClients' = nbClients + 1
        /\ p = "welcome" => nbClients + 1 <= MaxConnections
  BY DEF S!WelcomeUser, S!Accepts
<1>3. S!TypeOK'
  BY <1>1, <1>2 DEF ServerInv, S!TypeOK
<1>4. S!Present' = S!Present \cup {h} /\ h \notin S!Present
  BY <1>1, <1>2 DEF S!Present
<1>5. S!CountsClients'
  <2>1. Cardinality(S!Present') = Cardinality(S!Present) + 1
    BY <1>4, Present, FS_AddElement
  <2> QED BY <1>2, <2>1, Present DEF S!CountsClients, Cardinality, S!Cardinality
<1>6. S!WithinLimit'
  <2>1. CASE p = "welcome"
    <3>1. S!Served' = S!Served \cup {h} /\ h \notin S!Served
      BY <1>1, <1>2, <2>1 DEF S!Served
    <3>2. Cardinality(S!Served') = Cardinality(S!Served) + 1
      BY <3>1, Present, FS_AddElement
    <3>3. Cardinality(S!Served') <= MaxConnections
      BY <1>2, <2>1, <3>2, Present, TransferAssumption
    <3> QED BY <3>3 DEF S!WithinLimit, Cardinality, S!Cardinality
  <2>2. CASE p # "welcome"
    <3>1. S!Served' = S!Served
      BY <1>1, <1>2, <2>2 DEF S!Served
    <3> QED BY <3>1 DEF ServerInv, S!WithinLimit
  <2> QED BY <2>1, <2>2
<1> QED BY <1>1, <1>2, <1>3, <1>5, <1>6 DEF ServerInv

LEMMA LeftPreserves ==
  ASSUME ServerInv, NEW h \in Handlers, S!UserLeft(h)
  PROVE  /\ ServerInv'
         /\ phase' = [phase EXCEPT ![h] = "away"] /\ offset' = [offset EXCEPT ![h] = 0]
<1>1. /\ phase \in [Handlers -> {"away", "welcome", "refused"}] /\ nbClients \in Int
      /\ offset \in [Handlers -> Nat]
  BY DEF ServerInv, S!TypeOK
<1>2. /\ phase' = [phase EXCEPT ![h] = "away"] /\ offset' = [offset EXCEPT ![h] = 0]
      /\ phase[h] # "away" /\ nbClients' = nbClients - 1
  BY DEF S!UserLeft
<1>3. S!TypeOK'
  BY <1>1, <1>2 DEF S!TypeOK
<1>4. S!Present' = S!Present \ {h} /\ h \in S!Present
  BY <1>1, <1>2 DEF S!Present
<1>5. S!CountsClients'
  <2>1. Cardinality(S!Present') = Cardinality(S!Present) - 1
    BY <1>4, Present, FS_RemoveElement
  <2> QED BY <1>2, <2>1, Present DEF S!CountsClients, Cardinality, S!Cardinality
<1>6. S!WithinLimit'
  <2>1. S!Served' \subseteq S!Served
    BY <1>1, <1>2 DEF S!Served
  <2>2. Cardinality(S!Served') <= Cardinality(S!Served) /\ Cardinality(S!Served') \in Nat
    BY <2>1, Present, FS_Subset, FS_CardinalityType
  <2>3. Cardinality(S!Served') <= MaxConnections
    BY <2>2, Present, TransferAssumption
  <2> QED BY <2>3 DEF S!WithinLimit, Cardinality, S!Cardinality
<1> QED BY <1>2, <1>3, <1>5, <1>6 DEF ServerInv

LEMMA OffsetPreserves ==
  ASSUME ServerInv, NEW h \in Handlers, NEW k \in Nat,
         offset' = [offset EXCEPT ![h] = k], UNCHANGED <<nbClients, phase>>
  PROVE  ServerInv'
<1>1. S!TypeOK'
  BY DEF ServerInv, S!TypeOK
<1>2. S!Present' = S!Present /\ S!Served' = S!Served
  BY DEF S!Present, S!Served
<1> QED BY <1>1, <1>2 DEF ServerInv, S!CountsClients, S!WithinLimit

(* A Read of one unit gets something before the end of the file only.       *)
LEMMA ReadableOne ==
  ASSUME NEW h \in Handlers, offset[h] \in Nat
  PROVE  S!Readable(h, 1) = IF offset[h] < FileLength THEN 1 ELSE 0
<1>1. FileLength \in Nat
  BY TransferAssumption
<1>2. ASSUME NEW a \in Int, NEW b \in Int
      PROVE  /\ S!Max({a, b}) = IF a >= b THEN a ELSE b
             /\ S!Min({a, b}) = IF a <= b THEN a ELSE b
  <2> DEFINE max(m) == m \in {a, b} /\ \A y \in {a, b} : m >= y
             min(m) == m \in {a, b} /\ \A y \in {a, b} : m =< y
  <2>1. PICK x : x = IF a >= b THEN a ELSE b
    OBVIOUS
  <2>2. max(x) /\ \A m : max(m) => m = x
    BY <2>1
  <2>3. PICK z : z = IF a <= b THEN a ELSE b
    OBVIOUS
  <2>4. min(z) /\ \A m : min(m) => m = z
    BY <2>3
  <2>5. S!Max({a, b}) = x
    BY <2>2 DEF S!Max
  <2>6. S!Min({a, b}) = z
    BY <2>4 DEF S!Min
  <2> QED BY <2>1, <2>3, <2>5, <2>6
<1>8. \A a, b \in Int : /\ S!Max({a, b}) = IF a >= b THEN a ELSE b
                        /\ S!Min({a, b}) = IF a <= b THEN a ELSE b
  BY <1>2
<1>3. PICK m \in Int : m = FileLength - offset[h]
  BY <1>1
<1>4. PICK k \in Int : k = IF m >= 0 THEN m ELSE 0
  <2>1. m \in Int /\ 0 \in Int
    OBVIOUS
  <2> QED BY <2>1
<1>5. S!Max({m, 0}) = k
  <2>1. S!Max({m, 0}) = IF m >= 0 THEN m ELSE 0
    BY <1>8
  <2> QED BY <1>4, <2>1
<1>6. S!Min({1, k}) = IF 1 <= k THEN 1 ELSE k
  <2>1. 1 \in Int /\ k \in Int
    OBVIOUS
  <2> QED BY <1>8, <2>1, Zenon
<1>7. S!Readable(h, 1) = S!Min({1, k})
  <2>1. S!Readable(h, 1) = S!Min({1, S!Max({FileLength - offset[h], 0})})
    BY Zenon DEF S!Readable
  <2>2. FileLength - offset[h] = m
    BY <1>3
  <2>3. S!Max({FileLength - offset[h], 0}) = k
    BY <1>5, <2>2, Zenon
  <2> QED BY <2>1, <2>3, Zenon
<1> QED BY <1>1, <1>3, <1>4, <1>6, <1>7
-----------------------------------------------------------------------------
(* The inductive invariant of the loops *)

TypeInv ==
  TypeOK /\ remote \in Seq(Int) /\ dest \in Seq(Int) /\ wire \in [Handlers -> Seq(Int)]

(* Between transfers nothing is on the way to the connection in hand, and   *)
(* nothing ever is to a handler without a client.                           *)
PlaceInv ==
  /\ HandIsServed
  /\ pc = "copy" => hand # None
  /\ pc # "copy" => n = 0
  /\ \A h \in Handlers : phase[h] = "away" => wire[h] = <<>>
  /\ hand # None /\ pc # "copy" => wire[hand] = <<>>

(* The positions from first on, in order.                                   *)
InOrder(s, first) == \A i \in 1..Len(s) : s[i] = first + i - 1

(* Retrieve: the server is where dest is.                                   *)
DownInv ==
  direction = "download" =>
    /\ pc \notin {"resume", "verify"}
    /\ size \in {-1, FileLength}
    /\ Len(dest) = Moved /\ Moved <= FileLength /\ InOrder(dest, 0)
    /\ \A h \in Handlers : wire[h] = <<>>
    /\ pc = "copy" => offset[hand] = Moved
    /\ pc = "ok" /\ (size # -1 \/ builtIn) => Moved = FileLength

(* Store: what is on the way continues where its handler is, up to where    *)
(* the source is for the transfer that runs.                                *)
WireInv ==
  direction = "upload" =>
    /\ pc # "size" /\ source = Moved
    /\ pc = "features" => bytesSoFar = 0
    /\ \A h \in Handlers : InOrder(wire[h], offset[h])
    /\ \A h \in Handlers : wire[h] # <<>> => offset[h] + Len(wire[h]) <= FileLength
    /\ pc = "copy" => offset[hand] + Len(wire[hand]) = source
    /\ pc \in {"verify", "ok"} => bytesSoFar = FileLength

(* The file: no handler writes behind its end, unless it was emptied under  *)
(* one.                                                                     *)
FileInv ==
  /\ Len(remote) <= FileLength
  /\ \A i \in 1..Len(remote) : remote[i] \in {i - 1, -1}
  /\ builtIn \/ direction = "download" => remote = <<>>
  /\ direction = "upload" /\ ~builtIn /\ ~crossed =>
       /\ InOrder(remote, 0)
       /\ \A h \in Handlers : wire[h] # <<>> => offset[h] <= Len(remote)
       /\ pc = "transfer" => bytesSoFar <= Len(remote)
       /\ pc = "copy" => offset[hand] <= Len(remote)
  /\ direction = "upload" /\ ~builtIn /\ pc = "ok" /\ size # -1 => Len(remote) = FileLength

TransferInv == TypeInv /\ ServerInv /\ PlaceInv /\ DownInv /\ WireInv /\ FileInv

(* What a write at a position makes of a file.                              *)
LEMMA Stored ==
  ASSUME NEW file \in Seq(Int), NEW at \in Nat, NEW byte \in Int
  PROVE  /\ Put(file, at, byte) \in Seq(Int)
         /\ Len(Put(file, at, byte)) = IF at < Len(file) THEN Len(file) ELSE at + 1
         /\ \A i \in 1..Len(Put(file, at, byte)) :
              Put(file, at, byte)[i] = IF i = at + 1 THEN byte
                                       ELSE IF i <= Len(file) THEN file[i] ELSE -1
<1>1. PICK m \in Nat : m = IF at < Len(file) THEN Len(file) ELSE at + 1
  BY LenProperties
<1>2. Put(file, at, byte) = [i \in 1..m |-> IF i = at + 1 THEN byte
                                            ELSE IF i <= Len(file) THEN file[i] ELSE -1]
  BY <1>1 DEF Put
<1>3. \A i \in 1..m : (IF i = at + 1 THEN byte ELSE IF i <= Len(file) THEN file[i] ELSE -1) \in Int
  <2>1. \A i \in 1..Len(file) : file[i] \in Int
    BY ElementOfSeq
  <2>2. \A i \in 1..m : i <= Len(file) => i \in 1..Len(file)
    BY LenProperties
  <2> QED BY <2>1, <2>2
<1>4. Put(file, at, byte) \in Seq(Int) /\ Len(Put(file, at, byte)) = m
  BY <1>2, <1>3
<1> QED BY <1>1, <1>2, <1>4

(* Nothing is left of a sequence that says nothing, and the rest of one     *)
(* that does goes on where its head was.                                    *)
LEMMA OneTaken ==
  ASSUME NEW s \in Seq(Int), s # <<>>, NEW first \in Int, InOrder(s, first)
  PROVE  /\ Head(s) = first /\ Tail(s) \in Seq(Int) /\ Len(Tail(s)) = Len(s) - 1
         /\ Len(s) \in Nat \ {0} /\ InOrder(Tail(s), first + 1)
<1>1. Len(s) \in Nat \ {0} /\ Head(s) = s[1] /\ Tail(s) \in Seq(Int)
      /\ Len(Tail(s)) = Len(s) - 1 /\ \A i \in 1..(Len(s) - 1) : Tail(s)[i] = s[i + 1]
  BY EmptySeq, LenProperties, HeadTailProperties
<1> QED BY <1>1 DEF InOrder

LEMMA OneMore ==
  ASSUME NEW s \in Seq(Int), NEW first \in Int, InOrder(s, first), NEW e \in Int,
         e = first + Len(s)
  PROVE  /\ Append(s, e) \in Seq(Int) /\ Len(Append(s, e)) = Len(s) + 1
         /\ InOrder(Append(s, e), first)
<1>1. /\ Len(s) \in Nat /\ Append(s, e) \in Seq(Int) /\ Len(Append(s, e)) = Len(s) + 1
      /\ \A i \in 1..Len(s) : Append(s, e)[i] = s[i]
      /\ Append(s, e)[Len(s) + 1] = e
  BY LenProperties
<1> QED BY <1>1 DEF InOrder

LEMMA AllInOrder ==
  ASSUME NEW s \in Seq(Int), InOrder(s, 0)
  PROVE  s = Positions(Len(s))
<1>1. Len(s) \in Nat /\ s \in [1..Len(s) -> Int]
  BY LenProperties
<1> QED BY <1>1 DEF InOrder, Positions

(* The initial state.                                                       *)
LEMMA TransferInit == Init => TransferInv
<1> SUFFICES ASSUME Init PROVE TransferInv
  OBVIOUS
<1>1. /\ nbClients = 0 /\ phase = [h \in Handlers |-> "away"]
      /\ offset = [h \in Handlers |-> 0]
  BY DEF Init, S!Init
<1>2. S!TypeOK
  BY <1>1 DEF S!TypeOK
<1>3. ServerInv
  <2>1. S!Present = {} /\ S!Served = {}
    BY <1>1 DEF S!Present, S!Served
  <2>2. Cardinality({}) = 0
    BY FS_EmptySet
  <2>3. Cardinality(S!Present) = nbClients /\ Cardinality(S!Served) <= MaxConnections
    BY <1>1, <2>1, <2>2, TransferAssumption
  <2> QED BY <1>2, <2>3 DEF ServerInv, S!CountsClients, S!WithinLimit, Cardinality, S!Cardinality
<1>4. direction \in {"download", "upload"} /\ FileLength \in Nat
  BY TransferAssumption DEF Init
<1>5. TypeInv
  <2>1. canResume \in BOOLEAN /\ crossed \in BOOLEAN /\ builtIn \in BOOLEAN /\ restStream \in BOOLEAN
    BY DEF Init
  <2>2. wire \in [Handlers -> Seq(Int)] /\ remote \in Seq(Int) /\ dest \in Seq(Int)
    BY DEF Init
  <2>3. direction \in Directions /\ hand = None /\ bytesSoFar = 0 /\ n = 0 /\ size = -1 /\ source = 0
        /\ pc \in {"size", "features"}
    BY DEF Init
  <2>4. -1 \in -1..FileLength /\ 0 \in 0..FileLength
    BY <1>4
  <2> QED BY <1>2, <2>1, <2>2, <2>3, <2>4 DEF TypeInv, TypeOK
<1>6. PlaceInv
  BY <1>1 DEF Init, PlaceInv, HandIsServed
<1>7. DownInv /\ WireInv /\ FileInv
  BY <1>1, <1>4 DEF Init, DownInv, WireInv, FileInv, Moved, InOrder
<1> QED BY <1>3, <1>5, <1>6, <1>7 DEF TransferInv

(* What the invariant says of the types, in the form the steps use.         *)
LEMMA Typed ==
  ASSUME TransferInv
  PROVE  /\ direction \in {"download", "upload"} /\ direction \in Directions
         /\ builtIn \in BOOLEAN /\ restStream \in BOOLEAN
         /\ canResume \in BOOLEAN /\ crossed \in BOOLEAN
         /\ pc \in {"size", "features", "transfer", "copy", "resume", "verify", "ok", "failed"}
         /\ hand \in Mine \cup {None} /\ Mine \subseteq Handlers /\ None \notin Handlers
         /\ bytesSoFar \in Nat /\ n \in Nat /\ size \in -1..FileLength
         /\ source \in 0..FileLength /\ FileLength \in Nat
         /\ remote \in Seq(Int) /\ dest \in Seq(Int) /\ wire \in [Handlers -> Seq(Int)]
         /\ phase \in [Handlers -> {"away", "welcome", "refused"}]
         /\ offset \in [Handlers -> Nat]
         /\ RemoteSize \in 0..FileLength /\ Moved <= FileLength
<1>1. TypeInv /\ TypeOK /\ S!TypeOK /\ FileInv
  BY DEF TransferInv, TypeInv, TypeOK
<1>2. direction \in {"download", "upload"} /\ direction \in Directions
  BY <1>1, TransferAssumption DEF TypeOK
<1>3. FileLength \in Nat /\ Mine \subseteq Handlers /\ None \notin Handlers
  BY TransferAssumption DEF Mine
<1>4. Len(remote) \in Nat /\ Len(remote) <= FileLength
  BY <1>1, LenProperties DEF TypeInv, FileInv
<1>5. RemoteSize \in 0..FileLength
  BY <1>3, <1>4 DEF RemoteSize
<1>6. builtIn \in BOOLEAN /\ restStream \in BOOLEAN /\ canResume \in BOOLEAN /\ crossed \in BOOLEAN
  BY <1>1 DEF TypeOK
<1>7. Moved <= FileLength
  BY <1>1, <1>2, <1>3 DEF TransferInv, DownInv, WireInv, TypeOK
<1> QED BY <1>1, <1>2, <1>3, <1>5, <1>6, <1>7 DEF TypeInv, TypeOK, S!TypeOK

(* A step of the loop, with no byte moved and no client come or gone, keeps *)
(* the invariant if its place and its counts say so.                        *)
LEMMA QuietStep ==
  ASSUME TransferInv, TypeOK', UNCHANGED <<choice, server, dest, remote, wire, crossed>>,
         hand' \in {hand, None}, n' = 0,
         pc # "copy" \/ hand' = None, pc' # "copy", pc \notin {"ok", "failed"},
         direction = "download" =>
           /\ bytesSoFar' = Moved /\ pc' \notin {"resume", "verify", "ok"}
           /\ size' \in {-1, FileLength},
         direction = "upload" =>
           /\ pc' \notin {"size", "features"} /\ source' = bytesSoFar' /\ bytesSoFar' <= FileLength
           /\ pc' = "transfer" => bytesSoFar' = 0 \/ bytesSoFar' = RemoteSize
           /\ pc' \in {"verify", "ok"} => pc = "verify" /\ bytesSoFar' = bytesSoFar
           /\ pc' = "ok" /\ size' # -1 => bytesSoFar' = RemoteSize
  PROVE  TransferInv'
<1> USE DEF choice, server
<1>1. ServerInv'
  BY DEF TransferInv, ServerInv, S!TypeOK, S!CountsClients, S!WithinLimit, S!Present, S!Served
<1>2. TypeInv'
  BY DEF TransferInv, TypeInv
<1>3. PlaceInv'
  BY Typed DEF TransferInv, PlaceInv, HandIsServed
<1>4. DownInv'
  BY Typed DEF TransferInv, DownInv, Moved
<1>5. WireInv'
  <2> SUFFICES ASSUME direction = "upload" PROVE WireInv'
    BY DEF WireInv
  <2>1. /\ \A h \in Handlers : InOrder(wire[h], offset[h])
        /\ \A h \in Handlers : wire[h] # <<>> => offset[h] + Len(wire[h]) <= FileLength
        /\ pc = "verify" => bytesSoFar = FileLength
    BY DEF TransferInv, WireInv
  <2>2. /\ \A h \in Handlers : InOrder(wire'[h], offset'[h])
        /\ \A h \in Handlers : wire'[h] # <<>> => offset'[h] + Len(wire'[h]) <= FileLength
    BY <2>1
  <2>3. source' = Moved'
    <3>1. bytesSoFar' \in Nat
      BY DEF TypeOK
    <3>2. \A m \in Nat : m + 0 = m
      OBVIOUS
    <3>3. bytesSoFar' + 0 = bytesSoFar'
      BY <3>1, <3>2, Zenon
    <3>4. source' = bytesSoFar' /\ n' = 0
      BY Zenon
    <3> QED BY <3>3, <3>4, Zenon DEF Moved
  <2> QED BY <2>1, <2>2, <2>3 DEF WireInv
<1>6. FileInv'
  <2>1. FileInv /\ Len(remote) \in Nat
    BY Typed, LenProperties DEF TransferInv
  <2>2. /\ direction' = "upload" /\ ~builtIn' /\ pc' = "transfer" => bytesSoFar' <= Len(remote')
        /\ direction' = "upload" /\ ~builtIn' /\ pc' = "ok" /\ size' # -1 => Len(remote') = FileLength
    BY <2>1, Typed DEF RemoteSize, TransferInv, WireInv
  <2> QED BY <2>1, <2>2 DEF FileInv, InOrder
<1> QED BY <1>1, <1>2, <1>3, <1>4, <1>5, <1>6 DEF TransferInv

(* The types of what a step without data changes.                           *)
LEMMA QuietTypes ==
  ASSUME TransferInv, UNCHANGED <<choice, crossed, server>>,
         pc' \in {"size", "features", "transfer", "copy", "resume", "verify", "ok", "failed"},
         hand' \in {hand, None}, bytesSoFar' \in Nat, n' \in Nat, size' \in -1..FileLength,
         canResume' \in {canResume, restStream, FALSE}, source' \in 0..FileLength
  PROVE  TypeOK'
<1>1. S!TypeOK'
  BY DEF TransferInv, ServerInv, S!TypeOK, server
<1>2. canResume' \in BOOLEAN
  BY Typed
<1>3. /\ direction' \in Directions /\ crossed' \in BOOLEAN
      /\ builtIn' \in BOOLEAN /\ restStream' \in BOOLEAN
  BY Typed DEF choice
<1>4. hand' \in Mine \cup {None}
  BY Typed
<1> QED BY <1>1, <1>2, <1>3, <1>4 DEF TypeOK

(* A failed transfer counts what it moved, and goes on or gives up.         *)
LEMMA FailedStep ==
  ASSUME TransferInv, UNCHANGED <<choice, server, dest, remote, wire, crossed, source>>,
         pc \in {"transfer", "copy"}, hand' \in {hand, None}, pc # "copy" \/ hand' = None,
         NEW moved \in Nat, moved = n, TransferFails(moved)
  PROVE  TransferInv'
<1>1. /\ bytesSoFar' = Moved /\ n' = 0 /\ size' = size /\ canResume' = canResume
      /\ pc' \in {"failed", "transfer", "resume"}
      /\ direction = "download" => pc' # "resume"
      /\ direction = "upload" => pc' # "transfer"
  BY Typed DEF TransferFails, AddAll, Resumes, Go, Moved
<1>2. bytesSoFar' \in Nat /\ bytesSoFar' <= FileLength
  BY <1>1, Typed DEF Moved
<1>3. TypeOK'
  <2>1. n' \in Nat /\ size' \in -1..FileLength /\ source' \in 0..FileLength
    BY <1>1, Typed
  <2> QED BY <1>1, <1>2, <2>1, QuietTypes
<1>4. direction = "download" => size' \in {-1, FileLength}
  BY <1>1 DEF TransferInv, DownInv
<1>5. direction = "upload" => source' = bytesSoFar'
  BY <1>1 DEF TransferInv, WireInv
<1> QED BY <1>1, <1>2, <1>3, <1>4, <1>5, QuietStep

(* The steps of the loop that neither move bytes nor open connections.      *)
LEMMA LoopStep ==
  ASSUME TransferInv,
         \/ ConnectFails \/ Features \/ SizeOfFile \/ ResumeUpload \/ VerifyUpload
         \/ SizeFails \/ OpenFails \/ CopyBreaks
  PROVE  TransferInv'
<1> USE DEF Go
<1>0. /\ direction = "download" => size \in {-1, FileLength} /\ pc \notin {"resume", "verify"}
      /\ direction = "upload" => pc # "size" /\ source = Moved /\ Moved <= FileLength
      /\ pc # "copy" => n = 0 /\ Moved = bytesSoFar
      /\ pc = "verify" => bytesSoFar <= FileLength
  BY Typed DEF TransferInv, DownInv, WireInv, PlaceInv, Moved
<1>1. CASE OpenFails
  <2>1. /\ UNCHANGED <<choice, server, dest, remote, wire, crossed, source>>
        /\ pc = "transfer" /\ hand' \in {hand, None} /\ TransferFails(0) /\ n = 0
    BY <1>0, <1>1 DEF OpenFails, data, server
  <2> QED BY <2>1, FailedStep
<1>2. CASE CopyBreaks
  <2>1. /\ UNCHANGED <<choice, server, dest, remote, wire, crossed, source>>
        /\ pc = "copy" /\ hand' = None /\ TransferFails(n) /\ n \in Nat
    BY <1>2, Typed DEF CopyBreaks, data, server
  <2> QED BY <2>1, FailedStep
<1>3. CASE ConnectFails \/ Features \/ SizeFails
  <2>1. /\ UNCHANGED <<choice, server, dest, remote, wire, crossed, source, bytesSoFar, n, size>>
        /\ hand' \in {hand, None} /\ pc \notin {"copy", "ok", "failed"}
        /\ pc' \in {"failed", "transfer"} /\ (pc' = "transfer" => pc = "features")
        /\ canResume' \in {canResume, restStream, FALSE}
    BY <1>3 DEF ConnectFails, NeedsConnection, WithoutConnection, Features, SizeFails, data,
       server, loop
  <2>2. TypeOK'
    BY <2>1, Typed, QuietTypes
  <2>3. n' = 0 /\ bytesSoFar' = Moved
    BY <1>0, <2>1
  <2>4. direction = "upload" /\ pc = "features" => bytesSoFar' = 0
    BY <2>1 DEF TransferInv, WireInv
  <2> QED BY <1>0, <2>1, <2>2, <2>3, <2>4, QuietStep
<1>4. CASE SizeOfFile
  <2>1. /\ UNCHANGED <<choice, server, dest, remote, wire, crossed, source, bytesSoFar, n>>
        /\ UNCHANGED <<hand, canResume>>
        /\ pc = "size" /\ pc' = "features" /\ size' \in {RemoteSize, -1}
    BY <1>4 DEF SizeOfFile, Answers, data, server
  <2>2. direction = "download" /\ size' \in {FileLength, -1}
    BY <1>0, <2>1, Typed DEF RemoteSize
  <2>3. TypeOK'
    BY <2>1, <2>2, Typed, QuietTypes
  <2>4. n' = 0 /\ bytesSoFar' = Moved
    BY <1>0, <2>1
  <2> QED BY <1>0, <2>1, <2>2, <2>3, <2>4, QuietStep
<1>5. CASE ResumeUpload
  <2>1. PICK answer \in {RemoteSize, -1} :
          IF answer = -1
          THEN pc' = "failed" /\ UNCHANGED <<bytesSoFar, source>>
          ELSE source' = answer /\ bytesSoFar' = answer /\ pc' = "transfer"
    BY <1>5 DEF ResumeUpload, Answers, Seek
  <2>2. /\ UNCHANGED <<choice, server, dest, remote, wire, crossed, n, size, hand, canResume>>
        /\ pc = "resume"
    BY <1>5 DEF ResumeUpload, server
  <2>3. direction = "upload" /\ n' = 0 /\ n' \in Nat
    BY <1>0, <2>2, Typed
  <2>4. /\ source' = bytesSoFar' /\ bytesSoFar' \in 0..FileLength
        /\ \/ pc' = "transfer" /\ bytesSoFar' = RemoteSize
           \/ pc' = "failed"
    BY <1>0, <2>1, <2>2, <2>3, Typed
  <2>5. bytesSoFar' \in Nat /\ bytesSoFar' <= FileLength /\ size' \in -1..FileLength
    BY <2>2, <2>4, Typed
  <2>6. TypeOK'
    BY <2>2, <2>3, <2>4, <2>5, Typed, QuietTypes
  <2> QED BY <2>2, <2>3, <2>4, <2>5, <2>6, QuietStep
<1>6. CASE VerifyUpload
  <2>1. /\ UNCHANGED <<choice, server, dest, remote, wire, crossed, n, bytesSoFar, source>>
        /\ UNCHANGED <<hand, canResume>>
        /\ pc = "verify" /\ size' \in {RemoteSize, -1}
        /\ pc' = IF size' \in {-1, bytesSoFar} THEN "ok" ELSE "failed"
    BY <1>6 DEF VerifyUpload, Answers, Matches, data, server
  <2>2. direction = "upload" /\ n' = 0 /\ source' = bytesSoFar' /\ bytesSoFar' <= FileLength
    BY <1>0, <2>1, Typed
  <2>3. size' \in -1..FileLength /\ n' \in Nat /\ bytesSoFar' \in Nat /\ source' \in 0..FileLength
    BY <2>1, Typed
  <2>4. TypeOK'
    BY <2>1, <2>3, QuietTypes
  <2>5. pc' = "ok" /\ size' # -1 => bytesSoFar' = RemoteSize
    BY <2>1
  <2> QED BY <2>1, <2>2, <2>4, <2>5, QuietStep
<1> QED BY <1>1, <1>2, <1>3, <1>4, <1>5, <1>6

(* A client arrives: a connection of this one, to which nothing has been    *)
(* sent yet, or of another user.                                            *)
LEMMA ArrivalStep ==
  ASSUME TransferInv, NEW h \in Handlers, Connect \/ OtherArrives(h)
  PROVE  TransferInv'
<1> USE DEF Go
<1>1. PICK g \in Handlers :
        /\ S!WelcomeUser(g) /\ UNCHANGED <<choice, bytesSoFar, n, size, data>>
        /\ \/ /\ UNCHANGED <<pc, canResume>>
              /\ hand' = hand \/ (g \in Mine /\ hand' = g /\ phase'[g] = "welcome" /\ hand = None)
           \/ /\ hand' = hand /\ hand = None
              /\ pc' = "transfer" /\ canResume' = FALSE /\ pc = "features"
           \/ /\ hand' = hand /\ hand = None /\ UNCHANGED canResume
              /\ pc' = "failed" /\ pc \notin {"copy", "ok"}
  <2>1. CASE Connect
    <3>1. PICK g \in Mine :
            /\ S!WelcomeUser(g)
            /\ IF phase'[g] = "welcome"
               THEN hand' = g /\ UNCHANGED <<pc, canResume>>
               ELSE WithoutConnection /\ UNCHANGED hand
      BY <2>1 DEF Connect
    <3>2. /\ UNCHANGED <<choice, bytesSoFar, n, size, data>> /\ hand = None
          /\ pc \notin {"copy", "ok"} /\ g \in Handlers
      BY <2>1, Typed DEF Connect, NeedsConnection
    <3>3. WithoutConnection => \/ pc' = "transfer" /\ canResume' = FALSE /\ pc = "features"
                               \/ pc' = "failed" /\ UNCHANGED canResume
      BY DEF WithoutConnection
    <3> QED BY <3>1, <3>2, <3>3
  <2>2. CASE OtherArrives(h)
    BY <2>2 DEF OtherArrives, loop
  <2> QED BY <2>1, <2>2
<1>2. /\ ServerInv' /\ phase[g] = "away" /\ phase'[g] \in {"welcome", "refused"}
      /\ offset' = offset /\ \A f \in Handlers : f # g => phase'[f] = phase[f]
  BY <1>1, WelcomePreserves DEF TransferInv
<1>3. /\ UNCHANGED <<direction, builtIn, restStream, bytesSoFar, n, size>>
      /\ UNCHANGED <<source, dest, remote, wire, crossed>>
  BY <1>1 DEF choice, data
<1>4. hand # None => g # hand
  BY <1>2 DEF TransferInv, PlaceInv, HandIsServed
<1>5. wire[g] = <<>>
  BY <1>2 DEF TransferInv, PlaceInv
<1>6. pc' = "copy" <=> pc = "copy"
  BY <1>1
<1>7. pc = "copy" => hand' = hand /\ hand # None
  BY <1>1 DEF TransferInv, PlaceInv
<1>8. TypeInv'
  <2>1. canResume' \in BOOLEAN
    BY <1>1, Typed
  <2>2. pc' \in {"size", "features", "transfer", "copy", "resume", "verify", "ok", "failed"}
        /\ hand' \in Mine \cup {None}
    BY <1>1, Typed
  <2>3. S!TypeOK'
    BY <1>2 DEF ServerInv
  <2>4. /\ direction' \in Directions /\ builtIn' \in BOOLEAN /\ restStream' \in BOOLEAN
        /\ crossed' \in BOOLEAN
    BY <1>3, Typed
  <2>5. bytesSoFar' \in Nat /\ n' \in Nat /\ size' \in -1..FileLength /\ source' \in 0..FileLength
    BY <1>3, Typed
  <2>6. remote' \in Seq(Int) /\ dest' \in Seq(Int) /\ wire' \in [Handlers -> Seq(Int)]
    BY <1>3, Typed
  <2> QED BY <2>1, <2>2, <2>3, <2>4, <2>5, <2>6 DEF TypeInv, TypeOK
<1>9. PlaceInv'
  <2>1. hand' # None => phase'[hand'] = "welcome"
    BY <1>1, <1>2, <1>4, Typed DEF TransferInv, PlaceInv, HandIsServed
  <2>2. \A f \in Handlers : phase'[f] = "away" => wire'[f] = <<>>
    BY <1>2, <1>3, <1>5 DEF TransferInv, PlaceInv
  <2>3. hand' # None /\ pc' # "copy" => wire'[hand'] = <<>>
    BY <1>1, <1>3, <1>5, <1>6 DEF TransferInv, PlaceInv
  <2>4. (pc' = "copy" => hand' # None) /\ (pc' # "copy" => n' = 0)
    BY <1>1, <1>3, <1>6, <1>7 DEF TransferInv, PlaceInv
  <2> QED BY <2>1, <2>2, <2>3, <2>4 DEF PlaceInv, HandIsServed
<1>10. DownInv'
  BY <1>1, <1>2, <1>3, <1>6, <1>7 DEF TransferInv, DownInv, Moved
<1>11. WireInv'
  <2>1. direction = "upload" => WireInv
    BY DEF TransferInv
  <2>2. /\ pc' \in {"verify", "ok"} => pc' = pc
        /\ pc' \in {"size", "features"} => pc' = pc
    BY <1>1
  <2> QED BY <1>1, <1>2, <1>3, <1>6, <1>7, <2>1, <2>2 DEF WireInv, Moved
<1>12. FileInv'
  <2>1. direction = "upload" /\ pc' = "transfer" /\ pc # "transfer" => bytesSoFar = 0
    BY <1>1 DEF TransferInv, WireInv
  <2>2. FileInv /\ Len(remote) \in Nat
    BY Typed, LenProperties DEF TransferInv
  <2>3. pc' = "ok" => pc = "ok"
    BY <1>1
  <2> QED BY <1>1, <1>2, <1>3, <1>6, <1>7, <2>1, <2>2, <2>3 DEF FileInv
<1> QED BY <1>2, <1>8, <1>9, <1>10, <1>11, <1>12 DEF TransferInv

(* A client leaves, with what was on the way to its handler.                *)
LEMMA LeaveStep ==
  ASSUME TransferInv, NEW h \in Handlers, Leave(h)
  PROVE  TransferInv'
<1>1. /\ h # hand /\ wire' = [wire EXCEPT ![h] = <<>>] /\ S!UserLeft(h)
      /\ UNCHANGED <<direction, builtIn, restStream, pc, hand, canResume, bytesSoFar, n, size>>
      /\ UNCHANGED <<source, dest, remote, crossed>>
  BY DEF Leave, choice, loop
<1>2. /\ ServerInv' /\ phase' = [phase EXCEPT ![h] = "away"]
      /\ offset' = [offset EXCEPT ![h] = 0]
  BY <1>1, LeftPreserves DEF TransferInv
<1>3. /\ wire'[h] = <<>> /\ wire' \in [Handlers -> Seq(Int)]
      /\ \A g \in Handlers : g # h => wire'[g] = wire[g] /\ offset'[g] = offset[g]
                                      /\ phase'[g] = phase[g]
      /\ hand # None => hand \in Handlers /\ hand # h
  BY <1>1, <1>2, Typed
<1>4. TypeInv'
  <2>1. S!TypeOK'
    BY <1>2 DEF ServerInv
  <2> QED BY <1>1, <1>3, <2>1, Typed DEF TypeInv, TypeOK
<1>5. PlaceInv'
  BY <1>1, <1>3 DEF TransferInv, PlaceInv, HandIsServed
<1>6. DownInv'
  BY <1>1, <1>3 DEF TransferInv, PlaceInv, DownInv, Moved
<1>7. WireInv'
  <2> SUFFICES ASSUME direction = "upload" PROVE WireInv'
    BY <1>1 DEF WireInv
  <2>1. Len(<<>>) = 0
    BY EmptySeq
  <2>2. \A g \in Handlers : InOrder(wire'[g], offset'[g])
    <3>1. InOrder(wire'[h], offset'[h])
      BY <1>3, <2>1 DEF InOrder
    <3> QED BY <1>3, <3>1 DEF TransferInv, WireInv
  <2> QED BY <1>1, <1>3, <2>2 DEF TransferInv, PlaceInv, WireInv, Moved
<1>8. FileInv'
  BY <1>1, <1>3 DEF TransferInv, PlaceInv, FileInv
<1> QED BY <1>2, <1>4, <1>5, <1>6, <1>7, <1>8 DEF TransferInv

(* A transfer begins where the loop is: there is its handler, too.          *)
LEMMA OpenStep ==
  ASSUME TransferInv, Open
  PROVE  TransferInv'
<1>1. /\ pc = "transfer" /\ pc' = "copy" /\ hand # None /\ n' = 0 /\ n = 0
      /\ S!OpenFile(hand, bytesSoFar)
      /\ remote' = IF Empties THEN <<>> ELSE remote
      /\ crossed' = (crossed \/ (Empties /\ \E h \in Handlers : wire[h] # <<>>))
      /\ UNCHANGED <<direction, builtIn, restStream, hand, canResume, bytesSoFar, size>>
      /\ UNCHANGED <<source, dest, wire>>
  BY DEF Open, Marker, Go, choice, TransferInv, PlaceInv
<1>2. hand \in Mine /\ hand \in Handlers /\ hand' \in Handlers
  BY <1>1, Typed
<1>3. offset' = [offset EXCEPT ![hand] = bytesSoFar] /\ UNCHANGED <<nbClients, phase>>
  BY <1>1 DEF S!OpenFile
<1>4. ServerInv'
  BY <1>2, <1>3, OffsetPreserves, Typed DEF TransferInv
<1>5. /\ offset'[hand] = bytesSoFar /\ wire[hand] = <<>>
      /\ \A g \in Handlers : g # hand => offset'[g] = offset[g]
  BY <1>1, <1>2, <1>3, Typed DEF TransferInv, PlaceInv
<1>6. Len(<<>>) = 0 /\ <<>> \in Seq(Int)
  BY EmptySeq
<1>7. TypeInv'
  <2>1. S!TypeOK'
    BY <1>4 DEF ServerInv
  <2>2. remote' \in Seq(Int)
    BY <1>1, <1>6, Typed
  <2>3. crossed' \in BOOLEAN
    BY <1>1, Typed
  <2> QED BY <1>1, <2>1, <2>2, <2>3, Typed DEF TypeInv, TypeOK
<1>8. PlaceInv'
  BY <1>1, <1>3 DEF TransferInv, PlaceInv, HandIsServed
<1>9. DownInv'
  <2>1. Moved' = bytesSoFar /\ Moved = bytesSoFar
    BY <1>1, Typed DEF Moved
  <2> QED BY <1>1, <1>5, <2>1 DEF TransferInv, DownInv
<1>10. WireInv'
  <2> SUFFICES ASSUME direction = "upload" PROVE WireInv'
    BY <1>1 DEF WireInv
  <2>1. \A g \in Handlers : InOrder(wire'[g], offset'[g])
    <3>1. InOrder(wire'[hand], offset'[hand])
      BY <1>1, <1>5, <1>6 DEF InOrder
    <3> QED BY <1>1, <1>5, <3>1 DEF TransferInv, WireInv
  <2>2. source' = Moved' /\ offset'[hand] + Len(wire'[hand]) = source'
    <3>1. source = bytesSoFar + n
      BY DEF TransferInv, WireInv, Moved
    <3> QED BY <1>1, <1>5, <1>6, <3>1, Typed DEF Moved
  <2> QED BY <1>1, <1>5, <2>1, <2>2 DEF TransferInv, WireInv
<1>11. FileInv'
  <2>1. FileInv /\ Len(remote) \in Nat /\ FileLength \in Nat /\ bytesSoFar \in Nat
    BY Typed, LenProperties DEF TransferInv
  <2>2. CASE Empties
    <3>1. direction = "upload" /\ ~builtIn /\ bytesSoFar = 0 /\ remote' = <<>>
      BY <1>1, <2>2 DEF Empties
    <3>2. ~crossed' => \A g \in Handlers : wire'[g] = <<>>
      BY <1>1, <2>2
    <3> QED BY <1>1, <1>5, <1>6, <2>1, <3>1, <3>2 DEF FileInv, InOrder
  <2>3. CASE ~Empties
    <3>1. remote' = remote /\ (crossed' <=> crossed)
      BY <1>1, <2>3, Typed
    <3> QED BY <1>1, <1>5, <2>1, <3>1 DEF FileInv
  <2> QED BY <2>2, <2>3
<1> QED BY <1>4, <1>7, <1>8, <1>9, <1>10, <1>11 DEF TransferInv

(* Retrieve gets the next unit of the file.                                 *)
LEMMA CopyDownStep ==
  ASSUME TransferInv, CopyDown
  PROVE  TransferInv'
<1>1. /\ pc = "copy" /\ direction = "download" /\ S!Readable(hand, 1) > 0
      /\ dest' = Append(dest, offset[hand]) /\ n' = n + 1
      /\ offset' = [offset EXCEPT ![hand] = @ + 1] /\ UNCHANGED <<nbClients, phase>>
      /\ UNCHANGED <<direction, builtIn, restStream, pc, hand, canResume, bytesSoFar, size>>
      /\ UNCHANGED <<source, remote, wire, crossed>>
  BY DEF CopyDown, S!Advance, choice
<1>2. hand \in Handlers /\ offset[hand] = Moved /\ Moved \in Nat
  BY <1>1, Typed DEF TransferInv, PlaceInv, DownInv, Moved
<1>3. offset[hand] < FileLength
  BY <1>1, <1>2, ReadableOne
<1>4. ServerInv'
  <2>1. offset[hand] + 1 \in Nat
    BY <1>2
  <2> QED BY <1>1, <1>2, <2>1, OffsetPreserves DEF TransferInv
<1>5. dest' \in Seq(Int) /\ Len(dest') = Moved + 1 /\ InOrder(dest', 0)
  <2>1. InOrder(dest, 0) /\ Len(dest) = Moved /\ dest \in Seq(Int)
    BY <1>1, Typed DEF TransferInv, DownInv
  <2>2. offset[hand] = 0 + Len(dest) /\ offset[hand] \in Int /\ 0 \in Int
    BY <1>2, <2>1
  <2>3. PICK e : e = offset[hand]
    OBVIOUS
  <2> QED BY <1>1, <2>1, <2>2, <2>3, OneMore
<1>6. TypeInv'
  <2>1. S!TypeOK' /\ n' \in Nat
    BY <1>1, <1>4, Typed DEF ServerInv
  <2> QED BY <1>1, <1>5, <2>1, Typed DEF TypeInv, TypeOK
<1>7. PlaceInv'
  BY <1>1 DEF TransferInv, PlaceInv, HandIsServed
<1>8. DownInv'
  <2>1. Moved' = Moved + 1 /\ offset'[hand] = Moved + 1 /\ Moved + 1 <= FileLength
    BY <1>1, <1>2, <1>3, Typed DEF Moved
  <2> QED BY <1>1, <1>5, <2>1 DEF TransferInv, DownInv
<1>9. WireInv' /\ FileInv'
  BY <1>1 DEF TransferInv, WireInv, FileInv, InOrder
<1> QED BY <1>4, <1>6, <1>7, <1>8, <1>9 DEF TransferInv

(* Store hands the next unit of its source to the connection.               *)
LEMMA CopyUpStep ==
  ASSUME TransferInv, CopyUp
  PROVE  TransferInv'
<1>1. /\ pc = "copy" /\ direction = "upload" /\ source < FileLength
      /\ wire' = [wire EXCEPT ![hand] = Append(@, source)]
      /\ source' = source + 1 /\ n' = n + 1
      /\ UNCHANGED <<direction, builtIn, restStream, pc, hand, canResume, bytesSoFar, size>>
      /\ UNCHANGED <<dest, remote, crossed, nbClients, phase, offset>>
  BY DEF CopyUp, choice, server
<1>2. /\ hand \in Handlers /\ offset[hand] \in Nat /\ source \in Nat
      /\ wire[hand] \in Seq(Int) /\ InOrder(wire[hand], offset[hand])
      /\ offset[hand] + Len(wire[hand]) = source
  BY <1>1, Typed DEF TransferInv, PlaceInv, WireInv
<1>3. PICK w : w = wire[hand]
  OBVIOUS
<1>4. /\ Append(w, source) \in Seq(Int) /\ Len(Append(w, source)) = Len(w) + 1
      /\ InOrder(Append(w, source), offset[hand])
  <2>1. source = offset[hand] + Len(w) /\ source \in Int /\ offset[hand] \in Int
    BY <1>2, <1>3
  <2> QED BY <1>2, <1>3, <2>1, OneMore
<1>5. /\ wire'[hand] = Append(w, source) /\ wire' \in [Handlers -> Seq(Int)]
      /\ \A g \in Handlers : g # hand => wire'[g] = wire[g]
  BY <1>1, <1>2, <1>3, <1>4, Typed
<1>6. ServerInv'
  BY <1>1 DEF TransferInv, ServerInv, S!TypeOK, S!CountsClients, S!WithinLimit, S!Present, S!Served
<1>7. TypeInv'
  <2>1. S!TypeOK' /\ n' \in Nat /\ source' \in 0..FileLength
    BY <1>1, <1>6, Typed DEF ServerInv
  <2> QED BY <1>1, <1>5, <2>1, Typed DEF TypeInv, TypeOK
<1>8. PlaceInv'
  <2>1. phase[hand] = "welcome"
    BY <1>1 DEF TransferInv, PlaceInv, HandIsServed
  <2> QED BY <1>1, <1>5, <2>1 DEF TransferInv, PlaceInv, HandIsServed
<1>9. DownInv'
  BY <1>1 DEF DownInv
<1>10. WireInv'
  <2>1. Len(w) \in Nat
    BY <1>2, <1>3, LenProperties
  <2>2. source' = Moved'
    BY <1>1, Typed DEF TransferInv, WireInv, Moved
  <2>3. offset'[hand] + Len(wire'[hand]) = source' /\ source' <= FileLength
    BY <1>1, <1>2, <1>3, <1>4, <1>5, <2>1, Typed
  <2>4. \A g \in Handlers : InOrder(wire'[g], offset'[g])
    BY <1>1, <1>4, <1>5 DEF TransferInv, WireInv
  <2>5. \A g \in Handlers : wire'[g] # <<>> => offset'[g] + Len(wire'[g]) <= FileLength
    BY <1>1, <1>5, <2>3 DEF TransferInv, WireInv
  <2> QED BY <1>1, <2>2, <2>3, <2>4, <2>5 DEF WireInv
<1>11. FileInv'
  BY <1>1, <1>5 DEF TransferInv, FileInv
<1> QED BY <1>6, <1>7, <1>8, <1>9, <1>10, <1>11 DEF TransferInv

(* A handler stores the next unit that was sent to it, where it belongs.    *)
LEMMA DeliverStep ==
  ASSUME TransferInv, NEW h \in Handlers, Deliver(h)
  PROVE  TransferInv'
<1>1. /\ wire[h] # <<>> /\ wire' = [wire EXCEPT ![h] = Tail(@)]
      /\ offset' = [offset EXCEPT ![h] = @ + 1] /\ UNCHANGED <<nbClients, phase>>
      /\ remote' = IF builtIn THEN remote ELSE Put(remote, offset[h], Head(wire[h]))
      /\ UNCHANGED <<direction, builtIn, restStream, pc, hand, canResume, bytesSoFar, n, size>>
      /\ UNCHANGED <<source, dest, crossed>>
  BY DEF Deliver, S!Advance, choice, loop
<1>2. direction = "upload"
  BY <1>1, Typed DEF TransferInv, DownInv
<1>3. PICK w \in Seq(Int) : w = wire[h]
  BY Typed
<1>4. PICK at \in Nat : at = offset[h]
  BY Typed
<1>5. InOrder(w, at) /\ w # <<>> /\ at + Len(w) <= FileLength
  BY <1>1, <1>2, <1>3, <1>4 DEF TransferInv, WireInv
<1>6. /\ Head(w) = at /\ Tail(w) \in Seq(Int) /\ Len(Tail(w)) = Len(w) - 1
      /\ Len(w) \in Nat \ {0} /\ InOrder(Tail(w), at + 1)
  BY <1>5, OneTaken
<1>7. /\ wire'[h] = Tail(w) /\ offset'[h] = at + 1 /\ wire' \in [Handlers -> Seq(Int)]
      /\ \A g \in Handlers : g # h => wire'[g] = wire[g] /\ offset'[g] = offset[g]
  BY <1>1, <1>3, <1>4, <1>6, Typed
<1>8. ServerInv'
  <2>1. offset' = [offset EXCEPT ![h] = at + 1] /\ at + 1 \in Nat
    BY <1>1, <1>4
  <2> QED BY <1>1, <2>1, OffsetPreserves DEF TransferInv
<1>9. FileInv /\ Len(remote) \in Nat /\ FileLength \in Nat
  BY Typed, LenProperties DEF TransferInv
<1>10. ~builtIn => /\ remote' \in Seq(Int)
                   /\ Len(remote') = IF at < Len(remote) THEN Len(remote) ELSE at + 1
                   /\ \A i \in 1..Len(remote') :
                        remote'[i] = IF i = at + 1 THEN at
                                     ELSE IF i <= Len(remote) THEN remote[i] ELSE -1
  <2> SUFFICES ASSUME ~builtIn
               PROVE  /\ remote' \in Seq(Int)
                      /\ Len(remote') = IF at < Len(remote) THEN Len(remote) ELSE at + 1
                      /\ \A i \in 1..Len(remote') :
                           remote'[i] = IF i = at + 1 THEN at
                                        ELSE IF i <= Len(remote) THEN remote[i] ELSE -1
    OBVIOUS
  <2>1. remote' = Put(remote, at, at)
    BY <1>1, <1>3, <1>4, <1>6
  <2>2. remote \in Seq(Int) /\ at \in Int
    BY Typed
  <2> QED BY <2>1, <2>2, Stored
<1>11. TypeInv'
  <2>1. S!TypeOK'
    BY <1>8 DEF ServerInv
  <2>2. remote' \in Seq(Int)
    BY <1>1, <1>10, Typed
  <2> QED BY <1>1, <1>7, <2>1, <2>2, Typed DEF TypeInv, TypeOK
<1>12. PlaceInv'
  <2>1. phase[h] # "away"
    BY <1>1 DEF TransferInv, PlaceInv
  <2>2. hand # None /\ pc # "copy" => h # hand
    BY <1>1 DEF TransferInv, PlaceInv
  <2> QED BY <1>1, <1>7, <2>1, <2>2, Typed DEF TransferInv, PlaceInv, HandIsServed
<1>13. DownInv'
  BY <1>1, <1>2 DEF DownInv
<1>14. WireInv'
  <2>1. \A g \in Handlers : InOrder(wire'[g], offset'[g])
    BY <1>2, <1>6, <1>7 DEF TransferInv, WireInv
  <2>2. \A g \in Handlers : wire'[g] # <<>> => offset'[g] + Len(wire'[g]) <= FileLength
    BY <1>2, <1>5, <1>6, <1>7, <1>9 DEF TransferInv, WireInv
  <2>3. pc = "copy" => offset'[hand] + Len(wire'[hand]) = source
    <3>1. pc = "copy" => hand \in Handlers /\ offset[hand] + Len(wire[hand]) = source
      BY <1>2, Typed DEF TransferInv, PlaceInv, WireInv
    <3>2. CASE pc = "copy" /\ hand = h
      <4>1. at + Len(w) = source
        BY <1>3, <1>4, <3>1, <3>2
      <4>2. offset'[hand] = at + 1 /\ Len(wire'[hand]) = Len(w) - 1
        BY <1>6, <1>7, <3>2
      <4>3. \A a, b \in Int : (a + 1) + (b - 1) = a + b
        OBVIOUS
      <4>4. (at + 1) + (Len(w) - 1) = at + Len(w)
        BY <1>4, <1>6, <4>3
      <4> QED BY <4>1, <4>2, <4>4
    <3>3. CASE pc = "copy" /\ hand # h
      BY <1>7, <3>1, <3>3
    <3> QED BY <3>2, <3>3
  <2> QED BY <1>1, <1>2, <2>1, <2>2, <2>3 DEF TransferInv, WireInv, Moved
<1>15. FileInv'
  <2>1. CASE builtIn
    BY <1>1, <1>9, <2>1 DEF FileInv
  <2>2. CASE ~builtIn
    <3>1. /\ Len(remote') \in Nat /\ Len(remote') >= Len(remote) /\ Len(remote') <= FileLength
          /\ Len(remote') >= at + 1
      BY <1>4, <1>5, <1>6, <1>9, <1>10, <2>2 DEF FileInv
    <3>2. \A i \in 1..Len(remote) : i \in Nat
      OBVIOUS
    <3>3. \A i \in 1..Len(remote') : remote'[i] \in {i - 1, -1}
      <4> SUFFICES ASSUME NEW i \in 1..Len(remote') PROVE remote'[i] \in {i - 1, -1}
        OBVIOUS
      <4>1. CASE i = at + 1
        BY <1>4, <1>10, <2>2, <4>1
      <4>2. CASE i # at + 1 /\ i <= Len(remote)
        BY <1>9, <1>10, <2>2, <4>2 DEF FileInv
      <4>3. CASE i # at + 1 /\ i > Len(remote)
        BY <1>9, <1>10, <2>2, <3>1, <4>3
      <4> QED BY <1>9, <3>1, <4>1, <4>2, <4>3
    <3>4. ASSUME ~crossed
          PROVE  /\ InOrder(remote', 0)
                 /\ \A g \in Handlers : wire'[g] # <<>> => offset'[g] <= Len(remote')
                 /\ pc = "transfer" => bytesSoFar <= Len(remote')
                 /\ pc = "copy" => offset'[hand] <= Len(remote')
      <4>1. /\ InOrder(remote, 0) /\ at <= Len(remote)
            /\ \A g \in Handlers : wire[g] # <<>> => offset[g] <= Len(remote)
            /\ pc = "transfer" => bytesSoFar <= Len(remote)
            /\ pc = "copy" => offset[hand] <= Len(remote)
        BY <1>1, <1>2, <1>4, <1>9, <2>2, <3>4 DEF FileInv
      <4>2. InOrder(remote', 0)
        <5> SUFFICES ASSUME NEW i \in 1..Len(remote') PROVE remote'[i] = 0 + i - 1
          BY DEF InOrder
        <5>1. i = at + 1 \/ i \in 1..Len(remote)
          BY <1>9, <1>10, <2>2, <3>1, <4>1
        <5> QED BY <1>4, <1>9, <1>10, <2>2, <4>1, <5>1 DEF InOrder
      <4>3. \A g \in Handlers : wire'[g] # <<>> => offset'[g] <= Len(remote')
        <5> SUFFICES ASSUME NEW g \in Handlers, wire'[g] # <<>> PROVE offset'[g] <= Len(remote')
          OBVIOUS
        <5>1. CASE g = h
          BY <1>7, <3>1, <5>1
        <5>2. CASE g # h
          <6>1. offset'[g] = offset[g] /\ wire[g] # <<>> /\ offset[g] \in Nat
            BY <1>7, <5>2, Typed
          <6>2. offset[g] <= Len(remote)
            BY <4>1, <6>1
          <6> QED BY <1>9, <3>1, <6>1, <6>2
        <5> QED BY <5>1, <5>2
      <4>4. pc = "transfer" => bytesSoFar <= Len(remote')
        BY <1>9, <3>1, <4>1, Typed
      <4>5. pc = "copy" => offset'[hand] <= Len(remote')
        <5>1. pc = "copy" => hand \in Handlers
          BY Typed DEF TransferInv, PlaceInv
        <5>2. CASE pc = "copy" /\ hand = h
          BY <1>7, <3>1, <5>2
        <5>3. CASE pc = "copy" /\ hand # h
          <6>1. offset'[hand] = offset[hand] /\ offset[hand] \in Nat
            BY <1>7, <5>1, <5>3, Typed
          <6>2. offset[hand] <= Len(remote)
            BY <4>1, <5>3
          <6> QED BY <1>9, <3>1, <6>1, <6>2
        <5> QED BY <5>2, <5>3
      <4> QED BY <4>2, <4>3, <4>4, <4>5
    <3>5. pc = "ok" /\ size # -1 => Len(remote') = FileLength
      BY <1>2, <1>9, <2>2, <3>1 DEF FileInv
    <3> QED BY <1>1, <1>2, <2>2, <3>1, <3>3, <3>4, <3>5 DEF FileInv
  <2> QED BY <2>1, <2>2
<1> QED BY <1>8, <1>11, <1>12, <1>13, <1>14, <1>15 DEF TransferInv

(* A transfer ends well, or is refused: nothing more comes of it.           *)
LEMMA EndStep ==
  ASSUME TransferInv, CopyEnds \/ CopyRefused
  PROVE  TransferInv'
<1>1. /\ pc = "copy" /\ hand \in Handlers /\ hand # None
      /\ wire' = [wire EXCEPT ![hand] = <<>>] /\ bytesSoFar' = Moved /\ n' = 0
      /\ UNCHANGED <<direction, builtIn, restStream, hand, canResume, size, nbClients, phase>>
      /\ UNCHANGED <<offset, source, dest, remote, crossed>>
      /\ pc' \in {"ok", "verify", "failed", "transfer", "resume"}
  BY Typed DEF CopyEnds, CopyRefused, TransferFails, AddAll, Go, choice, server, Moved,
     TransferInv, PlaceInv
<1>2. /\ direction = "download" => /\ pc' \in {"ok", "failed", "transfer"}
                                   /\ pc' = "ok" => /\ size \in {-1, Moved}
                                                    /\ builtIn => S!Readable(hand, 1) = 0
      /\ direction = "upload" => /\ pc' \in {"verify", "failed", "resume"}
                                 /\ pc' = "verify" => source = FileLength
  <2>1. CASE CopyEnds
    BY <2>1, Typed DEF CopyEnds, EndOfData, Short, Go, Moved
  <2>2. CASE CopyRefused
    BY <2>2, Typed DEF CopyRefused, TransferFails, Go
  <2> QED BY <2>1, <2>2
<1>3. Moved \in Nat /\ Moved <= FileLength /\ Moved' = Moved /\ bytesSoFar' \in Nat
  BY <1>1, Typed DEF Moved
<1>4. /\ wire'[hand] = <<>> /\ wire' \in [Handlers -> Seq(Int)]
      /\ \A g \in Handlers : g # hand => wire'[g] = wire[g]
      /\ Len(<<>>) = 0
  BY <1>1, Typed
<1>5. ServerInv'
  BY <1>1 DEF TransferInv, ServerInv, S!TypeOK, S!CountsClients, S!WithinLimit, S!Present, S!Served
<1>6. TypeInv'
  <2>1. S!TypeOK' /\ n' \in Nat
    BY <1>1, <1>5 DEF ServerInv
  <2> QED BY <1>1, <1>3, <1>4, <2>1, Typed DEF TypeInv, TypeOK
<1>7. PlaceInv'
  BY <1>1, <1>2, <1>4 DEF TransferInv, PlaceInv, HandIsServed
<1>8. DownInv'
  <2> SUFFICES ASSUME direction = "download" PROVE DownInv'
    BY <1>1 DEF DownInv
  <2>1. DownInv /\ offset[hand] = Moved /\ size \in {-1, FileLength}
    BY <1>1 DEF TransferInv, DownInv
  <2>2. pc' = "ok" /\ (size # -1 \/ builtIn) => Moved = FileLength
    <3>1. CASE pc' = "ok" /\ builtIn
      <4>1. ~(offset[hand] < FileLength)
        BY <1>1, <1>2, <1>3, <2>1, <3>1, ReadableOne
      <4> QED BY <1>3, <2>1, <4>1, Typed
    <3>2. CASE pc' = "ok" /\ size # -1
      BY <1>2, <2>1, <3>2
    <3> QED BY <3>1, <3>2
  <2> QED BY <1>1, <1>2, <1>3, <1>4, <2>1, <2>2 DEF DownInv
<1>9. WireInv'
  <2> SUFFICES ASSUME direction = "upload" PROVE WireInv'
    BY <1>1 DEF WireInv
  <2>1. WireInv /\ source = Moved
    BY DEF TransferInv, WireInv
  <2>2. \A g \in Handlers : InOrder(wire'[g], offset'[g])
    BY <1>1, <1>4, <2>1 DEF WireInv, InOrder
  <2> QED BY <1>1, <1>2, <1>3, <1>4, <2>1, <2>2 DEF WireInv
<1>10. FileInv'
  BY <1>1, <1>2, <1>4 DEF TransferInv, FileInv
<1> QED BY <1>5, <1>6, <1>7, <1>8, <1>9, <1>10 DEF TransferInv

(* Every step keeps the invariant.                                          *)
LEMMA TransferStep == TransferInv /\ [Next]_vars => TransferInv'
<1> SUFFICES ASSUME TransferInv, [Next]_vars PROVE TransferInv'
  OBVIOUS
<1>1. CASE UNCHANGED vars
  <2> USE <1>1 DEF vars, choice, loop, data, server
  <2>1. TypeInv'
    BY DEF TransferInv, TypeInv, TypeOK, S!TypeOK
  <2>2. ServerInv'
    BY DEF TransferInv, ServerInv, S!TypeOK, S!CountsClients, S!WithinLimit, S!Present, S!Served
  <2>3. PlaceInv' /\ DownInv' /\ WireInv' /\ FileInv'
    BY DEF TransferInv, PlaceInv, HandIsServed, DownInv, WireInv, FileInv, InOrder, Moved
  <2> QED BY <2>1, <2>2, <2>3 DEF TransferInv
<1>2. CASE Client
  <2>1. CASE Connect
    <3>1. PICK h : h \in Handlers
      BY <2>1, Typed DEF Connect
    <3> QED BY <2>1, <3>1, ArrivalStep
  <2> QED BY <1>2, <2>1, LoopStep, OpenStep, CopyDownStep, CopyUpStep, EndStep DEF Client
<1>3. CASE Environment
  BY <1>3, LeaveStep, ArrivalStep, DeliverStep DEF Environment
<1> QED BY <1>1, <1>2, <1>3 DEF Next

LEMMA TransferInvariant == Spec => []TransferInv
BY TransferInit, TransferStep, PTL DEF Spec
-----------------------------------------------------------------------------
(* Theorems *)

(* Every variable of the transfer and of the server keeps its type.         *)
THEOREM TypeCorrect == Spec => []TypeOK
<1>1. TransferInv => TypeOK
  BY DEF TransferInv, TypeInv
<1> QED BY <1>1, TransferInvariant, PTL

(* The built-in server's count is that of the clients there are, with any   *)
(* number of them coming, being refused, vanishing and coming back, ...     *)
THEOREM CountIsExact == Spec => []CountsClients
<1>1. TransferInv => CountsClients
  BY DEF TransferInv, ServerInv, CountsClients
<1> QED BY <1>1, TransferInvariant, PTL

(* ... and it never serves more than it allows.                             *)
THEOREM LimitIsKept == Spec => []WithinLimit
<1>1. TransferInv => WithinLimit
  BY DEF TransferInv, ServerInv, WithinLimit
<1> QED BY <1>1, TransferInvariant, PTL

(* Retrieve writes the bytes of the file from the first on, each once and   *)
(* in order, over any number of broken connections, ...                     *)
THEOREM RetrieveInOrder == Spec => []DestIsPrefix
<1>1. TransferInv => DestIsPrefix
  <2> SUFFICES ASSUME TransferInv, direction = "download"
               PROVE  dest = Positions(Moved) /\ Moved <= FileLength
    BY DEF DestIsPrefix
  <2>1. Len(dest) = Moved /\ Moved <= FileLength /\ InOrder(dest, 0) /\ dest \in Seq(Int)
    BY Typed DEF TransferInv, DownInv
  <2> QED BY <2>1, AllInOrder
<1> QED BY <1>1, TransferInvariant, PTL

(* ... and reports no error only when it has written all of them.           *)
THEOREM RetrieveComplete == Spec => []RetrieveIsComplete
<1>1. TransferInv => RetrieveIsComplete
  <2> SUFFICES ASSUME TransferInv, direction = "download", pc = "ok", size # -1 \/ builtIn
               PROVE  dest = Positions(FileLength)
    BY DEF RetrieveIsComplete
  <2>1. Len(dest) = Moved /\ Moved = FileLength /\ InOrder(dest, 0) /\ dest \in Seq(Int)
    BY Typed DEF TransferInv, DownInv
  <2> QED BY <2>1, AllInOrder
<1> QED BY <1>1, TransferInvariant, PTL

(* Store puts each byte where it belongs, and without a gap, although what  *)
(* it sent over a broken connection arrives when it has already resumed.    *)
THEOREM StoreInPlace == Spec => []StoredInPlace
<1>1. TransferInv => StoredInPlace
  <2> SUFFICES ASSUME TransferInv PROVE StoredInPlace
    OBVIOUS
  <2>1. remote \in Seq(Int) /\ DOMAIN remote = 1..Len(remote) /\ FileInv
    BY Typed, LenProperties DEF TransferInv
  <2>2. \A i \in DOMAIN remote : remote[i] \in {i - 1, -1}
    BY <2>1 DEF FileInv
  <2>3. ~crossed => InOrder(remote, 0)
    <3>1. remote = <<>> => InOrder(remote, 0)
      BY EmptySeq DEF InOrder
    <3> QED BY <2>1, <3>1, Typed DEF FileInv
  <2>4. ~crossed => remote = Positions(Len(remote))
    BY <2>1, <2>3, AllInOrder
  <2> QED BY <2>2, <2>4 DEF StoredInPlace
<1> QED BY <1>1, TransferInvariant, PTL

(* Store reports no error only when all of the source is on the server, as  *)
(* long as no file is emptied under bytes that are still arriving.          *)
THEOREM StoreComplete == Spec => []StoreIsComplete
<1>1. TransferInv => StoreIsComplete
  <2> SUFFICES ASSUME TransferInv, direction = "upload", pc = "ok", ~builtIn, size # -1, ~crossed
               PROVE  remote = Positions(FileLength)
    BY DEF StoreIsComplete
  <2>1. Len(remote) = FileLength /\ InOrder(remote, 0) /\ remote \in Seq(Int)
    BY Typed DEF TransferInv, FileInv
  <2> QED BY <2>1, AllInOrder
<1> QED BY <1>1, TransferInvariant, PTL
=============================================================================
