-------------------------- MODULE FtpSessionProofs --------------------------
(* Proofs about FtpSession, for every number of workers, pieces and hosts:  *)
(* the session drives the pool only as ConnPool allows, so the invariants   *)
(* proved for the pool carry over, and the session's own places decide who  *)
(* is inside a method of the client.                                        *)
EXTENDS FtpSession, ConnPoolHandsProofs

-----------------------------------------------------------------------------
(* The session as a user of the pool *)

(* Facts about the constants.                                               *)
LEMMA SessionConstants ==
  /\ IsFiniteSet(Workers) /\ Main \in Workers /\ TransferWorkers \subseteq Workers
  /\ \A w \in TransferWorkers : w # Main
  /\ MaxOpen >= ConnectionsPerHost /\ MaxOpen \in Nat /\ ConnectionsPerHost \in Nat \ {0}
<1>1. MaxParallels \in Nat \ {0} /\ Workers = {Main} \cup TransferWorkers
  BY SessionAssumption
<1>2. IsFiniteSet(TransferWorkers) /\ \A w \in TransferWorkers : w # Main
  BY <1>1, FS_Interval DEF TransferWorkers, Main
<1>3. IsFiniteSet(Workers)
  BY <1>1, <1>2, FS_AddElement
<1>4. MaxOpen >= ConnectionsPerHost /\ MaxOpen \in Nat /\ ConnectionsPerHost \in Nat \ {0}
  <2>1. Len(Hosts) \in Nat \ {0} /\ ConnectionsPerHost \in Nat \ {0}
    BY Constants, PoolAssumption
  <2>2. ASSUME NEW m \in Nat \ {0}, NEW n \in Nat \ {0} PROVE m * n >= n
    BY <2>2
  <2> QED BY <2>1, <2>2, Constants DEF MaxOpen
<1> QED BY <1>1, <1>2, <1>3, <1>4

(* Every step of the session is a step of one goroutine in the pool, or     *)
(* leaves the pool alone.                                                   *)
LEMMA SessionStep == [SessionNext]_sessionVars => [Next]_vars
<1> SUFFICES ASSUME [SessionNext]_sessionVars PROVE [Next]_vars
  OBVIOUS
<1>1. CASE UNCHANGED sessionVars \/ TimeUp
  BY <1>1 DEF sessionVars, TimeUp, pool
<1>2. CASE MainStep
  <2>1. CASE Dial \/ Sized \/ StartWorkers \/ End
    BY <2>1 DEF Dial, Sized, StartWorkers, End, pool
  <2>2. CASE Size \/ Sizing \/ Close \/ Shutting
    BY <2>2, SessionConstants DEF Size, Sizing, Close, Shutting, InPool, Next, Start
  <2> QED BY <1>2, <2>1, <2>2 DEF MainStep
<1>3. ASSUME NEW w \in TransferWorkers, WorkerStep(w) PROVE [Next]_vars
  BY <1>3, SessionConstants DEF WorkerStep, NextPiece, Transfer, WorkerDone, InPool, pool,
     Next, Start
<1> QED BY <1>1, <1>2, <1>3 DEF SessionNext

(* What the pool keeps, whoever uses it.                                    *)
PoolInv == LeaseInv /\ CloseInv /\ RawInv /\ UnopenedInv

(* It holds of the pool that DialConfig makes, ...                          *)
LEMMA PoolInit == Init => PoolInv
BY LeaseInit DEF Init, PoolInv, CloseInv, CloseReturned, RawInv, UnopenedInv, RawInHand

(* ... and every step of any user keeps it.                                 *)
LEMMA PoolKeeps == PoolInv /\ [Next]_vars => PoolInv'
<1> SUFFICES ASSUME PoolInv, [Next]_vars PROVE PoolInv'
  OBVIOUS
<1>1. LeaseInv'
  BY LeaseStep DEF PoolInv
<1>2. CASE UNCHANGED vars
  BY <1>1, <1>2 DEF vars, PoolInv, CloseInv, CloseReturned, Closing, Reachable, RawInv,
     UnopenedInv, RawInHand, EmptyHanded
<1>3. CASE Next
  BY <1>1, <1>3, CloseStep, RawStep, UnopenedStep DEF Next, PoolInv
<1> QED BY <1>2, <1>3

(* A goroutine inside a method moves alone, and closes nothing; no raw      *)
(* connection is ever opened.                                               *)
LEMMA StepOfOne ==
  ASSUME TypeOK, NEW g \in Workers, Step(g)
  PROVE  Alone(g) /\ pc[g] # "idle" /\ closed' = closed /\ rawConnIdx' = rawConnIdx
<1>1. Alone(g)
  BY StepAlone
<1>2. CASE GetIdleConn(g)
  BY <1>1, <1>2 DEF GetIdleConn, Receive, PollEmpty, Reserve, ReservePanic, Block, Uncount,
     Remove, Shut, regVars
<1>3. CASE OpenConn(g)
  BY <1>1, <1>3 DEF OpenConn, DialOk, DialFail, LoginOk, LoginFail, Register,
     RegisterClosed, OpenFailed, regVars
<1>4. CASE Operate(g) \/ Return(g) \/ CloseOne(g) \/ CloseEnd(g)
  BY <1>1, <1>4 DEF Operate, Return, CloseOne, CloseEnd, regVars
<1> QED BY <1>2, <1>3, <1>4 DEF Step
-----------------------------------------------------------------------------
(* The places of the session *)

(* Who may be inside a method of the client, and when the client is closed, *)
(* follow from where ftpTransfer is.                                        *)
PhaseInv ==
  /\ running \subseteq 1..parallels
  /\ running # {} => mainPc = "wait"
  /\ \A w \in TransferWorkers : pc[w] # "idle" => w \in running
  /\ pc[Main] # "idle" => mainPc \in {"sizing", "closing"}
  /\ mainPc = "dial" => sockets = {}
  /\ closed => mainPc \in {"closing", "ended"}
  /\ mainPc = "closing" => closed
  /\ mainPc = "ended" => closed \/ sockets = {}
  /\ rawConnIdx = 0

SessionInv ==
  /\ SessionTypeOK /\ PoolInv /\ PhaseInv
  /\ parallels <= ConnectionsPerHost => RoomInv

(* The session's invariant holds at the start of ftpTransfer, ...           *)
LEMMA SessionInitially == SessionInit => SessionInv
<1> SUFFICES ASSUME SessionInit PROVE SessionInv
  OBVIOUS
<1>1. Init /\ PoolInv /\ TypeOK
  BY PoolInit DEF SessionInit, PoolInv, LeaseInv
<1>2. SessionTypeOK
  <2>1. openMayFail \in BOOLEAN /\ sizeOk \in BOOLEAN /\ timed \in BOOLEAN
    BY DEF SessionInit
  <2>2. left \in 0..Pieces
    BY SessionAssumption DEF SessionInit
  <2>3. /\ method \in Methods /\ parallels \in 1..MaxParallels
        /\ mainPc = "dial" /\ running = {}
    BY DEF SessionInit
  <2> QED BY <1>1, <2>1, <2>2, <2>3 DEF SessionTypeOK
<1>3. PhaseInv
  BY <1>1, SessionConstants DEF SessionInit, Init, PhaseInv
<1>4. RoomInv
  <2>1. Counted = {} /\ Reserving = {}
    BY <1>1 DEF Init, Counted, InHand, Counting, Reserving, Range
  <2> QED BY <1>1, <2>1, FS_EmptySet, Constants DEF Init, RoomInv, NobodyWaits
<1> QED BY <1>1, <1>2, <1>3, <1>4 DEF SessionInv

(* The session's own variables keep their types.                            *)
LEMMA SessionTypes ==
  ASSUME SessionTypeOK, [SessionNext]_sessionVars
  PROVE  SessionTypeOK'
<1>1. TypeOK'
  BY TypeStep, SessionStep DEF SessionTypeOK
<1> USE DEF SessionTypeOK, choice, work
<1>2. CASE UNCHANGED sessionVars \/ TimeUp
  BY <1>1, <1>2, SessionAssumption DEF sessionVars, TimeUp
<1>3. CASE MainStep
  <2>1. CASE Dial \/ Size \/ Sizing \/ Sized \/ Close \/ Shutting \/ End
    BY <1>1, <2>1 DEF Dial, Size, Sizing, Sized, Close, Shutting, End
  <2>2. CASE StartWorkers
    <3>1. 1..parallels \subseteq TransferWorkers
      BY SessionAssumption DEF TransferWorkers
    <3> QED BY <1>1, <2>2, <3>1 DEF StartWorkers
  <2> QED BY <1>3, <2>1, <2>2 DEF MainStep
<1>4. ASSUME NEW w \in TransferWorkers, WorkerStep(w) PROVE SessionTypeOK'
  <2>1. CASE NextPiece(w)
    BY <1>1, <2>1, SessionAssumption DEF NextPiece
  <2>2. CASE Transfer(w)
    <3>1. timed' \in BOOLEAN
      BY <2>2 DEF Transfer
    <3> QED BY <1>1, <2>2, <3>1 DEF Transfer
  <2>3. CASE WorkerDone(w)
    BY <1>1, <2>3 DEF WorkerDone
  <2> QED BY <1>4, <2>1, <2>2, <2>3 DEF WorkerStep
<1> QED BY <1>2, <1>3, <1>4 DEF SessionNext

(* Starting a method moves one goroutine, too.                              *)
LEMMA CallOfOne ==
  ASSUME TypeOK, NEW g \in Workers, Call(g) \/ CloseBegin(g)
  PROVE  /\ Alone(g) /\ rawConnIdx' = rawConnIdx /\ sockets' = sockets
         /\ Call(g) => closed' = closed
         /\ CloseBegin(g) => closed'
<1>1. Alone(g)
  BY StepAlone DEF Start
<1> QED BY <1>1 DEF Call, CloseBegin, regVars

(* Main is idle except while it asks for the size and while it closes;      *)
(* workers are idle once they are done.                                     *)
LEMMA PhaseKept ==
  ASSUME SessionInv, [SessionNext]_sessionVars
  PROVE  PhaseInv'
<1>1. TypeOK /\ SessionTypeOK /\ PhaseInv
  BY DEF SessionInv, SessionTypeOK
<1> USE SessionConstants DEF PhaseInv, choice, work
<1>2. CASE UNCHANGED sessionVars \/ TimeUp
  <2>1. UNCHANGED <<parallels, mainPc, running, rawConnIdx, pc, sockets, closed>>
    BY <1>2 DEF sessionVars, TimeUp, pool, vars
  <2> QED BY <1>1, <2>1
<1>3. CASE Dial \/ Sized \/ StartWorkers \/ End
  <2>1. UNCHANGED <<parallels, rawConnIdx, pc, sockets, closed>>
    BY <1>3 DEF Dial, Sized, StartWorkers, End, pool, vars
  <2>2. CASE Dial \/ Sized \/ End
    BY <1>1, <2>1, <2>2 DEF Dial, Sized, End, Back
  <2>3. CASE StartWorkers
    BY <1>1, <2>1, <2>3 DEF StartWorkers
  <2> QED BY <1>3, <2>2, <2>3
<1>4. CASE Size \/ Close
  <2>1. Alone(Main) /\ rawConnIdx' = rawConnIdx
    BY <1>1, <1>4, CallOfOne DEF Size, Close
  <2> QED BY <1>1, <1>4, <2>1, CallOfOne DEF Size, Close, Waited, Alone
<1>5. CASE Sizing \/ Shutting
  <2>1. Alone(Main) /\ rawConnIdx' = rawConnIdx /\ closed' = closed
    BY <1>1, <1>5, StepOfOne DEF Sizing, Shutting, InPool
  <2> QED BY <1>1, <1>5, <2>1 DEF Sizing, Shutting, Alone
<1>6. ASSUME NEW w \in TransferWorkers, NextPiece(w) PROVE PhaseInv'
  BY <1>1, <1>6, CallOfOne DEF NextPiece, Alone
<1>7. ASSUME NEW w \in TransferWorkers, Transfer(w) PROVE PhaseInv'
  BY <1>1, <1>7, StepOfOne DEF Transfer, InPool, Alone
<1>8. ASSUME NEW w \in TransferWorkers, WorkerDone(w) PROVE PhaseInv'
  BY <1>1, <1>8 DEF WorkerDone, Back, pool, vars
<1> QED BY <1>2, <1>3, <1>4, <1>5, <1>6, <1>7, <1>8 DEF SessionNext, MainStep, WorkerStep

(* No more goroutines are inside methods than the pool has connections, as  *)
(* long as there are no more workers: Main is never inside with a worker.   *)
LEMMA FewInside ==
  ASSUME SessionTypeOK, PhaseInv, parallels <= ConnectionsPerHost
  PROVE  FewEnough
<1> DEFINE B == {w \in Workers : pc[w] # "idle"}
<1>1. parallels \in Nat \ {0}
  BY SessionAssumption DEF SessionTypeOK
<1>2. B \subseteq 1..parallels \/ B \subseteq {Main}
  BY SessionAssumption DEF PhaseInv
<1>3. /\ IsFiniteSet(1..parallels) /\ Cardinality(1..parallels) = parallels
      /\ IsFiniteSet({Main}) /\ Cardinality({Main}) = 1
  <2>1. IsFiniteSet(1..parallels) /\ Cardinality(1..parallels) = parallels
    BY <1>1, FS_Interval
  <2>2. IsFiniteSet({Main}) /\ Cardinality({Main}) = 1
    BY FS_Singleton
  <2> QED BY <2>1, <2>2
<1> HIDE DEF B
<1>4. Cardinality(B) <= parallels /\ Cardinality(B) \in Nat
  BY <1>1, <1>2, <1>3, FS_Subset, FS_CardinalityType
<1>5. Cardinality(B) <= MaxOpen
  BY <1>1, <1>4, SessionConstants
<1> QED BY <1>5 DEF FewEnough, B

(* ... every step keeps it, ...                                             *)
LEMMA SessionKeeps == SessionInv /\ [SessionNext]_sessionVars => SessionInv'
<1> SUFFICES ASSUME SessionInv, [SessionNext]_sessionVars PROVE SessionInv'
  OBVIOUS
<1>1. SessionTypeOK' /\ PhaseInv'
  BY SessionTypes, PhaseKept DEF SessionInv
<1>2. [Next]_vars /\ PoolInv'
  BY SessionStep, PoolKeeps DEF SessionInv
<1>3. parallels' = parallels
  BY DEF SessionNext, MainStep, WorkerStep, sessionVars, choice, Dial, Size, Sizing, Sized,
     StartWorkers, Close, Shutting, End, NextPiece, Transfer, WorkerDone, TimeUp
<1>4. ASSUME parallels <= ConnectionsPerHost PROVE RoomInv'
  <2>1. FewEnough /\ RoomInv /\ LeaseInv
    BY <1>4, FewInside DEF SessionInv, PoolInv
  <2>2. CASE UNCHANGED vars
    BY <2>1, <2>2 DEF vars, RoomInv, NobodyWaits, Counted, InHand, Counting, Reserving
  <2>3. CASE Next
    BY <2>1, <2>3, RoomStep, SessionConstants DEF Next
  <2> QED BY <1>2, <2>2, <2>3
<1> QED BY <1>1, <1>2, <1>3, <1>4 DEF SessionInv

(* ... so it always holds.                                                  *)
LEMMA SessionInvariant == SessionSpec => []SessionInv
BY SessionInitially, SessionKeeps, PTL DEF SessionSpec
-----------------------------------------------------------------------------
(* What the session promises *)

(* Every variable of the session keeps its type.                            *)
THEOREM SessionTypeCorrect == SessionSpec => []SessionTypeOK
<1>1. SessionInv => SessionTypeOK
  BY DEF SessionInv
<1> QED BY <1>1, SessionInvariant, PTL

(* Unless the URI asks for more workers than the flag, no goroutine of the  *)
(* session ever blocks for a connection.                                    *)
THEOREM NobodyBlocks == SessionSpec => []NeverWaits
<1>1. SessionInv => NeverWaits
  BY DEF SessionInv, RoomInv, NeverWaits
<1> QED BY <1>1, SessionInvariant, PTL

(* ftpTransfer closes the client after the last method of every worker.     *)
THEOREM ClosedAfterUse == SessionSpec => []ClosedWhenUnused
<1>1. SessionInv => ClosedWhenUnused
  BY DEF SessionInv, PhaseInv, ClosedWhenUnused
<1> QED BY <1>1, SessionInvariant, PTL

(* When the session has ended no worker is left and no socket is open: what *)
(* Close leaves open is still in somebody's hands, and nobody is inside.    *)
THEOREM NothingLeft == SessionSpec => []EndedLeavesNothing
<1>1. SessionInv => EndedLeavesNothing
  <2> SUFFICES ASSUME SessionInv, mainPc = "ended" PROVE running = {} /\ sockets = {}
    BY DEF EndedLeavesNothing
  <2>1. running = {} /\ \A w \in Workers : pc[w] = "idle"
    BY SessionAssumption DEF SessionInv, PhaseInv
  <2>2. ASSUME closed, NEW c \in sockets PROVE FALSE
    <3>1. Pooled(c)
      BY DEF SessionInv, SessionTypeOK, TypeOK, PConn, PhaseInv, PoolInv, UnopenedInv, Pooled
    <3>2. Closing(c) \/ Reachable(c)
      BY <3>1 DEF SessionInv, PoolInv, CloseInv
    <3>3. CloseReturned /\ ~Closing(c)
      BY <2>1, <2>2 DEF CloseReturned, Closing
    <3> QED BY <2>2, <3>2, <3>3 DEF SessionInv, PoolInv, CloseInv, Reachable
  <2> QED BY <2>1, <2>2 DEF SessionInv, PhaseInv
<1> QED BY <1>1, SessionInvariant, PTL

(* Nothing but ConnPool's own steps happens to the pool of a session: all   *)
(* that is proved of the pool's safety holds of it.                         *)
THEOREM SessionUsesPool == SessionSpec => Init /\ [][Next]_vars
<1>1. SessionInit => Init
  BY DEF SessionInit
<1> QED BY <1>1, SessionStep, PTL DEF SessionSpec

(* So the connections of a session are leased as LeasePool promises, when   *)
(* the server's name resolves to distinct addresses.                        *)
THEOREM SessionLeases ==
  ASSUME DistinctHosts
  PROVE  SessionSpec => ImplementsLeasePool
<1>1. Init => Lease!Init
  <2> SUFFICES ASSUME Init PROVE Lease!Init
    OBVIOUS
  <2>1. Counted = {}
    BY DEF Init, Counted, InHand, Counting, Range
  <2> QED BY <2>1 DEF Init, Lease!Init, leases
<1>2. LeaseInv /\ [Next]_vars => [Lease!Next]_<<leases, connIdx>>
  BY LeaseSimulation
<1>3. SessionInv => LeaseInv
  BY DEF SessionInv, PoolInv
<1> QED BY <1>1, <1>2, <1>3, SessionInvariant, SessionUsesPool, PTL
        DEF ImplementsLeasePool, Lease!Spec
=============================================================================
