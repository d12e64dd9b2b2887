------------------------------ MODULE ConnPool ------------------------------
(***************************************************************************)
(* The connection pool of goftp.Client (goftp/client.go): goroutines that  *)
(* share one Client take a control connection with getIdleConn, run one    *)
(* operation on it, and give it back with returnConn; openConn dials,      *)
(* logs in and registers new connections, OpenRawConn opens connections    *)
(* outside the pool, and Close shuts what is registered.                   *)
(*                                                                         *)
(* A step is what one goroutine does between two points at which another   *)
(* can interfere: a critical section under c.mu, a channel operation, or   *)
(* network I/O.                                                            *)
(*                                                                         *)
(* Definitions named after another one with a suffix are seeded bugs, used *)
(* to see that the properties below notice them.                           *)
(***************************************************************************)
EXTENDS Integers, Sequences, FiniteSets, Functions

CONSTANTS
  Workers,             \* goroutines that share the Client
  Hosts,               \* c.hosts: the sequence of resolved addresses
  ConnectionsPerHost,  \* config.ConnectionsPerHost
  Closers,             \* the goroutines that may call Client.Close
  RawUsers,            \* the goroutines that may call OpenRawConn
  OpenMayFail,         \* whether dialling, login or FEAT can fail
  MaxCalls             \* bound: Client methods each goroutine calls

HostSet == {Hosts[i] : i \in DOMAIN Hosts}

ASSUME PoolAssumption ==
  /\ Hosts \in Seq(HostSet) /\ Len(Hosts) > 0
  /\ ConnectionsPerHost \in Nat \ {0}     \* newClient replaces <= 0 by 5
  /\ Closers \subseteq Workers /\ RawUsers \subseteq Workers
  /\ OpenMayFail \in BOOLEAN
  /\ MaxCalls \in Nat

VARIABLES
  connIdx,          \* c.connIdx: index of the last pooled connection
  rawConnIdx,       \* c.rawConnIdx
  numConnsPerHost,  \* c.numConnsPerHost
  allCons,          \* c.allCons: the registered connections
  freeConnCh,       \* c.freeConnCh: the buffered channel of idle connections
  closed,           \* c.closed
  toClose,          \* the local slice conns of the running Close
  broken,           \* the connections whose pconn.broken is set
  sockets,          \* the connections whose control socket is open
  pc,               \* where each goroutine is
  conn,             \* the pconn each goroutine has in hand
  resume,           \* the loop of getIdleConn a goroutine goes back to
  calls             \* methods called so far, bounded by MaxCalls

poolVars == <<connIdx, numConnsPerHost, freeConnCh>>
regVars  == <<allCons, closed, toClose>>
vars == <<connIdx, rawConnIdx, numConnsPerHost, allCons, freeConnCh, closed,
          toClose, broken, sockets, pc, conn, resume, calls>>
-----------------------------------------------------------------------------
(* A *persistentConn is its immutable identity; broken and the state of its *)
(* socket are kept in the sets above. Pooled indices are positive, raw ones *)
(* negative.                                                                *)
PConn == [idx : Int, host : HostSet]
NoConn == [idx |-> 0, host |-> Hosts[1]]
Pooled(c) == c.idx > 0

PCs == {"idle", "poll", "reserve", "wait", "uncount", "remove", "shut",
        "dial", "login", "register", "openFailed", "using", "returning", "raw",
        "closing", "panicked"}

(* make(chan *persistentConn, len(hosts)*config.ConnectionsPerHost)         *)
CapacityOfOneHost == ConnectionsPerHost
Capacity == Len(Hosts) * ConnectionsPerHost

(* The global limit getIdleConn compares c.numOpenConns() with.             *)
MaxOpenOffByOne == Len(Hosts) * ConnectionsPerHost + 1
MaxOpen == Len(Hosts) * ConnectionsPerHost

(* The sum of numConnsPerHost, as the number of slots taken: one pair for   *)
(* each connection counted on each host.                                    *)
Slots == UNION {{h} \X (1..numConnsPerHost[h]) : h \in HostSet}
NumOpenConns == Cardinality(Slots)

(* c.hosts[i%len(c.hosts)]                                                  *)
HostAt(i) == Hosts[(i % Len(Hosts)) + 1]
HasRoomOffByOne(h) == numConnsPerHost[h] <= ConnectionsPerHost
HasRoom(h) == numConnsPerHost[h] < ConnectionsPerHost

(* c.mu is free at every step boundary, unless a goroutine panicked inside  *)
(* getIdleConn, which never unlocks it.                                     *)
LockFree == \A w \in Workers : pc[w] # "panicked"

(* c.numConnsPerHost[host]--                                                *)
Uncounted(h) == [numConnsPerHost EXCEPT ![h] = @ - 1]

(* c.freeConnCh <- pconn                                                    *)
SentTwice(c) == freeConnCh \o <<c, c>>
Sent(c) == Append(freeConnCh, c)

(* if idx >= 0 { c.allCons[idx] = pconn }                                   *)
RegisteredAny(c) == allCons \cup {c}
Registered(c) == IF Pooled(c) THEN allCons \cup {c} ELSE allCons

(* openConn's last check of c.closed.                                       *)
NeverRefuses == FALSE
Refuses == closed

Init ==
  /\ connIdx = 0 /\ rawConnIdx = 0
  /\ numConnsPerHost = [h \in HostSet |-> 0]
  /\ allCons = {} /\ freeConnCh = <<>>
  /\ closed = FALSE /\ toClose = {}
  /\ broken = {} /\ sockets = {}
  /\ pc = [w \in Workers |-> "idle"]
  /\ conn = [w \in Workers |-> NoConn]
  /\ resume = [w \in Workers |-> "poll"]
  /\ calls = [w \in Workers |-> 0]

GoTo(w, label) == pc' = [pc EXCEPT ![w] = label]
Drop(w) == conn' = [conn EXCEPT ![w] = NoConn]
NewCall(w) ==
  /\ pc[w] = "idle" /\ calls[w] < MaxCalls
  /\ calls' = [calls EXCEPT ![w] = @ + 1]
-----------------------------------------------------------------------------
(* getIdleConn *)

(* A Client method starts by asking for a connection.                       *)
Call(w) ==
  /\ NewCall(w)
  /\ GoTo(w, "poll")
  /\ UNCHANGED <<poolVars, regVars, rawConnIdx, broken, sockets, conn, resume>>

(* Either receive from c.freeConnCh: the non-blocking one of the first loop *)
(* or the blocking one of the second. A broken connection is discarded and  *)
(* the goroutine goes round the loop it is in.                              *)
Receive(w) ==
  /\ pc[w] \in {"poll", "wait"}
  /\ freeConnCh # <<>>
  /\ freeConnCh' = Tail(freeConnCh)
  /\ conn' = [conn EXCEPT ![w] = Head(freeConnCh)]
  /\ GoTo(w, IF Head(freeConnCh) \in broken THEN "uncount" ELSE "using")
  /\ resume' = [resume EXCEPT ![w] = IF pc[w] = "poll" THEN "poll" ELSE "reserve"]
  /\ UNCHANGED <<connIdx, numConnsPerHost, regVars, rawConnIdx, broken, sockets, calls>>

(* default: break Loop                                                      *)
PollEmpty(w) ==
  /\ pc[w] = "poll"
  /\ freeConnCh = <<>>
  /\ GoTo(w, "reserve")
  /\ UNCHANGED <<poolVars, regVars, rawConnIdx, broken, sockets, conn, resume, calls>>

(* Room below the global limit: take the next index and the first host, in  *)
(* round-robin order from that index, that is below its own limit.          *)
Reserve(w) ==
  /\ pc[w] = "reserve" /\ LockFree
  /\ NumOpenConns < MaxOpen
  /\ connIdx' = connIdx + 1
  /\ \E k \in 0..(Len(Hosts) - 1) :
       LET host == HostAt(connIdx + 1 + k) IN
       /\ HasRoom(host)
       /\ \A j \in 0..(k - 1) : ~HasRoom(HostAt(connIdx + 1 + j))
       /\ numConnsPerHost' = [numConnsPerHost EXCEPT ![host] = @ + 1]
       /\ conn' = [conn EXCEPT ![w] = [idx |-> connIdx + 1, host |-> host]]
  /\ GoTo(w, "dial")
  /\ UNCHANGED <<freeConnCh, regVars, rawConnIdx, broken, sockets, resume, calls>>

(* panic("this shouldn't be possible"): room in total, but on no host.      *)
ReservePanic(w) ==
  /\ pc[w] = "reserve" /\ LockFree
  /\ NumOpenConns < MaxOpen
  /\ \A h \in HostSet : ~HasRoom(h)
  /\ connIdx' = connIdx + 1
  /\ GoTo(w, "panicked")
  /\ UNCHANGED <<numConnsPerHost, freeConnCh, regVars, rawConnIdx, broken,
                 sockets, conn, resume, calls>>

(* Every slot is taken: unlock and block on the channel.                    *)
Block(w) ==
  /\ pc[w] = "reserve" /\ LockFree
  /\ NumOpenConns >= MaxOpen
  /\ GoTo(w, "wait")
  /\ UNCHANGED <<poolVars, regVars, rawConnIdx, broken, sockets, conn, resume, calls>>

(* c.numConnsPerHost[pconn.host]-- for a broken connection just received.   *)
Uncount(w) ==
  /\ pc[w] = "uncount" /\ LockFree
  /\ numConnsPerHost' = Uncounted(conn[w].host)
  /\ GoTo(w, "remove")
  /\ UNCHANGED <<connIdx, freeConnCh, regVars, rawConnIdx, broken, sockets,
                 conn, resume, calls>>

(* removeConn: forget the connection under the lock, ...                    *)
Remove(w) ==
  /\ pc[w] = "remove" /\ LockFree
  /\ allCons' = allCons \ {conn[w]}
  /\ GoTo(w, "shut")
  /\ UNCHANGED <<poolVars, closed, toClose, rawConnIdx, broken, sockets, conn,
                 resume, calls>>

(* ... then pconn.close, and on with the loop of getIdleConn.               *)
Shut(w) ==
  /\ pc[w] = "shut"
  /\ sockets' = sockets \ {conn[w]}
  /\ GoTo(w, resume[w])
  /\ Drop(w)
  /\ UNCHANGED <<poolVars, regVars, rawConnIdx, broken, resume, calls>>
-----------------------------------------------------------------------------
(* openConn *)

(* OpenRawConn takes its own index and host and does not touch the counts.  *)
OpenRaw(w) ==
  /\ w \in RawUsers /\ LockFree
  /\ NewCall(w)
  /\ rawConnIdx' = rawConnIdx + 1
  /\ conn' = [conn EXCEPT ![w] = [idx |-> -(rawConnIdx + 1), host |-> HostAt(rawConnIdx)]]
  /\ GoTo(w, "dial")
  /\ UNCHANGED <<poolVars, regVars, broken, sockets, resume>>

(* getIdleConn still has to undo its reservation; OpenRawConn just returns. *)
OpenErrorOfPooled(w) == GoTo(w, "openFailed") /\ UNCHANGED conn
OpenError(w) ==
  IF Pooled(conn[w])
  THEN GoTo(w, "openFailed") /\ UNCHANGED conn
  ELSE GoTo(w, "idle") /\ Drop(w)

(* net.DialTimeout or tls.DialWithDialer                                    *)
DialOk(w) ==
  /\ pc[w] = "dial"
  /\ sockets' = sockets \cup {conn[w]}
  /\ GoTo(w, "login")
  /\ UNCHANGED <<poolVars, regVars, rawConnIdx, broken, conn, resume, calls>>

DialFail(w) ==
  /\ OpenMayFail
  /\ pc[w] = "dial"
  /\ OpenError(w)
  /\ UNCHANGED <<poolVars, regVars, rawConnIdx, broken, sockets, resume, calls>>

(* The greeting, logIn or logInTLS, and fetchFeatures.                      *)
LoginOk(w) ==
  /\ pc[w] = "login"
  /\ GoTo(w, "register")
  /\ UNCHANGED <<poolVars, regVars, rawConnIdx, broken, sockets, conn, resume, calls>>

LoginFailLeaks(w) ==
  /\ OpenMayFail
  /\ pc[w] = "login"
  /\ OpenError(w)
  /\ UNCHANGED <<poolVars, regVars, rawConnIdx, broken, sockets, resume, calls>>

LoginFail(w) ==
  /\ OpenMayFail
  /\ pc[w] = "login"
  /\ sockets' = sockets \ {conn[w]}
  /\ OpenError(w)
  /\ UNCHANGED <<poolVars, regVars, rawConnIdx, broken, resume, calls>>

(* The last critical section of openConn: a client closed meanwhile refuses *)
(* the connection, otherwise a pooled one is registered for Close to find.  *)
Register(w) ==
  /\ pc[w] = "register" /\ LockFree /\ ~Refuses
  /\ allCons' = Registered(conn[w])
  /\ GoTo(w, IF Pooled(conn[w]) THEN "using" ELSE "raw")
  /\ UNCHANGED <<poolVars, closed, toClose, rawConnIdx, broken, sockets, conn,
                 resume, calls>>

RegisterClosed(w) ==
  /\ pc[w] = "register" /\ LockFree /\ Refuses
  /\ sockets' = sockets \ {conn[w]}
  /\ OpenError(w)
  /\ UNCHANGED <<poolVars, regVars, rawConnIdx, broken, resume, calls>>

(* err != nil in getIdleConn: give the slot back and return the error.      *)
OpenFailedKeepsSlot(w) ==
  /\ pc[w] = "openFailed" /\ LockFree
  /\ GoTo(w, "idle")
  /\ Drop(w)
  /\ UNCHANGED <<poolVars, regVars, rawConnIdx, broken, sockets, resume, calls>>

OpenFailed(w) ==
  /\ pc[w] = "openFailed" /\ LockFree
  /\ numConnsPerHost' = Uncounted(conn[w].host)
  /\ GoTo(w, "idle")
  /\ Drop(w)
  /\ UNCHANGED <<connIdx, freeConnCh, regVars, rawConnIdx, broken, sockets,
                 resume, calls>>
-----------------------------------------------------------------------------
(* Using a connection *)

(* The operation the method runs. I/O on the control or data socket may     *)
(* fail and set broken. It may also succeed although Close has meanwhile    *)
(* shut the socket: its I/O was over, or it needs none (canResume).         *)
Operate(w) ==
  /\ pc[w] = "using"
  /\ broken' \in {broken, broken \cup {conn[w]}}
  /\ GoTo(w, "returning")
  /\ UNCHANGED <<poolVars, regVars, rawConnIdx, sockets, conn, resume, calls>>

(* returnConn: a send on the buffered channel, which blocks when it is full. *)
Return(w) ==
  /\ pc[w] = "returning"
  /\ Len(freeConnCh) < Capacity
  /\ freeConnCh' = Sent(conn[w])
  /\ GoTo(w, "idle")
  /\ Drop(w)
  /\ UNCHANGED <<connIdx, numConnsPerHost, regVars, rawConnIdx, broken,
                 sockets, resume, calls>>

(* RawConn.Close, by the caller of OpenRawConn.                             *)
RawClose(w) ==
  /\ pc[w] = "raw"
  /\ sockets' = sockets \ {conn[w]}
  /\ GoTo(w, "idle")
  /\ Drop(w)
  /\ UNCHANGED <<poolVars, regVars, rawConnIdx, broken, resume, calls>>
-----------------------------------------------------------------------------
(* Client.Close *)

CloseBegin(w) ==
  /\ w \in Closers /\ LockFree /\ ~closed
  /\ NewCall(w)
  /\ closed' = TRUE
  /\ toClose' = allCons
  /\ GoTo(w, "closing")
  /\ UNCHANGED <<poolVars, allCons, rawConnIdx, broken, sockets, conn, resume>>

(* "already closed"                                                         *)
CloseAgain(w) ==
  /\ w \in Closers /\ LockFree /\ closed
  /\ NewCall(w)
  /\ UNCHANGED <<poolVars, regVars, rawConnIdx, broken, sockets, pc, conn, resume>>

(* removeConn for each connection of the slice, which a map's iteration has *)
(* put in any order. Nothing reads allCons once closed is set, so deleting  *)
(* the connection and closing its socket are one step.                      *)
CloseOne(w) ==
  /\ pc[w] = "closing" /\ LockFree
  /\ \E c \in toClose :
       /\ allCons' = allCons \ {c}
       /\ sockets' = sockets \ {c}
       /\ toClose' = toClose \ {c}
  /\ UNCHANGED <<poolVars, closed, rawConnIdx, broken, pc, conn, resume, calls>>

CloseEnd(w) ==
  /\ pc[w] = "closing"
  /\ toClose = {}
  /\ GoTo(w, "idle")
  /\ UNCHANGED <<poolVars, regVars, rawConnIdx, broken, sockets, conn, resume, calls>>
-----------------------------------------------------------------------------
Start(w) == Call(w) \/ OpenRaw(w) \/ CloseBegin(w) \/ CloseAgain(w)

GetIdleConn(w) ==
  \/ Receive(w) \/ PollEmpty(w) \/ Reserve(w) \/ ReservePanic(w) \/ Block(w)
  \/ Uncount(w) \/ Remove(w) \/ Shut(w)

OpenConn(w) ==
  \/ DialOk(w) \/ DialFail(w) \/ LoginOk(w) \/ LoginFail(w)
  \/ Register(w) \/ RegisterClosed(w) \/ OpenFailed(w)

Step(w) ==
  GetIdleConn(w) \/ OpenConn(w) \/ Operate(w) \/ Return(w) \/ CloseOne(w) \/ CloseEnd(w)

Next == \E w \in Workers : Start(w) \/ Step(w) \/ RawClose(w)

(* The Go scheduler runs every runnable goroutine, and every dial, command  *)
(* and data read or write carries a deadline (config.Timeout), so a started *)
(* method keeps taking steps while one is enabled. Whether a goroutine      *)
(* calls a method, or closes its raw connection, is its own choice.         *)
Fairness == \A w \in Workers : WF_vars(Step(w))

Spec == Init /\ [][Next]_vars /\ Fairness
-----------------------------------------------------------------------------
(* What the pool owns *)

(* The goroutines whose connection in hand takes one of the counted slots.  *)
Counting(w) ==
  /\ pc[w] \in {"dial", "login", "register", "openFailed", "using",
                "returning", "uncount"}
  /\ Pooled(conn[w])

InHand == {conn[w] : w \in {v \in Workers : Counting(v)}}
Counted == Range(freeConnCh) \cup InHand
CountedOn(h) == {c \in Counted : c.host = h}

TypeOK ==
  /\ connIdx \in Nat /\ rawConnIdx \in Nat
  /\ numConnsPerHost \in [HostSet -> Int]
  /\ allCons \subseteq PConn /\ toClose \subseteq PConn
  /\ broken \subseteq PConn /\ sockets \subseteq PConn
  /\ freeConnCh \in Seq(PConn)
  /\ \A c \in allCons \cup toClose : Pooled(c)
  /\ closed \in BOOLEAN
  /\ pc \in [Workers -> PCs]
  /\ conn \in [Workers -> PConn]
  /\ resume \in [Workers -> {"poll", "reserve"}]
  /\ calls \in [Workers -> 0..MaxCalls]

(* getIdleConn/returnConn: a connection is either in the channel, once, or  *)
(* in the hands of exactly one goroutine. Two goroutines never interleave   *)
(* commands on one control connection.                                      *)
ExclusiveLease ==
  /\ \A i, j \in DOMAIN freeConnCh : freeConnCh[i] = freeConnCh[j] => i = j
  /\ \A v, w \in Workers : Counting(v) /\ Counting(w) /\ conn[v] = conn[w] => v = w
  /\ Range(freeConnCh) \cap InHand = {}

(* numConnsPerHost is decremented and incremented in four places of         *)
(* getIdleConn, never together with the channel: it still equals the number *)
(* of connections of the host that exist, at every step.                    *)
CountExact == \A h \in HostSet : numConnsPerHost[h] = Cardinality(CountedOn(h))

(* Config.ConnectionsPerHost: "Maximum number of FTP connections to open    *)
(* per-host", over connections being opened, in use, idle or being dropped. *)
HostLimit == \A h \in HostSet : Cardinality(CountedOn(h)) <= ConnectionsPerHost

(* returnConn runs in a defer of every method: it must never block on a     *)
(* full channel.                                                            *)
ReturnNeverBlocks ==
  \A w \in Workers : pc[w] = "returning" => Len(freeConnCh) < Capacity

(* The panic of getIdleConn, "this shouldn't be possible".                  *)
NoPanic == LockFree

(* No open control socket is lost: it belongs to an idle connection, or to  *)
(* one a goroutine has in hand and will return, drop or close.              *)
NoOrphanSocket ==
  \A c \in sockets : c \in Range(freeConnCh) \/ \E w \in Workers : conn[w] = c

CloseReturned == closed /\ \A w \in Workers : pc[w] # "closing"
Closing(c) ==
  \E w \in Workers : conn[w] = c /\ pc[w] \in {"dial", "login", "register", "shut"}

(* Close against concurrent openConn and removeConn: once Close returns, no *)
(* pooled connection has an open socket, except those still inside openConn,*)
(* which will find c.closed set, and those getIdleConn is about to close.   *)
ClosedMeansClosed ==
  CloseReturned => \A c \in sockets : Pooled(c) => Closing(c)

(* The tests' "Leaked a connection": when no method is running, every       *)
(* counted connection is idle in the channel.                               *)
Quiet == \A w \in Workers : pc[w] \in {"idle", "raw"}
NoLeak == Quiet => NumOpenConns = Len(freeConnCh)

(* A goroutine blocks for a free connection only while there is one to come:*)
(* some connection is counted, or the goroutine that has just given a slot  *)
(* back is on its way to take it again.                                     *)
NoStrandedWaiter ==
  (\E w \in Workers : pc[w] = "wait") =>
     \/ Counted # {}
     \/ \E v \in Workers : pc[v] \in {"remove", "shut", "poll", "reserve"}

(* Nobody blocks for a connection: it takes more goroutines inside methods   *)
(* of the client, at some time, than connections the pool may open.         *)
NobodyWaits == \A w \in Workers : pc[w] # "wait"
FewEnough == Cardinality({w \in Workers : pc[w] # "idle"}) <= MaxOpen

-----------------------------------------------------------------------------
(* The pool as its callers see it: each counted connection with the        *)
(* goroutines that have it.                                                 *)
Holders(c) == {w \in Workers : Counting(w) /\ conn[w] = c}
leases == [c \in Counted |-> Holders(c)]

Lease == INSTANCE LeasePool WITH
  lease <- leases,
  lastIdx <- connIdx

(* getIdleConn and returnConn implement LeasePool: whatever the goroutines  *)
(* do, each step of the code is one lease operation or none.                *)
ImplementsLeasePool == Lease!Spec
=============================================================================
