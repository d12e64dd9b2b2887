-------------------------- MODULE HttpSessionProofs --------------------------
(***************************************************************************)
(* Proofs about HttpSession, for any requests, sessions and file length.   *)
(*                                                                         *)
(* SessionOK is what each session keeps by itself, whatever the requests   *)
(* do; RequestOK relates the requests in progress to the gauges.           *)
(***************************************************************************)
EXTENDS HttpSession, TLAPS

Early == {"none", "dial", "prepare"}
Over == {"close", "done"}

(* The history of late only matters to a session that cannot resume: one    *)
(* buffer, after which the copy has failed, or is about to.                 *)
HeardOK(s) ==
  late[s] > 0 => \/ canResume[s]
                 \/ late[s] = 1 /\ s \in terminated /\ pc[s] \in Over \cup {"check"}

SessionOK(s) ==
  /\ bytesSoFar[s] + n[s] <= Most(s)
  /\ pc[s] \notin {"copy", "check"} => n[s] = 0
  /\ pc[s] = "check" => bytesSoFar[s] + n[s] < Most(s)
  /\ pc[s] \in Early =>
       /\ ~canResume[s] /\ ~sizeKnown[s]
       /\ late[s] = 0 /\ transBytes[s] = 0 /\ bytesSoFar[s] = 0
  /\ s \in failed => pc[s] \in Over
  /\ s \in ended => pc[s] = "done"
  /\ direction[s] = "upload" => ~canResume[s]
  /\ pc[s] = "verify" => direction[s] = "upload" /\ bytesSoFar[s] = FileLength
  /\ pc[s] \in Over /\ s \notin failed /\ (sizeKnown[s] \/ direction[s] = "upload")
       => bytesSoFar[s] = FileLength
  /\ CountAgrees(s)
  /\ HeardOK(s)

LoopInv == TypeOK /\ \A s \in Sessions : SessionOK(s)

(* A request about to call go ftp has a gauge of its own.                   *)
GoOK ==
  \A r \in Requests : request[r].stage = "go" =>
    /\ request[r].gauge \in Sessions /\ pc[request[r].gauge] = "none"
    /\ \A q \in Requests \ {r} :
         request[q].stage = "go" => request[q].gauge # request[r].gauge

(* A start that has loaded a gauge still has the current one, which at its  *)
(* store has been terminated, unless the current one has overlapped a start. *)
RequestOK(r) ==
  LET q == request[r] IN
  /\ q.stage \in {"store", "go"} => q.kind = "start"
  /\ q.stage \in {"loaded", "store"} /\ q.kind = "start" =>
       current[q.dir] \in overlapped \/ q.gauge = current[q.dir]
  /\ q.stage = "store" => q.gauge \in terminated \cup {None}
  /\ q.stage = "go" =>
       /\ direction[q.gauge] = q.dir
       /\ q.gauge \in terminated \cup overlapped \/ current[q.dir] = q.gauge

ReachInv == TypeOK /\ (\A r \in Requests : RequestOK(r)) /\ OnlyCurrentRuns
-----------------------------------------------------------------------------
(* What each session keeps by itself *)

(* A step that leaves session t alone, except that it may terminate it.     *)
Untouched(t) ==
  /\ pc'[t] = pc[t] /\ direction'[t] = direction[t]
  /\ bytesSoFar'[t] = bytesSoFar[t] /\ n'[t] = n[t]
  /\ canResume'[t] = canResume[t] /\ sizeKnown'[t] = sizeKnown[t]
  /\ transBytes'[t] = transBytes[t] /\ late'[t] = late[t]
  /\ (t \in failed') <=> (t \in failed)
  /\ (t \in ended') <=> (t \in ended)
  /\ t \in terminated => t \in terminated'

LEMMA UntouchedOK ==
  ASSUME NEW t \in Sessions, SessionOK(t), Untouched(t)
  PROVE  SessionOK(t)'
  <1>1. CountAgrees(t)'
    BY DEF SessionOK, Untouched, CountAgrees
  <1>2. HeardOK(t)'
    BY DEF SessionOK, Untouched, HeardOK
  <1> QED BY <1>1, <1>2 DEF SessionOK, Untouched, Most

LEMMA LoopInit == Init => LoopInv
  <1> SUFFICES ASSUME Init PROVE LoopInv
    OBVIOUS
  <1>1. TypeOK
    BY HttpAssumption DEF Init, TypeOK, Idle, Stages, PCs, Directions
  <1>2. ASSUME NEW s \in Sessions PROVE SessionOK(s)
    BY HttpAssumption DEF Init, SessionOK, CountAgrees, HeardOK, Early, Over, Most
  <1> QED BY <1>1, <1>2 DEF LoopInv

LEMMA FailsOK ==
  ASSUME TypeOK, NEW s \in Sessions, SessionOK(s), NEW sent \in {n[s], n[s] + 1},
         TransferFails(s, sent), bytesSoFar[s] + sent <= Most(s),
         UNCHANGED <<requestVars, terminated, ended, copyVars>>,
         pc[s] \in {"transfer", "copy", "check"},
         transBytes[s] - (bytesSoFar[s] + sent) = 0
           \/ (direction[s] = "upload" /\ transBytes[s] - (bytesSoFar[s] + sent) = 1),
         late[s] > 0 => canResume[s] \/ (late[s] = 1 /\ s \in terminated)
  PROVE  /\ TypeOK' /\ SessionOK(s)'
         /\ \A t \in Sessions \ {s} : Untouched(t)
  <1>1. /\ n[s] \in Nat /\ bytesSoFar[s] \in Nat /\ sent \in Nat
        /\ transBytes[s] \in Nat /\ late[s] \in Nat
        /\ FileLength \in Nat /\ Surplus \in Nat
        /\ Most(s) \in 0..(FileLength + Surplus)
    BY HttpAssumption DEF TypeOK, Most
  <1>2. /\ bytesSoFar' = [bytesSoFar EXCEPT ![s] = @ + sent] /\ n' = [n EXCEPT ![s] = 0]
        /\ UNCHANGED <<canResume, sizeKnown, direction, terminated, ended, transBytes, late,
                       current, request, overlapped>>
        /\ Most(s)' = Most(s)
    BY DEF Most, TransferFails, Added, requestVars, copyVars
  <1>3. \/ canResume[s] /\ pc' = [pc EXCEPT ![s] = "transfer"] /\ failed' = failed
        \/ pc' = [pc EXCEPT ![s] = "close"] /\ failed' = failed \cup {s}
    BY DEF TransferFails, Resumes, Panic, GoTo
  <1>4. TypeOK'
    <2>1. /\ bytesSoFar' \in [Sessions -> 0..(FileLength + Surplus)]
          /\ n' \in [Sessions -> 0..(FileLength + Surplus)]
      BY <1>1, <1>2 DEF TypeOK
    <2>2. pc' \in [Sessions -> PCs] /\ failed' \subseteq Sessions
      BY <1>3 DEF TypeOK, PCs
    <2> QED BY <1>2, <2>1, <2>2 DEF TypeOK
  <1>5. \A t \in Sessions \ {s} : Untouched(t)
    BY <1>2, <1>3 DEF Untouched, TypeOK
  <1>6. /\ bytesSoFar'[s] = bytesSoFar[s] + sent /\ n'[s] = 0
        /\ \/ canResume[s] /\ pc'[s] = "transfer" /\ s \notin failed'
           \/ pc'[s] = "close" /\ s \in failed'
    BY <1>2, <1>3 DEF TypeOK, SessionOK, Over
  <1>7. SessionOK(s)'
    <2>1. CountAgrees(s)'
      <3>1. transBytes'[s] - (bytesSoFar'[s] + n'[s]) = transBytes[s] - (bytesSoFar[s] + sent)
        BY <1>1, <1>2, <1>6
      <3>2. direction'[s] = direction[s] /\ direction[s] \in {"download", "upload"}
        BY <1>2 DEF TypeOK, Directions
      <3>3. direction[s] = "upload" => ~canResume[s]
        BY DEF SessionOK
      <3> QED BY <3>1, <3>2, <3>3, <1>6 DEF CountAgrees
    <2>2. HeardOK(s)'
      BY <1>2, <1>6 DEF HeardOK, Over
    <2>3. /\ bytesSoFar'[s] + n'[s] <= Most(s)'
          /\ pc'[s] = "check" => bytesSoFar'[s] + n'[s] < Most(s)'
      BY <1>1, <1>2, <1>6
    <2>4. s \in ended' => pc'[s] = "done"
      BY <1>2 DEF SessionOK
    <2>5. direction'[s] = "upload" => ~canResume'[s]
      BY <1>2 DEF SessionOK
    <2> QED BY <1>6, <2>1, <2>2, <2>3, <2>4, <2>5 DEF SessionOK, Early, Over
  <1> QED BY <1>4, <1>5, <1>7

LEMMA SessionInv ==
  ASSUME LoopInv, NEW s \in Sessions, Session(s) PROVE LoopInv'
  <1> SUFFICES /\ TypeOK' /\ SessionOK(s)'
               /\ \A t \in Sessions \ {s} : Untouched(t)
    BY UntouchedOK DEF LoopInv
  <1>0. /\ TypeOK /\ SessionOK(s) /\ direction[s] \in {"download", "upload"}
        /\ n[s] \in Nat /\ bytesSoFar[s] \in Nat
        /\ transBytes[s] \in Nat /\ late[s] \in Nat
        /\ FileLength \in Nat /\ Surplus \in Nat
    BY HttpAssumption DEF LoopInv, TypeOK, Directions
  <1> USE DEF requestVars, copyVars, loopVars, Most
  <1>1. CASE Dial(s)
    <2>1. /\ pc[s] = "dial"
          /\ \/ pc' = [pc EXCEPT ![s] = "prepare"] /\ failed' = failed
             \/ pc' = [pc EXCEPT ![s] = "close"] /\ failed' = failed \cup {s}
          /\ UNCHANGED <<current, request, direction, overlapped, terminated, ended, transBytes, late,
                         bytesSoFar, n, canResume, sizeKnown>>
      BY <1>1 DEF Dial, Panic, GoTo
    <2>2. TypeOK' /\ \A t \in Sessions \ {s} : Untouched(t)
      BY <1>0, <2>1 DEF TypeOK, PCs, Untouched
    <2>3. \/ pc'[s] = "prepare" /\ s \notin failed'
          \/ pc'[s] = "close" /\ s \in failed'
      BY <1>0, <2>1 DEF TypeOK, SessionOK, Over
    <2>4. SessionOK(s)'
      BY <1>0, <2>1, <2>3 DEF SessionOK, CountAgrees, HeardOK, Early, Over
    <2> QED BY <2>2, <2>4
  <1>2. CASE Prepare(s)
    <2>1. /\ pc[s] = "prepare"
          /\ \/ pc' = [pc EXCEPT ![s] = "transfer"] /\ failed' = failed
             \/ pc' = [pc EXCEPT ![s] = "close"] /\ failed' = failed \cup {s}
          /\ UNCHANGED <<current, request, direction, overlapped, terminated, ended, transBytes, late,
                         bytesSoFar, n>>
      BY <1>2 DEF Prepare, Panic, GoTo
    <2>2. PICK can \in BOOLEAN, known \in BOOLEAN :
            /\ canResume' = [canResume EXCEPT ![s] = can]
            /\ sizeKnown' = [sizeKnown EXCEPT ![s] = known]
            /\ direction[s] = "upload" => ~can
      <3>1. canResume = [canResume EXCEPT ![s] = canResume[s]]
            /\ sizeKnown = [sizeKnown EXCEPT ![s] = sizeKnown[s]]
            /\ canResume[s] \in BOOLEAN /\ sizeKnown[s] \in BOOLEAN
        BY <1>0 DEF TypeOK
      <3>2. CASE direction[s] = "download" /\ ~UNCHANGED <<canResume, sizeKnown>>
        BY <1>2, <3>2 DEF Prepare
      <3>3. CASE UNCHANGED <<canResume, sizeKnown>>
        BY <1>0, <3>1, <3>3 DEF SessionOK
      <3>4. CASE direction[s] = "upload"
        BY <1>0, <1>2, <3>1, <3>4 DEF Prepare, SessionOK
      <3> QED BY <1>0, <3>2, <3>3, <3>4
    <2>3. TypeOK' /\ \A t \in Sessions \ {s} : Untouched(t)
      BY <1>0, <2>1, <2>2 DEF TypeOK, PCs, Untouched
    <2>4. \/ pc'[s] = "transfer" /\ s \notin failed'
          \/ pc'[s] = "close" /\ s \in failed'
      BY <1>0, <2>1 DEF TypeOK, SessionOK, Over
    <2>5. canResume'[s] = can
      BY <1>0, <2>2 DEF TypeOK
    <2>6. SessionOK(s)'
      BY <1>0, <2>1, <2>2, <2>4, <2>5 DEF SessionOK, CountAgrees, HeardOK, Early, Over
    <2> QED BY <2>3, <2>6
  <1>3. CASE Open(s)
    <2>1. /\ pc[s] = "transfer" /\ pc' = [pc EXCEPT ![s] = "copy"]
          /\ UNCHANGED <<current, request, direction, overlapped, terminated, ended, transBytes, late,
                         bytesSoFar, n, canResume, sizeKnown, failed>>
      BY <1>3 DEF Open, GoTo
    <2>2. TypeOK' /\ \A t \in Sessions \ {s} : Untouched(t)
      BY <1>0, <2>1 DEF TypeOK, PCs, Untouched
    <2>3. pc'[s] = "copy"
      BY <1>0, <2>1 DEF TypeOK
    <2>4. SessionOK(s)'
      BY <1>0, <2>1, <2>3 DEF SessionOK, CountAgrees, HeardOK, Early, Over
    <2> QED BY <2>2, <2>4
  <1>4. CASE OpenFails(s)
    <2>1. /\ pc[s] = "transfer" /\ TransferFails(s, 0) /\ n[s] = 0
          /\ UNCHANGED <<requestVars, terminated, ended, copyVars>>
      BY <1>0, <1>4 DEF OpenFails, SessionOK
    <2>2. transBytes[s] - (bytesSoFar[s] + 0) = 0
      BY <1>0, <2>1 DEF SessionOK, CountAgrees, Over
    <2>3. late[s] > 0 => canResume[s] \/ (late[s] = 1 /\ s \in terminated)
      BY <1>0 DEF SessionOK, HeardOK
    <2>4. bytesSoFar[s] + 0 <= Most(s) /\ 0 \in {n[s], n[s] + 1}
      BY <1>0, <2>1 DEF SessionOK
    <2> QED BY <1>0, <2>1, <2>2, <2>3, <2>4, FailsOK
  <1>5. CASE Count(s)
    <2>1. /\ pc[s] = "copy" /\ pc' = [pc EXCEPT ![s] = "check"]
          /\ bytesSoFar[s] + n[s] < Most(s)
          /\ transBytes' = [transBytes EXCEPT ![s] = @ + 1]
          /\ late' = [late EXCEPT ![s] = @ + (IF s \in terminated THEN 1 ELSE 0)]
          /\ UNCHANGED <<current, request, direction, overlapped, terminated, ended,
                         bytesSoFar, n, canResume, sizeKnown, failed>>
      BY <1>5 DEF Count, GoTo
    <2>2. TypeOK' /\ \A t \in Sessions \ {s} : Untouched(t)
      BY <1>0, <2>1 DEF TypeOK, PCs, Untouched
    <2>3. /\ pc'[s] = "check" /\ transBytes'[s] = transBytes[s] + 1
          /\ late'[s] = late[s] + (IF s \in terminated THEN 1 ELSE 0)
      BY <1>0, <2>1 DEF TypeOK
    <2>4. CountAgrees(s)'
      BY <1>0, <2>1, <2>3 DEF SessionOK, CountAgrees, Over
    <2>5. HeardOK(s)'
      BY <1>0, <2>1, <2>3 DEF SessionOK, HeardOK, Over
    <2>6. SessionOK(s)'
      BY <1>0, <2>1, <2>3, <2>4, <2>5 DEF SessionOK, Early, Over
    <2> QED BY <2>2, <2>6
  <1>6. CASE Check(s)
    <2>1. /\ pc[s] = "check" /\ bytesSoFar[s] + n[s] < Most(s)
          /\ transBytes[s] - (bytesSoFar[s] + n[s]) = 1
          /\ UNCHANGED <<requestVars, terminated, ended, copyVars>>
      BY <1>0, <1>6 DEF Check, SessionOK, CountAgrees
    <2>2. PICK written \in (IF direction[s] = "download" THEN {1} ELSE {0, 1}) :
            IF ReadsErr(s) \/ written = 0
            THEN TransferFails(s, n[s] + written)
            ELSE /\ n' = [n EXCEPT ![s] = @ + 1]
                 /\ GoTo(s, "copy")
                 /\ UNCHANGED <<bytesSoFar, canResume, sizeKnown, failed>>
      BY <1>6 DEF Check
    <2>3. /\ written \in {0, 1} /\ n[s] + written \in {n[s], n[s] + 1}
          /\ written = 0 => direction[s] = "upload"
      BY <1>0, <2>2
    <2>4. CASE ReadsErr(s) \/ written = 0
      <3>1. TransferFails(s, n[s] + written)
        BY <2>2, <2>4
      <3>2. bytesSoFar[s] + (n[s] + written) <= Most(s)
        BY <1>0, <2>1, <2>3
      <3>3. transBytes[s] - (bytesSoFar[s] + (n[s] + written)) = 0
              \/ (direction[s] = "upload" /\ transBytes[s] - (bytesSoFar[s] + (n[s] + written)) = 1)
        BY <1>0, <2>1, <2>3
      <3>4. late[s] > 0 => canResume[s] \/ (late[s] = 1 /\ s \in terminated)
        BY <1>0 DEF SessionOK, HeardOK
      <3> QED BY <1>0, <2>1, <2>3, <3>1, <3>2, <3>3, <3>4, FailsOK
    <2>5. CASE ~(ReadsErr(s) \/ written = 0)
      <3>1. /\ n' = [n EXCEPT ![s] = @ + 1] /\ pc' = [pc EXCEPT ![s] = "copy"]
            /\ UNCHANGED <<current, request, direction, overlapped, terminated, ended, transBytes, late,
                           bytesSoFar, canResume, sizeKnown, failed>>
            /\ s \notin terminated
        BY <2>1, <2>2, <2>5 DEF ReadsErr, GoTo
      <3>2. TypeOK' /\ \A t \in Sessions \ {s} : Untouched(t)
        BY <1>0, <2>1, <3>1 DEF TypeOK, PCs, Untouched
      <3>3. pc'[s] = "copy" /\ n'[s] = n[s] + 1
        BY <1>0, <3>1 DEF TypeOK
      <3>4. CountAgrees(s)'
        BY <1>0, <2>1, <3>1, <3>3 DEF CountAgrees
      <3>5. HeardOK(s)'
        BY <1>0, <3>1, <3>3 DEF SessionOK, HeardOK
      <3>6. SessionOK(s)'
        BY <1>0, <2>1, <3>1, <3>3, <3>4, <3>5 DEF SessionOK, Early, Over
      <3> QED BY <3>2, <3>6
    <2> QED BY <2>4, <2>5
  <1>7. CASE CopyFails(s)
    <2>1. /\ pc[s] = "copy" /\ TransferFails(s, n[s])
          /\ UNCHANGED <<requestVars, terminated, ended, copyVars>>
      BY <1>7 DEF CopyFails
    <2>2. transBytes[s] - (bytesSoFar[s] + n[s]) = 0
      BY <1>0, <2>1 DEF SessionOK, CountAgrees, Over
    <2>3. late[s] > 0 => canResume[s] \/ (late[s] = 1 /\ s \in terminated)
      BY <1>0 DEF SessionOK, HeardOK
    <2>4. bytesSoFar[s] + n[s] <= Most(s)
      BY <1>0 DEF SessionOK
    <2> QED BY <1>0, <2>1, <2>2, <2>3, <2>4, FailsOK
  <1>8. CASE CopyEnds(s)
    <2>1. /\ pc[s] = "copy"
          /\ direction[s] = "upload" => bytesSoFar[s] + n[s] = FileLength
          /\ bytesSoFar' = [bytesSoFar EXCEPT ![s] = @ + n[s]] /\ n' = [n EXCEPT ![s] = 0]
          /\ UNCHANGED <<current, request, direction, overlapped, terminated, ended, transBytes, late,
                         canResume, sizeKnown>>
      BY <1>8 DEF CopyEnds, TransferReturns
    <2>2. \/ /\ direction[s] = "upload"
             /\ pc' = [pc EXCEPT ![s] = "verify"] /\ failed' = failed
          \/ pc' = [pc EXCEPT ![s] = "close"] /\ failed' = failed \cup {s}
          \/ /\ sizeKnown[s] => bytesSoFar[s] + n[s] = FileLength
             /\ direction[s] # "upload"
             /\ pc' = [pc EXCEPT ![s] = "close"] /\ failed' = failed
      BY <1>8 DEF CopyEnds, TransferReturns, Panic, GoTo, Short
    <2>3. TypeOK' /\ \A t \in Sessions \ {s} : Untouched(t)
      <3>1. bytesSoFar[s] + n[s] \in 0..(FileLength + Surplus)
        BY <1>0 DEF SessionOK
      <3>2. /\ bytesSoFar' \in [Sessions -> 0..(FileLength + Surplus)]
            /\ n' \in [Sessions -> 0..(FileLength + Surplus)]
        BY <1>0, <2>1, <3>1 DEF TypeOK
      <3>3. pc' \in [Sessions -> PCs] /\ failed' \subseteq Sessions
        BY <1>0, <2>2 DEF TypeOK, PCs
      <3>4. TypeOK'
        BY <1>0, <2>1, <3>2, <3>3 DEF TypeOK
      <3>5. \A t \in Sessions \ {s} : Untouched(t)
        BY <1>0, <2>1, <2>2 DEF TypeOK, Untouched
      <3> QED BY <3>4, <3>5
    <2>4. /\ bytesSoFar'[s] = bytesSoFar[s] + n[s] /\ n'[s] = 0
          /\ \/ direction[s] = "upload" /\ pc'[s] = "verify" /\ s \notin failed'
             \/ pc'[s] = "close" /\ s \in failed'
             \/ /\ sizeKnown[s] => bytesSoFar[s] + n[s] = FileLength
                /\ direction[s] # "upload" /\ pc'[s] = "close" /\ s \notin failed'
      BY <1>0, <2>1, <2>2 DEF TypeOK, SessionOK, Over
    <2>5. CountAgrees(s)'
      BY <1>0, <2>1, <2>4 DEF SessionOK, CountAgrees, Over
    <2>6. HeardOK(s)'
      BY <1>0, <2>1, <2>4 DEF SessionOK, HeardOK, Over
    <2>7. SessionOK(s)'
      BY <1>0, <2>1, <2>4, <2>5, <2>6 DEF SessionOK, Early, Over
    <2> QED BY <2>3, <2>7
  <1>9. CASE Verify(s)
    <2>1. /\ pc[s] = "verify"
          /\ \/ pc' = [pc EXCEPT ![s] = "close"] /\ failed' = failed
             \/ pc' = [pc EXCEPT ![s] = "close"] /\ failed' = failed \cup {s}
          /\ UNCHANGED <<current, request, direction, overlapped, terminated, ended, transBytes, late,
                         bytesSoFar, n, canResume, sizeKnown>>
      BY <1>9 DEF Verify, Panic, GoTo
    <2>2. TypeOK' /\ \A t \in Sessions \ {s} : Untouched(t)
      BY <1>0, <2>1 DEF TypeOK, PCs, Untouched
    <2>3. pc'[s] = "close"
      BY <1>0, <2>1 DEF TypeOK
    <2>4. SessionOK(s)'
      BY <1>0, <2>1, <2>3 DEF SessionOK, CountAgrees, HeardOK, Early, Over
    <2> QED BY <2>2, <2>4
  <1>10. CASE End(s)
    <2>1. /\ pc[s] = "close" /\ pc' = [pc EXCEPT ![s] = "done"]
          /\ ended' = ended \cup {s}
          /\ UNCHANGED <<current, request, direction, overlapped, terminated, failed, transBytes, late,
                         bytesSoFar, n, canResume, sizeKnown>>
      BY <1>10 DEF End, GoTo
    <2>2. TypeOK' /\ \A t \in Sessions \ {s} : Untouched(t)
      BY <1>0, <2>1 DEF TypeOK, PCs, Untouched
    <2>3. pc'[s] = "done"
      BY <1>0, <2>1 DEF TypeOK
    <2>4. SessionOK(s)'
      BY <1>0, <2>1, <2>3 DEF SessionOK, CountAgrees, HeardOK, Early, Over
    <2> QED BY <2>2, <2>4
  <1> QED
    BY <1>1, <1>2, <1>3, <1>4, <1>5, <1>6, <1>7, <1>8, <1>9, <1>10 DEF Session
-----------------------------------------------------------------------------
(* The requests *)

(* A step of a session moves that session alone, which has been started.    *)
LEMMA SessionFrame ==
  ASSUME TypeOK, NEW s \in Sessions, Session(s)
  PROVE  /\ UNCHANGED <<current, request, direction, overlapped, terminated>>
         /\ Running(s)
         /\ \E l \in PCs \ {"none"} : pc' = [pc EXCEPT ![s] = l]
  <1> USE DEF requestVars, GoTo, PCs, Running
  <1>1. CASE Dial(s) BY <1>1 DEF Dial, Panic
  <1>2. CASE Prepare(s) BY <1>2 DEF Prepare, Panic
  <1>3. CASE Open(s) BY <1>3 DEF Open
  <1>4. CASE OpenFails(s) BY <1>4 DEF OpenFails, TransferFails, Panic
  <1>5. CASE Count(s) BY <1>5 DEF Count
  <1>6. CASE Check(s) BY <1>6 DEF Check, TransferFails, Panic
  <1>7. CASE CopyFails(s) BY <1>7 DEF CopyFails, TransferFails, Panic
  <1>8. CASE CopyEnds(s) BY <1>8 DEF CopyEnds, TransferReturns, Panic
  <1>9. CASE Verify(s) BY <1>9 DEF Verify, Panic
  <1>10. CASE End(s) BY <1>10 DEF End
  <1> QED
    BY <1>1, <1>2, <1>3, <1>4, <1>5, <1>6, <1>7, <1>8, <1>9, <1>10 DEF Session

LEMMA SessionKeepsGo ==
  ASSUME TypeOK, GoOK, NEW s \in Sessions, Session(s) PROVE GoOK'
  <1>1. PICK l \in PCs \ {"none"} : pc' = [pc EXCEPT ![s] = l]
    BY SessionFrame
  <1>2. request' = request /\ pc[s] # "none"
    BY SessionFrame DEF Running
  <1> QED BY <1>1, <1>2 DEF GoOK, TypeOK

LEMMA RequestInv ==
  ASSUME LoopInv, GoOK, NEW r \in Requests,
         \/ Handle(r)
         \/ \E d \in Directions, k \in {"start", "stop"} : Load(r, d, k)
  PROVE  LoopInv' /\ GoOK'
  <1>0. TypeOK /\ \A s \in Sessions : SessionOK(s)
    BY DEF LoopInv
  <1> USE DEF copyVars, loopVars
  <1>1. ASSUME NEW d \in Directions, NEW k \in {"start", "stop"}, Load(r, d, k)
        PROVE  LoopInv' /\ GoOK'
    <2>1. /\ request' = [request EXCEPT ![r] =
                [stage |-> "loaded", kind |-> k, dir |-> d, gauge |-> current[d]]]
          /\ UNCHANGED <<current, direction, overlapped, terminated, ended, copyVars, pc, loopVars, failed>>
      BY <1>1 DEF Load
    <2>2. TypeOK'
      <3>1. current[d] \in Sessions \cup {None}
        BY <1>0 DEF TypeOK
      <3>2. request' \in [Requests -> [stage : Stages, kind : {"start", "stop"},
                               dir : Directions, gauge : Sessions \cup {None}]]
        BY <1>0, <2>1, <3>1 DEF TypeOK, Stages
      <3> QED BY <1>0, <2>1, <3>2 DEF TypeOK
    <2>3. \A t \in Sessions : Untouched(t)
      BY <2>1 DEF Untouched
    <2>4. GoOK'
      BY <1>0, <2>1 DEF GoOK, TypeOK
    <2> QED BY <1>0, <2>2, <2>3, <2>4, UntouchedOK DEF LoopInv
  <1>2. CASE Terminate(r)
    <2>1. /\ \/ Stage(r, "store") \/ Answered(r)
          /\ terminated' = terminated \cup ({request[r].gauge} \ {None})
          /\ UNCHANGED <<current, direction, overlapped, ended, copyVars, pc, loopVars, failed>>
      BY <1>2 DEF Terminate, OnStart, OnStop
    <2>2. TypeOK'
      <3>1. request' \in [Requests -> [stage : Stages, kind : {"start", "stop"},
                               dir : Directions, gauge : Sessions \cup {None}]]
        <4>1. CASE request' = [request EXCEPT ![r].stage = "store"]
          BY <1>0, <4>1 DEF TypeOK, Stages
        <4>2. CASE request' = [request EXCEPT ![r] = Idle]
          BY <1>0, <4>2 DEF TypeOK, Stages, Idle, Directions
        <4> QED BY <2>1, <4>1, <4>2 DEF Stage, Answered
      <3>2. terminated' \subseteq Sessions
        BY <1>0, <2>1 DEF TypeOK
      <3> QED BY <1>0, <2>1, <3>1, <3>2 DEF TypeOK
    <2>3. \A t \in Sessions : Untouched(t)
      BY <2>1 DEF Untouched
    <2>4. GoOK'
      BY <1>0, <2>1 DEF GoOK, TypeOK, Stage, Answered, Idle
    <2> QED BY <1>0, <2>2, <2>3, <2>4, UntouchedOK DEF LoopInv
  <1>3. CASE StoreGauge(r)
    <2>1. PICK s \in Sessions \ Made :
            /\ current' = [current EXCEPT ![request[r].dir] = s]
            /\ direction' = [direction EXCEPT ![s] = request[r].dir]
            /\ request' = [request EXCEPT ![r] =
                 [stage |-> "go", kind |-> "start", dir |-> request[r].dir, gauge |-> s]]
      BY <1>3 DEF StoreGauge
    <2>2. /\ UNCHANGED <<terminated, ended, copyVars, pc, loopVars, failed>>
          /\ overlapped' \subseteq Sessions
      BY <1>0, <1>3 DEF StoreGauge, TypeOK
    <2>3. request[r].dir \in Directions /\ pc[s] = "none"
      BY <1>0, <2>1 DEF TypeOK, Made
    <2>4. TypeOK'
      <3>1. request' \in [Requests -> [stage : Stages, kind : {"start", "stop"},
                               dir : Directions, gauge : Sessions \cup {None}]]
        BY <1>0, <2>1, <2>3 DEF TypeOK, Stages
      <3>2. current' \in [Directions -> Sessions \cup {None}]
            /\ direction' \in [Sessions -> Directions]
        BY <1>0, <2>1, <2>3 DEF TypeOK
      <3> QED BY <1>0, <2>2, <3>1, <3>2 DEF TypeOK
    <2>5. \A t \in Sessions \ {s} : Untouched(t)
      BY <1>0, <2>1, <2>2 DEF Untouched, TypeOK
    <2>6. SessionOK(s)'
      <3>1. SessionOK(s) /\ transBytes[s] \in Nat /\ n[s] \in Nat
        BY <1>0 DEF TypeOK
      <3>2. Most(s)' \in Nat
        BY HttpAssumption DEF Most
      <3> QED BY <2>2, <2>3, <3>1, <3>2 DEF SessionOK, CountAgrees, HeardOK, Early, Over
    <2>7. GoOK'
      BY <1>0, <2>1, <2>2, <2>3 DEF GoOK, TypeOK, Made
    <2> QED BY <1>0, <2>4, <2>5, <2>6, <2>7, UntouchedOK DEF LoopInv
  <1>4. CASE GoFtp(r)
    <2>1. PICK s \in Sessions : s = request[r].gauge /\ pc[s] = "none"
      BY <1>4 DEF GoFtp, GoOK
    <2>2. /\ pc' = [pc EXCEPT ![s] = "dial"] /\ request' = [request EXCEPT ![r] = Idle]
          /\ UNCHANGED <<current, direction, overlapped, terminated, ended, copyVars, loopVars, failed>>
      BY <1>4, <2>1 DEF GoFtp, GoTo, Answered
    <2>3. TypeOK'
      <3>1. request' \in [Requests -> [stage : Stages, kind : {"start", "stop"},
                               dir : Directions, gauge : Sessions \cup {None}]]
        BY <1>0, <2>2 DEF TypeOK, Stages, Idle, Directions
      <3>2. pc' \in [Sessions -> PCs]
        BY <1>0, <2>2 DEF TypeOK, PCs
      <3> QED BY <1>0, <2>2, <3>1, <3>2 DEF TypeOK
    <2>4. \A t \in Sessions \ {s} : Untouched(t)
      BY <1>0, <2>2 DEF Untouched, TypeOK
    <2>5. pc'[s] = "dial"
      BY <1>0, <2>2 DEF TypeOK
    <2>6. SessionOK(s)'
      BY <1>0, <2>1, <2>2, <2>5 DEF SessionOK, Most, CountAgrees, HeardOK, Early, Over
    <2>7. GoOK'
      BY <1>0, <1>4, <2>1, <2>2 DEF GoOK, TypeOK, Idle, GoFtp
    <2> QED BY <1>0, <2>3, <2>4, <2>6, <2>7, UntouchedOK DEF LoopInv
  <1> QED BY <1>1, <1>2, <1>3, <1>4 DEF Handle
-----------------------------------------------------------------------------
(* What relates the requests and the gauges *)

LEMMA ReachInit == Init => GoOK /\ ReachInv
  <1> SUFFICES ASSUME Init PROVE GoOK /\ ReachInv
    OBVIOUS
  <1>1. TypeOK
    BY LoopInit DEF LoopInv
  <1>2. \A r \in Requests : request[r].stage = "idle"
    BY DEF Init, Idle
  <1>3. GoOK /\ \A r \in Requests : RequestOK(r)
    BY <1>2 DEF GoOK, RequestOK
  <1>4. OnlyCurrentRuns
    BY DEF Init, OnlyCurrentRuns, Running
  <1> QED BY <1>1, <1>3, <1>4 DEF ReachInv

LEMMA SessionReach ==
  ASSUME GoOK, ReachInv, NEW s \in Sessions, Session(s)
  PROVE  (\A r \in Requests : RequestOK(r)') /\ OnlyCurrentRuns'
  <1>0. TypeOK /\ (\A r \in Requests : RequestOK(r)) /\ OnlyCurrentRuns
    BY DEF ReachInv
  <1>1. PICK l \in PCs \ {"none"} : pc' = [pc EXCEPT ![s] = l]
    BY <1>0, SessionFrame
  <1>2. UNCHANGED <<current, request, direction, overlapped, terminated>> /\ Running(s)
    BY <1>0, SessionFrame
  <1>3. \A r \in Requests : RequestOK(r)'
    BY <1>0, <1>2 DEF RequestOK
  <1>4. OnlyCurrentRuns'
    BY <1>0, <1>1, <1>2 DEF OnlyCurrentRuns, TypeOK, Running
  <1> QED BY <1>3, <1>4

LEMMA RequestReach ==
  ASSUME GoOK, ReachInv, NEW r \in Requests,
         \/ Handle(r)
         \/ \E d \in Directions, k \in {"start", "stop"} : Load(r, d, k)
  PROVE  (\A q \in Requests : RequestOK(q)') /\ OnlyCurrentRuns'
  <1>0. TypeOK /\ (\A q \in Requests : RequestOK(q)) /\ OnlyCurrentRuns
    BY DEF ReachInv
  <1>1. ASSUME NEW d \in Directions, NEW k \in {"start", "stop"}, Load(r, d, k)
        PROVE  (\A q \in Requests : RequestOK(q)') /\ OnlyCurrentRuns'
    <2>1. /\ request' = [request EXCEPT ![r] =
                [stage |-> "loaded", kind |-> k, dir |-> d, gauge |-> current[d]]]
          /\ UNCHANGED <<current, direction, overlapped, terminated, pc>>
      BY <1>1 DEF Load
    <2>2. ASSUME NEW q \in Requests PROVE RequestOK(q)'
      <3>1. CASE q = r
        <4>1. request'[r] = [stage |-> "loaded", kind |-> k, dir |-> d, gauge |-> current[d]]
          BY <1>0, <2>1 DEF TypeOK
        <4> QED BY <2>1, <3>1, <4>1 DEF RequestOK
      <3>2. CASE q # r
        <4>1. request'[q] = request[q]
          BY <1>0, <2>1, <3>2 DEF TypeOK
        <4> QED BY <1>0, <2>1, <4>1 DEF RequestOK
      <3> QED BY <3>1, <3>2
    <2> QED BY <1>0, <2>1, <2>2 DEF OnlyCurrentRuns, Running
  <1>2. CASE Terminate(r)
    <2>1. /\ request[r].stage = "loaded"
          /\ \/ request[r].kind = "start" /\ request' = [request EXCEPT ![r].stage = "store"]
             \/ request' = [request EXCEPT ![r] = Idle]
          /\ terminated' = terminated \cup ({request[r].gauge} \ {None})
          /\ UNCHANGED <<current, direction, overlapped, pc>>
      BY <1>2 DEF Terminate, OnStart, OnStop, Stage, Answered
    <2>2. ASSUME NEW q \in Requests PROVE RequestOK(q)'
      <3>1. CASE q = r
        <4>1. CASE request' = [request EXCEPT ![r] = Idle]
          BY <1>0, <3>1, <4>1 DEF RequestOK, TypeOK, Idle
        <4>2. CASE /\ request[r].kind = "start"
                   /\ request' = [request EXCEPT ![r].stage = "store"]
          <5>1. /\ request'[r].stage = "store" /\ request'[r].kind = "start"
                /\ request'[r].dir = request[r].dir
                /\ request'[r].gauge = request[r].gauge
            BY <1>0, <4>2 DEF TypeOK
          <5>2. current[request[r].dir] \in overlapped \/ request[r].gauge = current[request[r].dir]
            BY <1>0, <2>1, <4>2 DEF RequestOK
          <5> QED BY <2>1, <3>1, <5>1, <5>2 DEF RequestOK
        <4> QED BY <2>1, <4>1, <4>2
      <3>2. CASE q # r
        <4>1. request'[q] = request[q]
          BY <1>0, <2>1, <3>2 DEF TypeOK
        <4> QED BY <1>0, <2>1, <4>1 DEF RequestOK
      <3> QED BY <3>1, <3>2
    <2>3. OnlyCurrentRuns'
      BY <1>0, <2>1 DEF OnlyCurrentRuns, Running
    <2> QED BY <2>2, <2>3
  <1>3. CASE StoreGauge(r)
    <2> DEFINE d == request[r].dir
    <2>1. PICK s \in Sessions \ Made :
            /\ current' = [current EXCEPT ![d] = s]
            /\ direction' = [direction EXCEPT ![s] = d]
            /\ request' = [request EXCEPT ![r] =
                 [stage |-> "go", kind |-> "start", dir |-> d, gauge |-> s]]
            /\ overlapped' = IF \E q \in Requests \ {r} : Replacing(q, d)
                             THEN overlapped \cup {s} ELSE overlapped
      BY <1>3 DEF StoreGauge
    <2>2. request[r].stage = "store" /\ UNCHANGED <<terminated, pc>>
      BY <1>3 DEF StoreGauge
    <2>3. pc[s] = "none" /\ d \in Directions
      BY <1>0, <2>1 DEF Made, TypeOK
    (* What the new gauge replaces has been terminated, or has overlapped.    *)
    <2>4. current[d] \in terminated \cup overlapped \cup {None}
      BY <1>0, <2>2 DEF RequestOK
    <2>5. /\ current'[d] = s /\ direction'[s] = d
          /\ \A e \in Directions \ {d} : current'[e] = current[e]
          /\ \A t \in Sessions \ {s} : direction'[t] = direction[t]
      BY <1>0, <2>1, <2>3 DEF TypeOK
    <2>6. overlapped \subseteq overlapped'
      BY <2>1
    <2> HIDE DEF d
    <2>7. ASSUME NEW q \in Requests PROVE RequestOK(q)'
      <3>1. CASE q = r
        <4>1. request'[r] = [stage |-> "go", kind |-> "start", dir |-> d, gauge |-> s]
          BY <1>0, <2>1 DEF TypeOK
        <4> QED BY <2>5, <3>1, <4>1 DEF RequestOK
      <3>2. CASE q # r
        <4>1. request'[q] = request[q] /\ request[q].dir \in Directions
          BY <1>0, <2>1, <3>2 DEF TypeOK
        <4>2. ASSUME request[q].stage \in {"loaded", "store"}, request[q].kind = "start"
              PROVE  \/ current'[request[q].dir] \in overlapped'
                     \/ request[q].gauge = current'[request[q].dir]
          <5>1. CASE request[q].dir = d
            <6>1. Replacing(q, d)
              BY <4>2, <5>1 DEF Replacing
            <6> QED BY <2>1, <2>5, <3>2, <5>1, <6>1
          <5>2. CASE request[q].dir # d
            BY <1>0, <2>5, <2>6, <4>1, <4>2, <5>2 DEF RequestOK
          <5> QED BY <5>1, <5>2
        <4>3. ASSUME request[q].stage = "go"
              PROVE  /\ direction'[request[q].gauge] = request[q].dir
                     /\ \/ request[q].gauge \in terminated' \cup overlapped'
                        \/ current'[request[q].dir] = request[q].gauge
          <5>1. request[q].gauge \in Sessions /\ request[q].gauge # s
            BY <2>1, <4>3 DEF GoOK, Made
          <5>2. request[q].gauge # None
            BY <5>1 DEF Sessions, None
          <5> QED BY <1>0, <2>2, <2>4, <2>5, <2>6, <4>1, <4>3, <5>1, <5>2 DEF RequestOK
        <4> QED BY <1>0, <2>2, <4>1, <4>2, <4>3 DEF RequestOK
      <3> QED BY <3>1, <3>2
    <2>8. ASSUME NEW t \in Sessions, Running(t)'
          PROVE  \/ t \in terminated' \/ current'[direction'[t]] = t
                 \/ t \in overlapped'
      <3>1. Running(t) /\ t # s /\ t # None
        BY <2>2, <2>3, <2>8 DEF Running, None, Sessions
      <3>2. direction'[t] = direction[t] /\ direction[t] \in Directions
        BY <1>0, <2>5, <3>1 DEF TypeOK
      <3>3. t \in terminated \/ t \in overlapped \/ current[direction[t]] = t
        BY <1>0, <3>1 DEF OnlyCurrentRuns
      <3> QED BY <2>2, <2>4, <2>5, <2>6, <3>1, <3>2, <3>3
    <2>9. OnlyCurrentRuns'
      BY <2>8 DEF OnlyCurrentRuns
    <2> QED BY <2>7, <2>9
  <1>4. CASE GoFtp(r)
    <2>1. PICK s \in Sessions : s = request[r].gauge /\ pc[s] = "none"
      BY <1>4 DEF GoFtp, GoOK
    <2>2. /\ pc' = [pc EXCEPT ![s] = "dial"] /\ request' = [request EXCEPT ![r] = Idle]
          /\ UNCHANGED <<current, direction, overlapped, terminated>>
          /\ request[r].stage = "go"
      BY <1>4, <2>1 DEF GoFtp, GoTo, Answered
    <2>3. s \in terminated \cup overlapped \/ current[direction[s]] = s
      BY <1>0, <2>1, <2>2 DEF RequestOK
    <2>4. ASSUME NEW q \in Requests PROVE RequestOK(q)'
      <3>1. CASE q = r
        BY <1>0, <2>2, <3>1 DEF RequestOK, TypeOK, Idle
      <3>2. CASE q # r
        <4>1. request'[q] = request[q]
          BY <1>0, <2>2, <3>2 DEF TypeOK
        <4> QED BY <1>0, <2>2, <4>1 DEF RequestOK
      <3> QED BY <3>1, <3>2
    <2>5. OnlyCurrentRuns'
      BY <1>0, <2>2, <2>3 DEF OnlyCurrentRuns, Running, TypeOK
    <2> QED BY <2>4, <2>5
  <1> QED BY <1>1, <1>2, <1>3, <1>4 DEF Handle
-----------------------------------------------------------------------------
LEMMA LoopAlways == Spec => [](LoopInv /\ GoOK)
  <1>1. Init => LoopInv /\ GoOK
    BY LoopInit, ReachInit
  <1>2. LoopInv /\ GoOK /\ [Next]_vars => (LoopInv /\ GoOK)'
    <2> SUFFICES ASSUME LoopInv, GoOK, [Next]_vars PROVE (LoopInv /\ GoOK)'
      OBVIOUS
    <2>1. CASE UNCHANGED vars
      BY <2>1 DEF vars, LoopInv, GoOK, TypeOK, SessionOK, CountAgrees, HeardOK, Most
    <2>2. ASSUME NEW r \in Requests,
                 \/ Handle(r)
                 \/ \E d \in Directions, k \in {"start", "stop"} : Load(r, d, k)
          PROVE  (LoopInv /\ GoOK)'
      BY <2>2, RequestInv
    <2>3. ASSUME NEW s \in Sessions, Session(s) PROVE (LoopInv /\ GoOK)'
      BY <2>3, SessionInv, SessionKeepsGo DEF LoopInv
    <2> QED BY <2>1, <2>2, <2>3 DEF Next
  <1> QED BY <1>1, <1>2, PTL DEF Spec

(* Every variable keeps its type (HttpSession): in particular Retrieve and  *)
(* Store never count more than the server can send.                         *)
THEOREM TypeCorrect == Spec => []TypeOK
  <1>1. LoopInv => TypeOK
    BY DEF LoopInv
  <1> QED BY <1>1, LoopAlways, PTL

(* Gauge.terminate costs an upload, and a download from a server that       *)
(* cannot resume, at most one more buffer, whatever the requests do.        *)
THEOREM StopHeard == Spec => []StopIsHeard
  <1>1. LoopInv => StopIsHeard
    <2> SUFFICES ASSUME LoopInv, NEW s \in Sessions PROVE late[s] <= 1 \/ canResume[s]
      BY DEF StopIsHeard
    <2>1. HeardOK(s) /\ late[s] \in Nat
      BY DEF LoopInv, SessionOK, TypeOK
    <2> QED BY <2>1 DEF HeardOK
  <1> QED BY <1>1, LoopAlways, PTL

(* The bytes status shows (g.TransBytes) are the bytes of the transfers,    *)
(* over every resumed transfer of Retrieve.                                 *)
THEOREM CountsAlwaysAgree == Spec => []CountsAgree
  <1>1. LoopInv => CountsAgree
    BY DEF LoopInv, SessionOK, CountsAgree
  <1> QED BY <1>1, LoopAlways, PTL

(* A session of perf.go's ftp that ends without an error has moved the      *)
(* whole file, however many transfers it took and whenever it was stopped.  *)
THEOREM SuccessIsComplete == Spec => []NoErrorMeansComplete
  <1>1. LoopInv => NoErrorMeansComplete
    BY DEF LoopInv, SessionOK, NoErrorMeansComplete, TypeOK, Over
  <1> QED BY <1>1, LoopAlways, PTL

(* However many goroutines serve start, restart and stop (http.go), a       *)
(* session that runs is the current one of its handler or has been told to  *)
(* stop, unless its gauge was stored while another start was between its    *)
(* load and its store.                                                      *)
THEOREM OnlyCurrent == Spec => []OnlyCurrentRuns
  <1>1. Init => GoOK /\ ReachInv
    BY ReachInit
  <1>2. LoopInv' /\ GoOK /\ ReachInv /\ [Next]_vars => ReachInv'
    <2> SUFFICES ASSUME LoopInv', GoOK, ReachInv, [Next]_vars PROVE ReachInv'
      OBVIOUS
    <2>0. TypeOK'
      BY DEF LoopInv
    <2>1. CASE UNCHANGED vars
      BY <2>0, <2>1 DEF vars, ReachInv, RequestOK, OnlyCurrentRuns, Running
    <2>2. ASSUME NEW r \in Requests,
                 \/ Handle(r)
                 \/ \E d \in Directions, k \in {"start", "stop"} : Load(r, d, k)
          PROVE  ReachInv'
      BY <2>0, <2>2, RequestReach DEF ReachInv
    <2>3. ASSUME NEW s \in Sessions, Session(s) PROVE ReachInv'
      BY <2>0, <2>3, SessionReach DEF ReachInv
    <2> QED BY <2>1, <2>2, <2>3 DEF Next
  <1>3. ReachInv => OnlyCurrentRuns
    BY DEF ReachInv
  <1> QED BY <1>1, <1>2, <1>3, LoopAlways, PTL DEF Spec
=============================================================================
