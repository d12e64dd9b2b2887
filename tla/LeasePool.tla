----------------------------- MODULE LeasePool -----------------------------
(***************************************************************************)
(* What goftp.Client's pool promises its callers, without locks, channels  *)
(* or counters: every connection that exists is either idle or leased to   *)
(* exactly one goroutine, no host ever has more than ConnectionsPerHost of *)
(* them, and a connection that was dropped never comes back, because       *)
(* indices are never used twice. ConnPool is shown to implement it.        *)
(***************************************************************************)
EXTENDS Integers, FiniteSets

CONSTANTS Workers, HostSet, ConnectionsPerHost

VARIABLES
  lease,    \* for each connection [idx, host] that exists, the goroutines that have it
  lastIdx   \* the index given to the last connection opened

OnHost(h) == {c \in DOMAIN lease : c.host = h}
LeasedTo(w) == {c \in DOMAIN lease : w \in lease[c]}
Idle == {c \in DOMAIN lease : lease[c] = {}}

Init == lease = <<>> /\ lastIdx = 0

(* A goroutine without a connection opens one on a host below its limit.    *)
Open(w) ==
  /\ LeasedTo(w) = {}
  /\ lastIdx' = lastIdx + 1
  /\ \E h \in HostSet :
       /\ Cardinality(OnHost(h)) < ConnectionsPerHost
       /\ LET new == [idx |-> lastIdx + 1, host |-> h] IN
          lease' = [c \in DOMAIN lease \cup {new} |-> IF c = new THEN {w} ELSE lease[c]]

(* It takes over an idle one instead, ...                                   *)
Take(w) ==
  /\ LeasedTo(w) = {}
  /\ \E c \in Idle : lease' = [lease EXCEPT ![c] = {w}]
  /\ UNCHANGED lastIdx

(* ... and later gives it back ...                                          *)
Give(w) ==
  /\ \E c \in LeasedTo(w) : lease' = [lease EXCEPT ![c] = {}]
  /\ UNCHANGED lastIdx

(* ... or ends it.                                                          *)
Discard(w) ==
  /\ \E c \in LeasedTo(w) : lease' = [d \in DOMAIN lease \ {c} |-> lease[d]]
  /\ UNCHANGED lastIdx

Next == \E w \in Workers : Open(w) \/ Take(w) \/ Give(w) \/ Discard(w)

Spec == Init /\ [][Next]_<<lease, lastIdx>>
=============================================================================
