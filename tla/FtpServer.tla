------------------------------ MODULE FtpServer ------------------------------
(***************************************************************************)
(* The drivers of the built-in FTP server (driver.go): MainDriver counts   *)
(* the clients and refuses those above its limit, and each session opens   *)
(* a virtualFile, which has a size, an offset and no content. The library  *)
(* around them calls WelcomeUser when a client arrives, and UserLeft when  *)
(* it leaves, whether or not it was welcome; every client has a goroutine  *)
(* of its own.                                                             *)
(*                                                                         *)
(* The module is meant to be instantiated by one that says what clients do.*)
(* Definitions named after another one with a suffix are seeded bugs.      *)
(***************************************************************************)
EXTENDS Integers, FiniteSets, FiniteSetsExt

CONSTANTS
  Handlers,        \* the goroutines that serve one client each
  MaxConnections,  \* config.MaxConnections: 10
  FileSize         \* sizeFromName of the file that is opened

VARIABLES
  nbClients,  \* driver.nbClients
  phase,      \* what each handler has of WelcomeUser and UserLeft
  offset      \* the offset of the virtualFile of each handler

Init ==
  /\ nbClients = 0
  /\ phase = [h \in Handlers |-> "away"]
  /\ offset = [h \in Handlers |-> 0]

(* atomic.AddInt32 returns the count with this client in it.                *)
AcceptsOneMore(count) == count <= MaxConnections + 1
Accepts(count) == count <= MaxConnections

WelcomeUser(h) ==
  /\ phase[h] = "away"
  /\ nbClients' = nbClients + 1
  /\ phase' = [phase EXCEPT ![h] = IF Accepts(nbClients + 1) THEN "welcome" ELSE "refused"]
  /\ UNCHANGED offset

(* The library calls it for refused clients too.                            *)
UserLeftIfWelcome(h) ==
  /\ phase[h] # "away"
  /\ nbClients' = IF phase[h] = "welcome" THEN nbClients - 1 ELSE nbClients
  /\ phase' = [phase EXCEPT ![h] = "away"]
  /\ offset' = [offset EXCEPT ![h] = 0]

UserLeft(h) ==
  /\ phase[h] # "away"
  /\ nbClients' = nbClients - 1
  /\ phase' = [phase EXCEPT ![h] = "away"]
  /\ offset' = [offset EXCEPT ![h] = 0]

(* OpenFile, and virtualFile.Seek to the restart marker if there is one.    *)
OpenFile(h, marker) ==
  /\ phase[h] = "welcome"
  /\ offset' = [offset EXCEPT ![h] = marker]
  /\ UNCHANGED <<nbClients, phase>>

(* virtualFile.Read: how much a buffer of the given length gets. Nothing is *)
(* io.EOF, also behind the end.                                             *)
Readable(h, length) == Min({length, Max({FileSize - offset[h], 0})})

(* virtualFile.Read and virtualFile.Write of count bytes.                   *)
Advance(h, count) ==
  /\ offset' = [offset EXCEPT ![h] = @ + count]
  /\ UNCHANGED <<nbClients, phase>>
-----------------------------------------------------------------------------
Present == {h \in Handlers : phase[h] # "away"}
Served == {h \in Handlers : phase[h] = "welcome"}

TypeOK ==
  /\ nbClients \in Int
  /\ phase \in [Handlers -> {"away", "welcome", "refused"}]
  /\ offset \in [Handlers -> Nat]

(* WelcomeUser and UserLeft of any number of goroutines: the count is that  *)
(* of the clients there are, refused ones included.                         *)
CountsClients == nbClients = Cardinality(Present)

(* OurSettings: "Maximum number of clients that are allowed to connect at   *)
(* the same time".                                                          *)
WithinLimit == Cardinality(Served) <= MaxConnections
=============================================================================
