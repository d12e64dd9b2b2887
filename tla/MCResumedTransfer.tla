------------------------ MODULE MCResumedTransfer ------------------------
(* A small instance for TLC: three connections of the client, one of another  *)
(* user.                                                                    *)
EXTENDS ResumedTransfer

CONSTANTS c1, c2, c3, o1
=============================================================================
