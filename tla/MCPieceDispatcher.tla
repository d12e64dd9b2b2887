-------------------------- MODULE MCPieceDispatcher --------------------------
(* Small sessions for TLC, of two or three worker goroutines.               *)
EXTENDS PieceDispatcher

CONSTANTS w1, w2, w3
=============================================================================
