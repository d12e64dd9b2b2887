---------------------------- MODULE MCFtpSession ----------------------------
(* A small session for TLC: one address, and the goroutines of the session. *)
EXTENDS FtpSession

CONSTANT h1

OneHost == <<h1>>
Goroutines == {Main} \cup TransferWorkers
=============================================================================
