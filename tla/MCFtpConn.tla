------------------------------ MODULE MCFtpConn ------------------------------
(* The operations of one connection, for TLC.                               *)
EXTENDS FtpConn

AllOps == {"download", "upload", "resume", "list", "size", "rename"}
=============================================================================
