---------------------------- MODULE MCHttpSession ----------------------------
(* Two requests served at once, both of which may start sessions and one of *)
(* which may stop them.                                                     *)
EXTENDS HttpSession

CONSTANTS r1, r2
=============================================================================
