---------------------------- MODULE MCSpeedTest ----------------------------
(* A small speed test for TLC: two sizes in each test, in units of which a  *)
(* request asks for two.                                                    *)
EXTENDS SpeedTest

CONSTANTS w1, w2, w3

SmallAndLarge == [t \in Tests |-> IF t = "download" THEN <<1, 3>> ELSE <<3>>]
TwoUnits == [t \in Tests |-> 2]
=============================================================================
