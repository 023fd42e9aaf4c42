--------------------------- MODULE MCGnssMonitor ----------------------------
(* Bounds for checking GnssMonitor with TLC.                               *)
EXTENDS GnssMonitor

CONSTANTS u1, u2, u3

MCTwoTools == {u1, u2}
MCThreeTools == {u1, u2, u3}
MCHeaders == {"NAV-STATUS", "NAV-CLOCK"}
MCStatus == {"NAV-STATUS"}
MCAlways == {TRUE}
MCBoth == BOOLEAN
=============================================================================
