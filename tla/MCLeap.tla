------------------------------- MODULE MCLeap -------------------------------
(* Bounds for checking Leap with TLC.                                      *)
EXTENDS Leap

MCUpToDate == {0}
MCOutdated == {0, 1}
MCPositive == {1}
MCBothChanges == {-1, 1}
=============================================================================
