----------------------------- MODULE MCGMState ------------------------------
(* Model values and bounds for checking GMState with TLC.                  *)
EXTENDS GMState

CONSTANTS i1, i2

MCOneIface  == {i1}
MCTwoIfaces == {i1, i2}

(* No producer sets FrequencyTraceable. *)
MCNotTraceable == {FALSE}
=============================================================================
