------------------------------- MODULE MCDpll -------------------------------
(* Bounds for checking Dpll with TLC.  Goroutines and channels are strings *)
(* so that the threads form one set.                                       *)
EXTENDS Dpll

MCOneSlot  == {"h1"}
MCChans    == {"c1", "c2", "c3", "c4"}

(* The setups.                                                             *)
MCGnssSysfs   == <<GNSS, "sysfs">>
MCGnssNetlink == <<GNSS, "netlink">>
MCPpsNetlink  == <<PPS, "netlink">>
MCSysfs   == {MCGnssSysfs}
MCNetlink == {MCGnssNetlink}
MCBoth    == {MCGnssSysfs, MCPpsNetlink}

(* With a frequency that stays locked the phase decides alone.  On 1PPS    *)
(* the DPLL has few states, so that every status is reported.              *)
MCPhase ==
  [s \in {MCGnssSysfs, MCGnssNetlink} |-> {StFreerun, StLocked, StLockedHo, StHoldover}]
MCSysfsPhase   == [s \in MCSysfs |-> MCPhase[s]]
MCNetlinkPhase == [s \in MCNetlink |-> MCPhase[s]]
MCSysfsFreq    == [s \in MCSysfs |-> {StLockedHo}]
MCNetlinkFreq  == [s \in MCNetlink |-> {StLockedHo}]
MCBothPhase ==
  [s \in MCBoth |-> IF s = MCGnssSysfs THEN {StFreerun, StLockedHo} ELSE Statuses]
MCBothFreq ==
  [s \in MCBoth |-> IF s = MCGnssSysfs THEN {StLockedHo} ELSE {StInvalid, StLockedHo}]
=============================================================================
