------------------------------ MODULE MCSyncE -------------------------------
(* Bounds for checking SyncE with TLC.                                     *)
EXTENDS SyncE

CONSTANTS p1, p2, d1, d2

MCPorts == {p1, p2}
MCDeviceNames == {d1, d2}
Dev(n, o, t) == [kind |-> "device", name |-> n, option |-> o, tlv |-> t]
Port(p) == [kind |-> "port", name |-> p]

(* One device with two ports, and two devices of different kinds.          *)
MCConfigs ==
  {<<Dev(d1, 1, 1), Port(p1), Port(p2)>>,
   <<Dev(d1, 2, 0), Port(p1), Dev(d2, 1, 1), Port(p2)>>}

(* Level 1 is of option 2 only, level 2 of option 1.  Two of them differ in *)
(* both parts, so that what is put together wrongly is none of them.       *)
MCLevels == {<<1, 255>>, <<2, 32>>, <<2, 255>>}
MCEECStates == {"EEC_LOCKED_HO_ACQ"}
=============================================================================
