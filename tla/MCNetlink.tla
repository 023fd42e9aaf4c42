------------------------------ MODULE MCNetlink ------------------------------
(* Bounds for checking Netlink with TLC: the monitored card has both DPLLs *)
(* and two pins that the filter tells apart, and there is another card.    *)
EXTENDS Netlink

MCEec == [clockId |-> "own", type |-> "eec"]
MCDevices ==
  {MCEec, [clockId |-> "own", type |-> "pps"], [clockId |-> "other", type |-> "eec"]}
MCPins ==
  {[clockId |-> "own", boardLabel |-> label, panelLabel |-> ""] :
     label \in {"GNSS-1PPS", "SMA1"}}
MCFilter == [boardLabel |-> "GNSS-1PPS"]

(* A message older than a dump takes two changes after the first status.   *)
MCChanges == [s \in MCDevices \cup MCPins |-> IF s = MCEec THEN 3 ELSE 2]
=============================================================================
