-------------------------- MODULE MCProcessManager --------------------------
(* Configurations for checking ProcessManager with TLC.                    *)
EXTENDS ProcessManager

(* ts2phc with the processes that depend on it.                            *)
MCGMProcs == {"ts2phc", "gpsd", "gpspipe"}
MCGMKind == [p \in MCGMProcs |-> IF p = "ts2phc" THEN "ptp" ELSE p]
MCGMStart == <<"gpsd", "gpspipe", "ts2phc">>
MCGMStop == <<"ts2phc", "gpsd", "gpspipe">>

(* ts2phc with one of them, the one that nobody waits for.                 *)
MCPairProcs == {"ts2phc", "gpspipe"}
MCPairKind == [p \in MCPairProcs |-> MCGMKind[p]]
MCPairStart == <<"gpspipe", "ts2phc">>
MCPairStop == <<"ts2phc", "gpspipe">>

(* The processes of a boundary clock, from two profiles.                   *)
MCTwoProcs == {"ptp4l", "phc2sys"}
MCTwoKind == [p \in MCTwoProcs |-> "ptp"]
MCTwoStart == <<"ptp4l", "phc2sys">>
MCTwoStop == MCTwoStart

MCNoPartial == {}
MCGMPartial == {{}}
MCTwoPartial == {{}, {"ptp4l"}}
=============================================================================
