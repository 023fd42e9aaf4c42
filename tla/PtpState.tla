------------------------------ MODULE PtpState ------------------------------
(***************************************************************************)
(* Constants of pkg/event shared by the modules: the PTP states, the       *)
(* processes that report them and the clock classes of the grandmaster.    *)
(***************************************************************************)

(* PTPState *)
FREERUN  == "s0"
HOLDOVER == "s1"
LOCKED   == "s2"
UNKNOWN  == "-1"
NOTSET   == "-2"

(* EventSource *)
GNSS   == "gnss"
DPLL   == "dpll"
TS2PHC == "ts2phc"
PPS    == "1pps"

(* fbprotocol.ClockClass, and its extensions in pkg/protocol *)
ClassUninitialized == 0
ClassLocked        == 6
ClassHoldover      == 7
ClassOutOfSpec     == 140
ClassFreerun       == 248

Classes == {ClassUninitialized, ClassLocked, ClassHoldover, ClassOutOfSpec,
            ClassFreerun}
=============================================================================
