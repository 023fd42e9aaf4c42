---------------------------- MODULE MCClockClass ----------------------------
(* Model values and bounds for checking ClockClass with TLC.               *)
EXTENDS ClockClass

CONSTANTS s1, s2

MCOneSender  == {s1}
MCTwoSenders == {s1, s2}

(* Offsets of a DPLL in holdover up to 100 ns, and above. *)
MCAccuracies == {Accuracy100ns, "us1"}
MCOneAccuracy == {"us1"}

(* Class 140 needs a traceable frequency, which no producer reports. *)
MCWantedClasses ==
  {ClassUninitialized, ClassLocked, ClassHoldover, ClassFreerun}

(* A grandmaster's ptp4l is configured with clockClass 248. *)
MCPtp4lDefault == [class |-> ClassFreerun, accuracy |-> AccuracyUnknown]

MCFewClasses == {ClassUninitialized, ClassHoldover, ClassFreerun}
=============================================================================
