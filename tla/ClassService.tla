---------------------------- MODULE ClassService ----------------------------
(***************************************************************************)
(* What the announcement of the clock class promises to the rest of the    *)
(* daemon, without the goroutines, the channel and pmc: a class that the   *)
(* grandmaster does not believe to be announced is asked for; what ptp4l   *)
(* announces is the class it started with or one that was asked for, and   *)
(* what is believed changes only to what ptp4l has confirmed.              *)
(***************************************************************************)
CONSTANTS
  Class,     \* clock classes
  NoClass,   \* no class has been computed, or announced
  Default    \* the class ptp4l announces when it starts

VARIABLES
  wanted,     \* the class the grandmaster computed last
  asked,      \* classes that were asked for and may still be announced
  announced,  \* the class ptp4l announces
  believed    \* the class the grandmaster believes is announced

vars == <<wanted, asked, announced, believed>>

Init ==
  /\ wanted = NoClass
  /\ asked = {}
  /\ announced = Default
  /\ believed = NoClass

(* A request has been dealt with; another for the same class may be left.  *)
Settle(c) ==
  /\ c \in asked
  /\ asked' \in {asked, asked \ {c}}

(* The grandmaster computes a class.  It asks for a class other than the   *)
(* one it believes in, and may ask for that one again.                     *)
Want(c) ==
  /\ wanted' = c
  /\ asked' \in {asked, asked \cup ({c} \ {NoClass})}
  /\ c \notin {believed, NoClass} => c \in asked'
  /\ UNCHANGED <<announced, believed>>

(* A request is dropped or fails.                                          *)
Lose(c) ==
  /\ Settle(c)
  /\ UNCHANGED <<wanted, announced, believed>>

(* A request succeeds.                                                     *)
Announce(c) ==
  /\ Settle(c)
  /\ announced' = c
  /\ believed' = c
  /\ UNCHANGED wanted

(* A request succeeds and nobody learns of it.                             *)
AnnounceUnheard(c) ==
  /\ Settle(c)
  /\ announced' = c
  /\ UNCHANGED <<wanted, believed>>

(* ptp4l announces the class already.                                      *)
Confirm(c) ==
  /\ Settle(c)
  /\ announced = c
  /\ believed' = c
  /\ UNCHANGED <<wanted, announced>>

Restart ==
  /\ announced' = Default
  /\ UNCHANGED <<wanted, asked, believed>>

Next ==
  \/ \E c \in Class :
       Want(c) \/ Lose(c) \/ Announce(c) \/ AnnounceUnheard(c) \/ Confirm(c)
  \/ Restart

Spec == Init /\ [][Next]_vars
=============================================================================
