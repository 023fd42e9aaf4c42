-------------------------- MODULE MCHardwarePlugin --------------------------
(* Bounds for checking HardwarePlugin with TLC: two cards with pins of the *)
(* same labels, and two profiles.                                          *)
EXTENDS HardwarePlugin, TLC

CONSTANT Text    \* an option of the reference plugin

MCClockIdOf == [i \in {"ens1", "ens2"} |-> IF i = "ens1" THEN 1 ELSE 2]
MCPin(id, label) == [clockId |-> id, label |-> label]
MCRefusing == MCPin(2, "REF-SMA2/U.FL2")
MCBoardPins == <<MCPin(2, "SMA1"), MCRefusing, MCPin(1, "SMA1"), MCPin(1, "REF-SMA1")>>
MCRefusingPins == {MCRefusing}

MCDelay(id, input, delay, gnss, outputs) ==
  [id |-> id, part |-> KnownPart, input |-> input, inputDelay |-> delay,
   gnssInput |-> gnss, outputs |-> outputs]

(* A grandmaster: GNSS enters one card, whose 1PPS goes out on two         *)
(* connectors of one pin and into the other card.  No pin of the dump has  *)
(* the label of the GNSS input.                                            *)
MCGrandmaster ==
  [pins |-> {"ens1", "ens2"},
   delays |-> <<MCDelay("ens1", None, 0, TRUE, <<"u.FL1", "SMA1">>),
                MCDelay("ens2", "SMA1", 920, FALSE, <<"SMA2">>)>>,
   phaseOffsetPins |-> [i \in {"ens1", "ens2"} |->
                          IF i = "ens1"
                          THEN "boardLabel" :> "GNSS-1PPS" @@ "panelLabel" :> "GNSS"
                          ELSE "boardLabel" :> "SMA1"],
   settings |-> ("MaxInSpecOffset" :> 100),
   pluginSettings |-> ("MaxInSpecOffset" :> 50 @@ "LocalHoldoverTimeout" :> 14400),
   reportOutput |-> TRUE, reference |-> Text, dplls |-> <<"ens1", "ens2">>]

(* The other card is left out of "pins" but not of the rest: its delays    *)
(* cannot be computed and it has no clock ID.                              *)
MCOneCard ==
  [MCGrandmaster EXCEPT !.pins = {"ens1"}, !.reportOutput = FALSE, !.reference = None]

Symmetry == Permutations(Publishers)

MCProfiles == {MCGrandmaster, MCOneCard}
=============================================================================
