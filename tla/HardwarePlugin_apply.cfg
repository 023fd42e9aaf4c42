\* Profiles are applied, fail and are applied again while the status is
\* published and the daemon crashes.
SPECIFICATION Spec
CONSTANTS
  None = None
  Text = Text
  Profiles <- MCProfiles
  clockIdOf <- MCClockIdOf
  BoardPins <- MCBoardPins
  RefusingPins <- MCRefusingPins
  Publishers = {p1, p2}
  MaxUpdates = 2
  MaxCrashes = 1
SYMMETRY Symmetry
INVARIANTS
  PinsAreAdjusted
  DpllIsOfItsCard
PROPERTIES
  OtherPinsAreLeft
  StatusNeverOlder
