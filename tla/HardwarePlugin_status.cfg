\* What is published in the end.
SPECIFICATION FairSpec
CONSTANTS
  None = None
  Text = Text
  Profiles <- MCProfiles
  clockIdOf <- MCClockIdOf
  BoardPins <- MCBoardPins
  RefusingPins <- MCRefusingPins
  Publishers = {p1, p2}
  MaxUpdates = 1
  MaxCrashes = 0
PROPERTIES
  StatusIsPublished
