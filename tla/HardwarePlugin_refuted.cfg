\* Statements TLC refutes, one at a time: the one that is not a comment.
SPECIFICATION Spec
CONSTANTS
  None = None
  Text = Text
  Profiles <- MCProfiles
  clockIdOf <- MCClockIdOf
  BoardPins <- MCBoardPins
  RefusingPins <- MCRefusingPins
  Publishers = {p1, p2}
  MaxUpdates = 2
  MaxCrashes = 1
INVARIANT NoPanic
\* INVARIANT FiltersAreWhole
\* INVARIANT EachDpllHasItsCard
\* INVARIANT OldAdjustmentsAreRemoved
\* INVARIANT ReportsAreCurrent
