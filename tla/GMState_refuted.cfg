\* Statements TLC refutes, one at a time: the one that is not a comment.
SPECIFICATION Spec
CONSTANTS
  i1 = i1
  i2 = i2
  NoIface = NoIface
  Ifaces <- MCTwoIfaces
  GnssIfaces <- MCOneIface
  MaxTime = 0
  Traceable <- MCNotTraceable
INVARIANT FreerunWithoutDpll
\* INVARIANT OutOfSpecIsClass140
