\* Statements TLC refutes, one at a time: the one that is not a comment.
SPECIFICATION Spec
CONSTANTS
  f1 = f1
  f2 = f2
  n1 = n1
  n2 = n2
  n3 = n3
  c1 = c1
  c2 = c2
  NoIface = NoIface
  Profiles <- MCProfiles
  Names <- MCNames
  ProfileOf <- MCProfileOf
  Alias <- MCAlias
  Running <- MCRunning
  MaxLog = 1
INVARIANT LockedHasSlave
\* INVARIANT NoCardLockedAfterFault  \* with Alias <- MCTwoCards
\* INVARIANT RoleIsKnown
\* INVARIANT FaultyOffsetIsShown
CHECK_DEADLOCK FALSE
