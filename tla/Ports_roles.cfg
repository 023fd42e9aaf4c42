\* Two profiles that back each other up, one with two ports.
SPECIFICATION Spec
CONSTANTS
  f1 = f1
  f2 = f2
  n1 = n1
  n2 = n2
  n3 = n3
  c1 = c1
  c2 = c2
  NoIface = NoIface
  Profiles <- MCProfiles
  Names <- MCNames
  ProfileOf <- MCProfileOf
  Alias <- MCAlias
  Running <- MCRunning
  MaxLog = 1
SYMMETRY Symmetry
INVARIANTS
  TypeOK
  SlaveIsTracked
  FaultIsNoticed
  ActiveProfileIsFollowed
CHECK_DEADLOCK FALSE
