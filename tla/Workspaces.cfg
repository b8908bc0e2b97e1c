SPECIFICATION FairSpec
CONSTANTS
  a = a
  b = b
  pa = pa
  pb = pb
  Root = {a, b}
  Cwd = a
  Named <- MCNamed
  Order <- MCOrder
  Path = {pa, pb}
  FilesOf <- MCFilesOf
  SpotOf <- MCSpotOf
  Call = {c1, c2}
  MaxVersion = 4
  MaxWorkers = 2
  Edited = {a}
  Hitches <- AllHitches
INVARIANTS
  StaleIsBeingSynced
PROPERTIES
  UnlistedIsHandled
  EveryCallAnswered
CHECK_DEADLOCK FALSE
