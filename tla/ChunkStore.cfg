SPECIFICATION Spec
CONSTANTS
  a1 = a1
  a2 = a2
  b1 = b1
  fa = fa
  fb = fb
  ChunkId <- MCChunkId
  Path <- MCPath
  FileOf <- MCFileOf
  Text = {t, u}
  Conn = {c1, c2}
  CanAbort = TRUE
  CanRecreate = TRUE
  MaxVec = 2
  MaxRowid = 3
INVARIANTS
  TypeOK
  VectorMatchesText
  MappingIsOwned
  ChunkIsFindable
PROPERTIES
  OnlyDeletionsHide
SYMMETRY Symm
CHECK_DEADLOCK FALSE
