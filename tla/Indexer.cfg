SPECIFICATION Spec
CONSTANTS
  v1 = v1
  v2 = v2
  vb = vb
  s1 = s1
  s2 = s2
  a = a
  b = b
  up = up
  down = down
  File = {f, g}
  Returning = {g}
  Version <- MCVersion2
  Readable <- MCVersion2
  Slot <- MCSlot
  Text <- MCText
  Context <- MCContext
  Layout <- MCLayout2
  Size <- MCSize2
  Runner = {r}
  BatchSize = 2
  CanFail = TRUE
  MaxMtime = 2
INVARIANTS
  TypeOK
  SkippedFilesAreIndexed
  FullRunMirrors
  ReturnedIsWholeOrHidden
PROPERTIES
  NothingEmbeddedTwice
CHECK_DEADLOCK FALSE
