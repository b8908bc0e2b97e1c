SPECIFICATION AutoSyncSpec
CONSTANTS
  v1 = v1
  v2 = v2
  vb = vb
  s1 = s1
  s2 = s2
  a = a
  b = b
  up = up
  down = down
  Watch = Watch
  Catchup = Catchup
  Runner = {Watch, Catchup}
  File = {f, g}
  Version <- MCVersion
  Readable <- MCReadable
  Slot <- MCSlot
  Text <- MCText
  Context <- MCContext
  Layout <- MCLayout
  Size <- MCSize
  BatchSize = 1
  CanFail = TRUE
  Returning = {}
  CanStop = TRUE
  Offline <- Writes
  Online <- InPlace
  CanRace = FALSE
  MaxBacklog = 1
  MaxMtime = 2
INVARIANTS
  StaleIsOutdated
SYMMETRY Symm
CHECK_DEADLOCK FALSE
