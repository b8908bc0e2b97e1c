SPECIFICATION AutoSyncSpec
CONSTANTS
  v1 = v1
  v2 = v2
  vb = vb
  s1 = s1
  s2 = s2
  a = a
  b = b
  up = up
  down = down
  Watch = Watch
  Catchup = Catchup
  Runner = {Watch, Catchup}
  File = {f, g}
  Version <- MCVersion2
  Readable <- MCVersion2
  Slot <- MCSlot
  Text <- MCText
  Context <- MCContext
  Layout <- MCLayout2
  Size <- MCSize2
  BatchSize = 1
  CanFail = FALSE
  Returning = {}
  CanStop = FALSE
  Offline <- Writes
  Online <- Moves
  CanRace = FALSE
  MaxBacklog = 1
  MaxMtime = 1
INVARIANTS
  GoneIsOnItsWay
CHECK_DEADLOCK FALSE
