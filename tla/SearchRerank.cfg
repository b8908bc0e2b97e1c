SPECIFICATION Spec
CONSTANTS
  k1 = k1
  k2 = k2
  k3 = k3
  w1 = w1
  w2 = w2
  Key = {k1, k2, k3}
  KeyOrder <- MCKeyOrder
  Matching = {k2, k3}
  Workspace <- MCWorkspace
  Row <- MCRow
  Contents <- MCContents
  PlainRow <- MCPlainRow
  Options <- MCOptions
  Edited <- MCEdited
  RrfK = 1
  TopK = 2
  Scale = 420
  Blur = 0
  MinFetch = 2
  FetchFactor = 2
PROPERTIES
  RerankIsTimed
CHECK_DEADLOCK FALSE
