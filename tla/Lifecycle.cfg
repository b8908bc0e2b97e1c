SPECIFICATION Spec
CONSTANTS
  onnx = onnx
  ollama = ollama
  cli = cli
  server = server
  c1 = c1
  Proc = {cli, server}
  May <- MayAll
  Chunk = {c1}
  Embedder = {onnx, ollama}
  Kind <- MCKind
  DefaultOf = onnx
  Mock = Mock
  DefaultDims = 1
  OldVersion = {1, 2, 3}
  Happens <- Event
  None = None
INVARIANTS
  
  ConfiguredStaysReadable
  ReadableCanStore
  IndexedIsServable
PROPERTIES
  UpgradeIsComplete
CHECK_DEADLOCK FALSE
