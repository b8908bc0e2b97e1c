SPECIFICATION Spec
CONSTANTS
  onnx = onnx
  ollama = ollama
  cli = cli
  server = server
  c1 = c1
  Proc = {cli, server}
  May <- MayFull
  Chunk = {c1}
  Embedder = {onnx, ollama}
  Kind <- MCKind
  DefaultOf = onnx
  Mock = Mock
  DefaultDims = 1
  OldVersion = {}
  Happens <- Edits
  None = None
INVARIANTS
  RebuiltIsServable
CHECK_DEADLOCK FALSE
