\* Each component on a small instance.  Several of them end: a run over, a file
\* chunked, a model loaded, a command that has exited.
SPECIFICATION ToolSpec
CONSTANTS
  MaxTexts = 5
  BatchSize = 3
  RequestSize = 2
  MaxRetries = 2
  Concurrency = 2
  LongTexts = {1}
  Tokens <- MCTokens
  MaxTokens = 2

  Sources <- MCSources
  Overlaps = {0, 1, 3}
  MinChunk = 2
  MaxChunk = 4
  LineWindow = 3
  MaxLines = 4

  GraphFiles = {1, 2}
  GraphSymbols <- MCSymbols
  Stem <- MCStem
  Contents <- MCContents
  Limits = {1, 3}
  Lowered <- MCLowered

  Process = {1, 2}
  Pieces = 2

  Ids = {1, 2}
  Owner <- MCOwner
  Texts = {1, 2}
  NoText = 0
  MaxVectors = 2
  MaxRows = 2

  Agents <- MCAgents
  Local = {1}
  Docs = {1}
  Projects = {1, 2}
  Servers = {1}
  MaxEdits = 1

  Upgrades = {1}
  MaxVersion = 2
  MaxBuilds = 2
  BadBuilds <- MCBadBuilds

  Corpora = {1, 2}
  Bases = {0, 100}
  Offsets <- MCOffsets
  SloLimit = 149
  RoundsIn <- MCRoundsIn

  Repos = {1, 2}
  Paths <- MCPaths
  Extensions <- MCExtensions
  Scores = {1, 2}
  Grades = {0, 1}
  Symbols = {1}
  Few = 1
  Many = 2
  MaxChunks = 3
  Discounts <- MCDiscounts
  Latencies = {1, 2}
  MaxSamples = 21
INVARIANTS
  RetriesAreSpent
  ChunksAreWhereTheySay
  NeighboursStayTogether
  GraphIsOfTheFiles
  AnswersAreOfTheFiles
  CachedIsWhole
  OtherServersSurvive
  OnlyVerifiedReplaces
  ExitTellsTheComparison
  MeasuresAreFractions
PROPERTIES
  EmbeddingKeepsItsPromise
  StoresKeepTheContract
CHECK_DEADLOCK FALSE
