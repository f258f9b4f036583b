CONSTANTS
  heroes = heroes items = items
  Bad = Bad
  None = None
  Table = {heroes, items}
  MaxCalls = 4
  Definable <- MCDefinable
  Files <- MCFiles
  MaxChunks = 5
  Chunk <- MCChunk
  Types <- MCTypes
  Shared = {"int", "string"}
  Indexes = {"unordered_unique", "ordered_unique"}
  Others = {"unique"}
  MaxColumns = 3
  MaxObjects = 2
  MaxProps = 2
  Moves <- TwoMoves
  MaxGain = 1
  MaxDepth = 2
  Vertices = {v1, v2, v3, v4}
SPECIFICATION ToolsSpec
INVARIANTS PassesRight FailuresRight CellsRight DumpsWhatWasAsked ThinkCorrect VisitsInOrder
CHECK_DEADLOCK FALSE
