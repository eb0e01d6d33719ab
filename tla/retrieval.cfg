\* Every document of up to five lines, every store of up to four chunks.
SPECIFICATION Spec
CONSTANTS
  MaxChars = 8
  Limit = 2
  MaxLines = 5
  MaxStored = 4
INVARIANTS
  ChunksKeepText
  ChunksFit
  SectionsEnclose
  ContextHoldsTheBest
\* The longest inputs are written to the end.
CHECK_DEADLOCK FALSE
