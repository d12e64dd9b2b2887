CONSTANTS
  w1 = w1
  w2 = w2
  w3 = w3
  Workers = {w1, w2}
  Methods = {"download"}
  FileLength = 7
  Threshold = 3
  Chunk = 2
  Word = 16
  HasDeadline = FALSE
  MayFail = TRUE
SPECIFICATION Spec
INVARIANT ResumesFailedPieces
