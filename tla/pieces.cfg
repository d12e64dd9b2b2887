CONSTANTS
  w1 = w1
  w2 = w2
  w3 = w3
  Workers = {w1, w2, w3}
  Methods = {"download", "upload"}
  FileLength = 8
  Threshold = 5
  Chunk = 2
  Word = 16
  HasDeadline = TRUE
  MayFail = TRUE
SPECIFICATION Spec
INVARIANTS TypeOK Accounted Disjoint NothingSkipped CountedOnce SourceNeverDry
PROPERTY WorkersFinish
