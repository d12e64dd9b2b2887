SPECIFICATION Spec
CONSTANTS
  w1 = w1
  w2 = w2
  w3 = w3
  Workers = {w1, w2, w3}
  Sizes <- SmallAndLarge
  Repeats = 2
  Surplus = 1
  MaxAsk <- TwoUnits
  NumServers = 4
  Closest = 3
INVARIANTS
  DownloadIsWhatCame
  MovesWhatWasAskedFor
  NobodyLeftBehind
PROPERTY TestEnds
CHECK_DEADLOCK FALSE
