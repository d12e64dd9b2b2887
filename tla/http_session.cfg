SPECIFICATION Spec
CONSTANTS
  r1 = r1
  r2 = r2
  Starters = {r1, r2}
  Stoppers = {r2}
  FileLength = 2
  Surplus = 1
  MaxSessions = 2
INVARIANTS
  OnlyCurrentRuns
  StopIsHeard
  CountsAgree
  NoErrorMeansComplete
PROPERTIES
  SessionsEnd
