CONSTANTS
  p1 = p1
  s1 = s1
  s2 = s2
  k1 = k1
  Process = {p1}
  Slot = {s1, s2}
  Host <- MCHost
  ApiKey = {k1}
  Ended <- MCEnded
  Checked <- MCChecked
  NoKey = NoKey
  Null = Null
  UnhealthyAfter = 3
  MaxRuns = 4
  MaxCount = 2
SPECIFICATION Spec
INVARIANTS HealthTypeOK BlamedKeyFailed
PROPERTIES RecoveryIsShown FailureIsShown
