CONSTANTS
  Threshold = 2
  Window = 1
  Cooldown = 1
  Caller = {c1}
  Closer = {k1}
  Address = {p1, bad}
  Garbled = {bad}
  None = None
SPECIFICATION Spec
INVARIANTS ClientTypeOK OneProbe CloseIsAwaited
PROPERTIES OpensForCause CloseEndsLoop HalfOpenResolves CloseReturns
