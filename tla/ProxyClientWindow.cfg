CONSTANTS
  Threshold = 3
  Window = 1
  Cooldown = 1
  Caller = {}
  Closer = {}
  Address = {p1}
  Garbled = {}
  None = None
SPECIFICATION Spec
INVARIANT ThresholdOpens
