CONSTANTS
  Threshold = 1
  Window = 1
  Cooldown = 1
  Caller = {}
  Closer = {k1, k2}
  Address = {p1}
  Garbled = {}
  None = None
SPECIFICATION Spec
INVARIANTS NoPanic
