CONSTANTS
  a1 = a1
  a2 = a2
  ip = ip
  tech = tech
  one = one
  two = two
  j1 = j1
  j2 = j2
  w1 = w1
  w2 = w2
  Null = Null
  Asset <- MCAsset
  Key <- MCKey
  Value <- MCValue
  Canon <- MCCanon
  Payload = {}
  Chunk = {}
  MaxDeletions = 1
  Job <- MCJob
  Slot <- MCSlot
  Target <- MCTarget
  Results <- MCResults
  Misrouted = {}
  Root <- MCRoot
  ChunkSize = 2
  MaxAttempts = 2
SPECIFICATION Spec
INVARIANTS JobsTypeOK CompletedIsVisible FeedbackFollowsResult
PROPERTIES ChildrenFollowUpdate DeliveryHolds
CHECK_DEADLOCK FALSE
SYMMETRY SlotSymmetry
