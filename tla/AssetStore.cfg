CONSTANTS
  a1 = a1
  a2 = a2
  ip = ip
  tech = tech
  Null = Null
  Asset <- MCAsset
  Key <- MCKey
  Value <- MCValue
  Canon <- MCCanon
  Payload <- MCPayload
  Chunk <- MCChunk
  MaxDeletions = 1
  NaN = "NaN"
  Nil = Nil
  KeyText <- MCKeyText
  Kind <- MCKind
  Severity <- MCSeverity
  Normal <- MCNormal
  Data <- MCData
  MaxFindings = 2
SPECIFICATION MCSpec
INVARIANTS TypeOK FingerprintCoversAttrs SkippedUpsertLosesNothing
           DedupIsSound FingerprintIsMeaning
PROPERTIES ChangesAreAnnounced WritersOnlyAdd
CHECK_DEADLOCK FALSE
