CONSTANTS
    NaN = "NaN"
    Nil = Nil
    KeyText <- MCKeyText
    Kind <- MCKind
    Severity <- MCSeverity
    Normal <- MCNormal
    Data <- MCData
    MaxFindings = 2
SPECIFICATION Spec
INVARIANT KindIsNormalised
CHECK_DEADLOCK FALSE
