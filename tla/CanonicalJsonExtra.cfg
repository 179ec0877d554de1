CONSTANTS
    NaN = "NaN"
    Nil = Nil
    KeyText <- MCKeyText
    Kind <- MCKind
    Severity <- MCSeverity
    Normal <- MCNormal
    Data <- MCData
    MaxFindings = 2
SPECIFICATION Spec
INVARIANT ExtraFieldsMerge
CHECK_DEADLOCK FALSE
