CONSTANTS
    C1 = C1  C2 = C2  Bad = Bad  P1 = P1  P2 = P2  V1 = V1  V2 = V2
    Unset = Unset
    Failed = Failed
    Content = V1
    Name <- MCName
    Sub <- MCSub
    Scalar <- MCScalar
    Plain <- MCPlain
    Secrets <- MCSecrets
    ListName <- MCListName
    Shipped <- MCShipped
    Override <- MCOverride
    MaxEdits = 3
    MaxInbox = 2
    MaxBreaks = 1
SPECIFICATION Spec
INVARIANTS ConfigTypeOK DeliveredIsEffective StaleIsExcused
PROPERTY HeardEditArrives
CHECK_DEADLOCK FALSE
