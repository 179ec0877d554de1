CONSTANTS
    j1 = j1  j2 = j2
    NoFile = NoFile
    Setup <- MCSetup
    Identifier <- MCIdentifier
    Job <- MCJob
    QueueOf <- MCQueueOf
    PhaseOf <- MCPhaseOf
    Expiry = 3
    MaxRequests = 1
SPECIFICATION Spec
INVARIANTS LifeTypeOK SettledBeforeExit ReleasedOnReturn RefusedIsForeign StaysRouted
PROPERTY ShutdownEnds
CHECK_DEADLOCK FALSE
