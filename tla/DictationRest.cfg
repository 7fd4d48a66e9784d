CONSTANTS
    MaxSessions = 2
    MaxQueue = 3
    Faults <- HandledFaults
    Patches = {"inject"}
SPECIFICATION FairSpec
INVARIANT RestIsConsistent
INVARIANT EscCancels
PROPERTY ReturnsToIdle
