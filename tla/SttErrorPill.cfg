CONSTANTS
    MaxSessions = 1
    MaxQueue = 3
    Faults = {"stt"}
    Patches = {}
SPECIFICATION Spec
INVARIANT PillHidesOnError
