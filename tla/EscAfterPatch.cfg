CONSTANTS
    MaxSessions = 1
    MaxQueue = 3
    Faults = {}
    Patches = {"hotkey"}
SPECIFICATION Spec
INVARIANT EscCancels
