CONSTANTS
    MaxSessions = 2
    MaxQueue = 3
    Faults <- BoundedFaults
    Patches = {"indicator", "inject"}
SPECIFICATION Spec
INVARIANT NoOrphanStream
PROPERTY PasteWhileInjecting
