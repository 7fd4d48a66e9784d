CONSTANTS
    MaxBlocks = 4
    Faults = {"open", "start", "pump", "kill"}
SPECIFICATION FairSpec
INVARIANT TypeOK
INVARIANT ReturnsAPrefix
INVARIANT KeepsQueuedAudio
INVARIANT ChunksAreTheRecording
PROPERTY ChunksEnd
PROPERTY TeardownEnds
CHECK_DEADLOCK FALSE
