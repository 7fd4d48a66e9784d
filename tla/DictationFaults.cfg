CONSTANTS
    MaxSessions = 2
    MaxQueue = 3
    Faults <- InsideFaults
    Patches = {"hotkey"}
SPECIFICATION FairSpec
INVARIANT TypeOK
INVARIANT MicrophoneOwned
INVARIANT PillShowsRecording
INVARIANT CancelledNeverDelivered
INVARIANT HistoryInOrder
INVARIANT RecordedBeforePasted
PROPERTY ContractSpec
PROPERTY ShutdownCompletes
