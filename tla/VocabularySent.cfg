SPECIFICATION ProvSpec
CONSTANTS
    Streamers = {deepgram}
    Batchers = {groq}
    Unknown = Unknown
    None = None
    MaxEdits = 1
INVARIANT VocabularySent
CHECK_DEADLOCK FALSE
