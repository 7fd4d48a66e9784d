SPECIFICATION PartsSpec
CONSTANTS
    Workers = {w1, w2}
    MaxChanges = 3
    MaxRestarts = 1
    Pids = {p1, p2, p3}
    Clis = {c1, c2}
    NoPid = NoPid
    Cmds = {s1, s2, s3}
    Default = Default
    Named = Named
    Partial = Partial
    MaxCalls = 5
    MaxDeaths = 1
    Texts = {t1, t2}
    Images = {i1}
    Injs = {j1, j2}
    Nothing = Nothing
    Skip = Skip
    MaxChunks = 3
    MaxResults = 2
    Streamers = {deepgram}
    Batchers = {groq}
    Unknown = Unknown
    None = None
    MaxEdits = 2
    Lexicon = {a, b}
    MaxText = 4
    MaxSets = 2
    Registered = {groq}
    Streaming = {deepgram}
    KeyedOnly = assemblyai
    NoName = NoName
INVARIANT PartsTypeOK
INVARIANT ScreenIsTrue
INVARIANT ServerIsNamed
INVARIANT DaemonFollows
INVARIANT PillFollows
INVARIANT InjectionIsClean
INVARIANT TextIsSpoken
INVARIANT ProviderStays
INVARIANT TextIsKept
INVARIANT SettingsKept
 
CHECK_DEADLOCK FALSE
