CONSTANTS
    ctrl = ctrl
    alt = alt
    space = space
    esc = esc
    letter = letter
    Keys <- AllKeys
    Binding <- Hotkey
    Cancel <- CancelKey
    Modes = {"ptt", "toggle", "both"}
    Timers = {t1, t2}
    NoTimer = NoTimer
SPECIFICATION FairSpec
INVARIANT TypeOK
INVARIANT WaitingTimerKnown
INVARIANT SessionKnown
INVARIANT PttEndsWithRelease
PROPERTY OnePressStops
PROPERTY HoldAloneStarts
