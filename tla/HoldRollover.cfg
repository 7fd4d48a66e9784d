CONSTANTS
    ctrl = ctrl
    alt = alt
    space = space
    esc = esc
    letter = letter
    Keys <- AllKeys
    Binding <- Hotkey
    Cancel <- CancelKey
    Modes = {"both"}
    Timers = {t1, t2}
    NoTimer = NoTimer
SPECIFICATION FairSpec
PROPERTY HoldStarts
