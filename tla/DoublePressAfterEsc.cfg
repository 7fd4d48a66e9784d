CONSTANTS
    ctrl = ctrl
    alt = alt
    space = space
    esc = esc
    letter = letter
    Keys <- AllKeys
    Binding <- Hotkey
    Cancel <- CancelKey
    Modes = {"toggle"}
    Timers = {t1}
    NoTimer = NoTimer
SPECIFICATION Spec
PROPERTY DoublePressStarts
