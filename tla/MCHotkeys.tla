------------------------------ MODULE MCHotkeys ------------------------------
(***************************************************************************)
(* Instances of Hotkeys for TLC: the default hotkey, a cancel key and a key  *)
(* bound to nothing, which the user may hold while reaching for the hotkey.*)
(***************************************************************************)
EXTENDS Hotkeys

CONSTANTS ctrl, alt, space, esc, letter

Hotkey      == {ctrl, alt, space}
CancelKey   == {esc}
AllKeys     == Hotkey \cup CancelKey \cup {letter}
=============================================================================
