----------------------------- MODULE SettingsScreen -----------------------------
(***************************************************************************)
(* The settings screen of the dashboard (tui/screens/settings.py) and the  *)
(* daemon's configuration, which other clients change at the same time.    *)
(*                                                                         *)
(* The screen handles its messages one after the other, each to its end.   *)
(* Four settings stand for all: one that is sent when its widget changes   *)
(* ("now"), one that a Save button sends ("form"), one that is both        *)
(* ("both"), and the file of a sound cue ("sound").  A value is the number *)
(* of the change that made it; 0 is the default, the built-in sound.  The  *)
(* form is taken to have the volume, which the screen shows as a whole     *)
(* percentage: values above MaxSets lie between two of them.               *)
(***************************************************************************)
EXTENDS Naturals, Sequences

CONSTANT MaxSets    \* bound: changes, by the user or by other clients

ASSUME SettingsAssumption == MaxSets \in Nat

VARIABLES
    store,       \* the daemon's configuration
    widget,     \* the values on the screen
    scr,        \* where the screen is
    got,        \* get_config's answer
    msgs,       \* the screen's messages
    saving,     \* what _save_indicator_settings awaits
    sets,       \* number of changes
    (* History variables. *)
    edited,     \* the fields changed on the screen and not saved
    wish,       \* what has been chosen last
    foreign     \* the settings that somebody else changed while the screen was
                \* open, that it could not show, or about which a command failed

paneVars == <<widget, scr, got, msgs, saving>>
wishVars   == <<sets, edited, wish, foreign>>
setVars    == <<store, paneVars, wishVars>>

Settings4 == {"now", "form", "both", "sound"}
Stored    == 0..(2 * MaxSets)
SettingValues == [Settings4 -> Stored]
Messages  == [do : {"set"}, key : {"now", "both"}, val : Stored]
               \cup [do : {"save", "builtin", "import"}, key : {"sound"}, val : Stored]
Changed(k, v) == [do |-> "set", key |-> k, val |-> v]
Press(o, v)   == [do |-> o, key |-> "sound", val |-> v]

\* int(round(volume * 100)), which a Save divides by 100.
Whole(v) == IF v > MaxSets THEN v - MaxSets ELSE v

SetTypeOK ==
    /\ store \in SettingValues /\ widget \in SettingValues /\ got \in SettingValues /\ wish \in SettingValues
    /\ scr \in {"closed", "asking", "sounds", "open"} /\ msgs \in Seq(Messages)
    /\ saving \in {"no", "clear", "list"} /\ sets \in 0..MaxSets
    /\ edited \subseteq Settings4 /\ foreign \subseteq Settings4

SetInit ==
    /\ store = [k \in Settings4 |-> 0] /\ widget = store /\ got = store /\ wish = store
    /\ scr = "closed" /\ msgs = <<>> /\ saving = "no" /\ sets = 0
    /\ edited = {} /\ foreign = {}

-----------------------------------------------------------------------------
(***************************************************************************)
(* The screen opens and closes.                                            *)
(***************************************************************************)

\* on_mount asks for the configuration, ...
Opens ==
    /\ scr = "closed" /\ scr' = "asking" /\ got' = store
    /\ UNCHANGED <<store, widget, msgs, saving, wishVars>>

\* Mutant of Fills: the field of a form is not filled in.
Fills_NoForm ==
    /\ scr = "asking" /\ scr' = "sounds"
    /\ widget' = [got EXCEPT !["sound"] = 0, !["form"] = 0] /\ edited' = {}
    /\ msgs' \in {<<>>, <<Changed("now", got["now"])>>, <<Changed("both", got["both"])>>,
                  <<Changed("now", got["now"]), Changed("both", got["both"])>>}
    /\ UNCHANGED <<store, got, saving, sets, wish, foreign>>

\* ... fills in the fields, which makes those that differ from an empty screen
\* announce a change, ...
Fills ==
    /\ scr = "asking" /\ scr' = "sounds"
    /\ widget' = [got EXCEPT !["sound"] = 0, !["form"] = Whole(@)] /\ edited' = {}
    /\ msgs' \in {<<>>, <<Changed("now", got["now"])>>, <<Changed("both", got["both"])>>,
                  <<Changed("now", got["now"]), Changed("both", got["both"])>>}
    /\ UNCHANGED <<store, got, saving, sets, wish, foreign>>

\* _refresh_sound_controls: the list of sounds; none, when the daemon does not answer;
\* or one that the file is not in, which is shown as the built-in sound.
RefreshSounds ==
    \/ widget' = [widget EXCEPT !["sound"] = store["sound"]] /\ UNCHANGED foreign
    \/ widget' \in {widget, [widget EXCEPT !["sound"] = 0]} /\ foreign' = foreign \cup {"sound"}

\* ... and shows the sounds.
Lists ==
    /\ scr = "sounds" /\ scr' = "open" /\ RefreshSounds
    /\ UNCHANGED <<store, got, msgs, saving, sets, edited, wish>>

Closes ==
    /\ scr = "open" /\ msgs = <<>> /\ saving = "no" /\ scr' = "closed"
    /\ UNCHANGED <<store, widget, got, msgs, saving, wishVars>>

-----------------------------------------------------------------------------
(***************************************************************************)
(* The user, and other clients.                                            *)
(***************************************************************************)

Counts == sets < MaxSets /\ sets' = sets + 1

\* A checkbox, the preferred provider.
Toggles(k) ==
    /\ scr = "open" /\ k \in {"now", "both"} /\ Counts
    /\ widget' = [widget EXCEPT ![k] = sets'] /\ msgs' = Append(msgs, Changed(k, sets'))
    /\ wish' = [wish EXCEPT ![k] = sets']
    /\ UNCHANGED <<store, scr, got, saving, edited, foreign>>

\* A field, the choice of a sound.
Types(k) ==
    /\ scr = "open" /\ k \in {"form", "sound"} /\ Counts
    /\ widget' = [widget EXCEPT ![k] = sets'] /\ edited' = edited \cup {k}
    /\ UNCHANGED <<store, scr, got, msgs, saving, wish, foreign>>

\* A button: save, take the built-in sound, import a file.
Presses(o) ==
    /\ scr = "open" /\ Len(msgs) < 2
    /\ \/ o \in {"save", "builtin"} /\ msgs' = Append(msgs, Press(o, 0)) /\ UNCHANGED sets
       \/ o = "import" /\ Counts /\ msgs' = Append(msgs, Press(o, sets'))
    /\ UNCHANGED <<store, widget, scr, got, saving, edited, wish, foreign>>

OthersSet(k) ==
    /\ Counts
    /\ \E v \in {sets'} \cup (IF k = "form" THEN {MaxSets + sets'} ELSE {}) :
          store' = [store EXCEPT ![k] = v] /\ wish' = [wish EXCEPT ![k] = v]
    /\ foreign' = IF scr = "closed" THEN foreign ELSE foreign \cup {k}
    /\ UNCHANGED <<paneVars, edited>>

-----------------------------------------------------------------------------
(***************************************************************************)
(* The handlers.                                                           *)
(***************************************************************************)

\* The settings that a message is about, and the configuration when the daemon has done
\* what its handler asks for first.
Sends(m) ==
    CASE m.do = "set"     -> {m.key}
      [] m.do = "save"    -> {"form", "both", "sound"}
      [] m.do = "builtin" -> {"sound"}
      [] m.do = "import"  -> {"sound", "both"}

\* The settings about which it still has to send something.
Unhandled ==
    (UNION {Sends(msgs[i]) : i \in DOMAIN msgs}) \cup (IF saving = "clear" THEN {"sound"} ELSE {})

Done(m) ==
    CASE m.do = "set"     -> [store EXCEPT ![m.key] = m.val]
      [] m.do = "save"    -> [store EXCEPT !["form"] = widget["form"], !["both"] = widget["both"],
                                !["sound"] = IF widget["sound"] # 0 THEN widget["sound"] ELSE @]
      [] m.do = "builtin" -> [store EXCEPT !["sound"] = 0]
      [] m.do = "import"  -> [store EXCEPT !["sound"] = m.val, !["both"] = m.val]

Takes1(o) == scr = "open" /\ saving = "no" /\ msgs # <<>> /\ Head(msgs).do = o /\ msgs' = Tail(msgs)

\* on_checkbox_changed, on_select_changed: a patch.
HandleChange ==
    /\ Takes1("set") /\ store' = Done(Head(msgs))
    /\ UNCHANGED <<widget, scr, got, saving, wishVars>>

\* on_button_pressed: a field that is not valid.
Refuses ==
    /\ Takes1("save")
    /\ UNCHANGED <<store, widget, scr, got, saving, wishVars>>

\* _save_hotkey, _save_audio, _save_advanced, _save_indicator_settings: every
\* field of the form is sent; the built-in sound is not a patch ...
Saves ==
    /\ Takes1("save") /\ store' = Done(Head(msgs))
    /\ wish' = [k \in Settings4 |-> IF k \in edited THEN widget[k] ELSE wish[k]]
    /\ edited' = {} /\ saving' = IF widget["sound"] = 0 THEN "clear" ELSE "list"
    /\ UNCHANGED <<widget, scr, got, sets, foreign>>

\* ... but a command of its own.
ClearsSound ==
    /\ saving = "clear" /\ saving' = "list" /\ store' = [store EXCEPT !["sound"] = 0]
    /\ UNCHANGED <<widget, scr, got, msgs, wishVars>>

SavedSounds ==
    /\ saving = "list" /\ saving' = "no" /\ RefreshSounds /\ edited' = edited \ {"sound"}
    /\ UNCHANGED <<store, scr, got, msgs, sets, wish>>

\* _use_builtin_sound.
TakesBuiltin ==
    /\ Takes1("builtin") /\ store' = Done(Head(msgs))
    /\ wish' = [wish EXCEPT !["sound"] = 0] /\ saving' = "list"
    /\ UNCHANGED <<widget, scr, got, sets, edited, foreign>>

\* _import_sound_file: the daemon also switches sounds on, unseen by the screen.  A
\* failure, after which the file may have been imported all the same, is caught.
ImportsSound ==
    /\ Takes1("import")
    /\ \/ UNCHANGED <<store, saving, wish, foreign>>
       \/ /\ store' = Done(Head(msgs)) /\ foreign' = foreign \cup Sends(Head(msgs))
          /\ UNCHANGED <<saving, wish>>
       \/ /\ store' = Done(Head(msgs)) /\ foreign' = foreign \cup {"both"}
          /\ wish' = [wish EXCEPT !["sound"] = Head(msgs).val] /\ saving' = "list"
    /\ UNCHANGED <<widget, scr, got, sets, edited>>

\* Any other command that fails or times out, done or not, ends the handler with an
\* exception, and Textual (external) the dashboard: what is still to be handled is lost.
HandlerFails ==
    /\ \/ scr = "asking" /\ UNCHANGED store
       \/ saving = "clear" /\ store' \in {store, [store EXCEPT !["sound"] = 0]}
       \/ /\ scr = "open" /\ saving = "no" /\ msgs # <<>> /\ Head(msgs).do # "import"
          /\ store' \in {store, Done(Head(msgs))}
    /\ scr' = "closed" /\ msgs' = <<>> /\ saving' = "no"
    /\ foreign' = foreign \cup Unhandled
    /\ UNCHANGED <<widget, got, sets, edited, wish>>

-----------------------------------------------------------------------------
Screen == Opens \/ Fills \/ Lists \/ Closes \/ HandleChange \/ Refuses \/ Saves
            \/ ClearsSound \/ SavedSounds \/ TakesBuiltin \/ ImportsSound \/ HandlerFails

SetNext ==
    \/ Screen
    \/ \E k \in Settings4 : Toggles(k) \/ Types(k) \/ OthersSet(k)
    \/ \E o \in {"save", "builtin", "import"} : Presses(o)

SetSpec == SetInit /\ [][SetNext]_setVars

-----------------------------------------------------------------------------
\* When the screen has handled everything, each setting is as it was chosen last,
\* here or by another client: what the screen sends by itself when it opens, and
\* the fields that a Save sends along, change nothing, the volume to the whole
\* percentage.  Except for the settings that somebody else has changed since the
\* screen was filled in, the sound when the screen could not show it, and those
\* about which a command has failed.
SettingsKept ==
    scr \in {"closed", "open"} /\ msgs = <<>> /\ saving = "no" =>
        \A k \in Settings4 \ foreign : Whole(store[k]) = Whole(wish[k])
=============================================================================
