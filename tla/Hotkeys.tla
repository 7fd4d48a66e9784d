------------------------------- MODULE Hotkeys -------------------------------
(***************************************************************************)
(* The hotkey manager (hotkeys/pynput_backend.py): the keyboard listener's *)
(* thread, which runs the press and release callbacks, and the threads of  *)
(* the push-to-talk hold timers, sharing the manager's fields unlocked.    *)
(* A callback runs step by step, lpc naming what it does next; a timer     *)
(* thread likewise, timer[t] naming where it is.  Every read and write of  *)
(* the hold timer's two fields, _ptt_timer and _ptt_armed, is a step of    *)
(* its own.  The four assignments that open or close a session are one     *)
(* step: only the mode both has a second thread that sees them apart, and  *)
(* no property of that mode is about any of them but _active, the first.   *)
(*                                                                         *)
(* Time is not counted: the hold threshold passes at any moment, and the   *)
(* double-press window closes at any moment.  Starting, stopping and the   *)
(* consumer of the posted events are in module Dictation.                  *)
(***************************************************************************)
EXTENDS Naturals, FiniteSets

CONSTANTS
    Keys,       \* the semantic keys of the keyboard
    Binding,    \* the tokens of the hotkey
    Cancel,     \* the tokens of the cancel binding
    Modes,      \* the values that HotkeyConfig.mode may have
    Timers,     \* bound: timer threads alive at a time
    NoTimer     \* None

ASSUME KeysAssumption == Binding \subseteq Keys /\ Cancel \subseteq Keys /\ Binding # {}
ASSUME ModesAssumption == Modes \subseteq {"ptt", "toggle", "both"}
ASSUME TimersAssumption == NoTimer \notin Timers

VARIABLES
    mode,        \* the mode this manager was created with
    pressed,     \* _pressed
    matched,     \* _binding_matched
    active,      \* _active
    ptt, toggle, \* _ptt_session, _toggle_session
    last,        \* _last_toggle_complete: "none", in the window, or "old"
    armed, ref,  \* _ptt_armed, _ptt_timer
    timer,       \* per timer thread: where it is
    lpc, back,   \* where the listener's callback is; where _cancel_ptt_timer
                 \* returns to
    listening,   \* whether the posted events leave the controller dictating
    tapped,      \* history variable: a press while nothing is dictated, less
                 \* than a window ago
    late         \* history variable: the timers created while the thread of an
                 \* earlier one might still clear the two fields

keyVars     == <<mode, pressed, matched>>
sessionVars == <<active, ptt, toggle, last>>
timerVars   == <<armed, ref, timer, late>>
placeVars   == <<lpc, back>>
vars == <<keyVars, sessionVars, timerVars, placeVars, listening, tapped>>

\* The places of the listener that _cancel_ptt_timer can return to.
Places == {"rest", "released", "end", "toggle", "create"}
\* A timer whose thread has yet to clear the two fields.
Pending == {"created", "waiting", "fired", "clearing"}

KeyType ==
    /\ mode \in Modes /\ pressed \subseteq Keys
    /\ last \in {"none", "recent", "old"}
    /\ back \in Places
    /\ lpc \in Places \cup {"complete", "double", "schedule", "arm", "start",
                "tokenUp", "otherUp", "cancel", "cancelRef", "disarm",
                "postActivate", "postDeactivate", "dead"}

FlagType ==
    /\ active \in BOOLEAN /\ ptt \in BOOLEAN /\ toggle \in BOOLEAN
    /\ matched \in BOOLEAN /\ armed \in BOOLEAN
    /\ listening \in BOOLEAN /\ tapped \in BOOLEAN

TimerType ==
    /\ ref \in Timers \cup {NoTimer} /\ late \subseteq Timers
    /\ timer \in [Timers -> Pending \cup {"idle", "cleared", "inactive", "checked",
                                        "posting"}]

TypeOK == KeyType /\ FlagType /\ TimerType

Init ==
    /\ mode \in Modes /\ pressed = {} /\ matched = FALSE
    /\ active = FALSE /\ ptt = FALSE /\ toggle = FALSE /\ last = "none"
    /\ armed = FALSE /\ ref = NoTimer /\ timer = [t \in Timers |-> "idle"]
    /\ lpc = "rest" /\ back = "rest" /\ late = {}
    /\ listening = FALSE /\ tapped = FALSE

ToggleEnabled == mode \in {"toggle", "both"}
PttEnabled    == mode \in {"ptt", "both"}

\* _binding_is_matched
Matches(keys) == Binding \subseteq keys

\* A posted event reaches the controller: ACTIVATE starts a dictation in IDLE,
\* DEACTIVATE and CANCEL end the one there is; otherwise they are ignored.
Posted(e) == listening' = (e = "ACTIVATE")

-----------------------------------------------------------------------------
(***************************************************************************)
(* The listener's thread.                                                  *)
(***************************************************************************)

\* _cancel_ptt_timer, called from place b.
CallCancel(b) == lpc' = "cancel" /\ back' = b

\* It tests the reference ...
CancelTests ==
    /\ lpc = "cancel" /\ lpc' = IF ref = NoTimer THEN "disarm" ELSE "cancelRef"
    /\ UNCHANGED <<keyVars, sessionVars, timerVars, back, listening, tapped>>

\* Mutant of CancelRef: the timer is forgotten, not cancelled.
CancelRef_Forgets ==
    /\ lpc = "cancelRef"
    /\ lpc' = "disarm" /\ ref' = NoTimer
    /\ UNCHANGED <<keyVars, sessionVars, armed, timer, late, back, listening, tapped>>

\* ... reads it again to cancel it, which has no effect on a timer that has
\* fired, and drops it.  When a timer's thread has cleared it in between, the
\* AttributeError ends the listener.
CancelRef ==
    /\ lpc = "cancelRef"
    /\ IF ref = NoTimer
       THEN lpc' = "dead" /\ UNCHANGED <<ref, timer>>
       ELSE /\ lpc' = "disarm" /\ ref' = NoTimer
            /\ timer' = [timer EXCEPT ![ref] = IF @ = "waiting" THEN "idle" ELSE @]
    /\ UNCHANGED <<keyVars, sessionVars, armed, late, back, listening, tapped>>

\* ... and clears the flag.
Disarm ==
    /\ lpc = "disarm" /\ lpc' = back
    /\ armed' = FALSE
    /\ UNCHANGED <<keyVars, sessionVars, ref, timer, late, back, listening, tapped>>

\* _on_press of a token of the cancel binding in a session.
CancelPressed(k) ==
    /\ lpc = "rest" /\ pressed' = pressed \cup {k}
    /\ active /\ k \in Cancel
    /\ Posted("CANCEL")
    /\ UNCHANGED <<mode, matched, sessionVars, timerVars, placeVars, tapped>>

\* Mutant of Press: a key without a semantic name is recorded as None.
Press_Unnamed(k) ==
    /\ lpc = "rest" /\ pressed' \in {pressed \cup {k}, pressed \cup {NoTimer}}
    /\ ~(active /\ k \in Cancel)
    /\ matched' = Matches(pressed')
    /\ lpc' = IF matched' /\ ~matched THEN "complete" ELSE "rest"
    /\ UNCHANGED <<mode, sessionVars, timerVars, back, listening, tapped>>

\* _on_press of another key, auto-repeats of a held one included.
Press(k) ==
    /\ lpc = "rest" /\ pressed' = pressed \cup {k}
    /\ ~(active /\ k \in Cancel)
    /\ matched' = Matches(pressed')
    /\ lpc' = IF matched' /\ ~matched THEN "complete" ELSE "rest"
    /\ UNCHANGED <<mode, sessionVars, timerVars, back, listening, tapped>>

\* Mutants of EndSession: no event is posted; nothing ends.
EndSession_Silent ==
    /\ lpc = "end" /\ lpc' = "rest"
    /\ active' = FALSE /\ ptt' = FALSE /\ toggle' = FALSE /\ last' = "none"
    /\ UNCHANGED <<keyVars, timerVars, back, listening, tapped>>
EndSession_Skipped ==
    /\ lpc = "end" /\ lpc' = "rest"
    /\ UNCHANGED <<keyVars, sessionVars, timerVars, back, listening, tapped>>

\* _deactivate after its _cancel_ptt_timer, up to the event it posts.
EndSession ==
    /\ lpc = "end" /\ lpc' = "postDeactivate"
    /\ active' = FALSE /\ ptt' = FALSE /\ toggle' = FALSE /\ last' = "none"
    /\ UNCHANGED <<keyVars, timerVars, back, listening, tapped>>

\* _on_binding_complete in a session: a toggle session is to end, a
\* push-to-talk session goes on.
CompleteActive ==
    /\ lpc = "complete" /\ active
    /\ IF toggle THEN CallCancel("end") ELSE lpc' = "rest" /\ UNCHANGED back
    /\ UNCHANGED <<keyVars, sessionVars, timerVars, listening, tapped>>

\* _activate_ptt and _activate_toggle, up to the event they post.
StartPtt    == active' = TRUE /\ ptt' = TRUE /\ toggle' = FALSE /\ last' = "none"
StartToggle == active' = TRUE /\ toggle' = TRUE /\ ptt' = FALSE /\ last' = "none"

\* _on_binding_complete outside a session, a first press.
CompleteFirst ==
    /\ lpc = "complete" /\ ~active /\ ~(ToggleEnabled /\ last = "recent")
    /\ \/ mode = "ptt" /\ StartPtt /\ lpc' = "postActivate"
       \/ /\ mode # "ptt" /\ last' = "recent"
          /\ lpc' = IF mode = "both" THEN "schedule" ELSE "rest"
          /\ UNCHANGED <<active, ptt, toggle>>
    /\ tapped' = ~listening
    /\ UNCHANGED <<keyVars, timerVars, back, listening>>

\* ... and the second press of a pair.
CompleteSecond ==
    /\ lpc = "complete" /\ ~active /\ ToggleEnabled /\ last = "recent"
    /\ lpc' = "double"
    /\ UNCHANGED <<keyVars, sessionVars, timerVars, back, listening, tapped>>

DoublePress ==
    /\ lpc = "double" /\ CallCancel("toggle")
    /\ UNCHANGED <<keyVars, sessionVars, timerVars, listening, tapped>>

ToggleStarts ==
    /\ lpc = "toggle" /\ lpc' = "postActivate"
    /\ StartToggle
    /\ UNCHANGED <<keyVars, timerVars, back, listening, tapped>>

\* _schedule_ptt: not in a session; a timer that waits is cancelled ...
SchedulePtt ==
    /\ lpc = "schedule"
    /\ IF active THEN lpc' = "rest" /\ UNCHANGED back ELSE CallCancel("create")
    /\ UNCHANGED <<keyVars, sessionVars, timerVars, listening, tapped>>

\* ... a new one is created and referenced ...
CreateTimer ==
    /\ lpc = "create" /\ lpc' = "arm"
    /\ \E t \in Timers :
          /\ timer[t] = "idle" /\ timer' = [timer EXCEPT ![t] = "created"]
          /\ ref' = t
          /\ late' = IF \E u \in Timers : timer[u] \in Pending
                     THEN late \cup {t} ELSE late \ {t}
    /\ UNCHANGED <<keyVars, sessionVars, armed, back, listening, tapped>>

\* ... flagged ...
ArmTimer ==
    /\ lpc = "arm" /\ lpc' = "start"
    /\ armed' = TRUE
    /\ UNCHANGED <<keyVars, sessionVars, ref, timer, late, back, listening, tapped>>

\* Mutant of StartTimer: the start is forgotten.
StartTimer_Forgotten ==
    /\ lpc = "start" /\ lpc' = "rest"
    /\ timer' = [t \in Timers |-> IF timer[t] = "created" THEN "idle" ELSE timer[t]]
    /\ UNCHANGED <<keyVars, sessionVars, armed, ref, late, back, listening, tapped>>

\* ... and started.
StartTimer ==
    /\ lpc = "start" /\ lpc' = "rest"
    /\ timer' = [t \in Timers |-> IF timer[t] = "created" THEN "waiting" ELSE timer[t]]
    /\ UNCHANGED <<keyVars, sessionVars, armed, ref, late, back, listening, tapped>>

PostActivate ==
    /\ lpc = "postActivate" /\ lpc' = "rest" /\ Posted("ACTIVATE")
    /\ tapped' = FALSE
    /\ UNCHANGED <<keyVars, sessionVars, timerVars, back>>

PostDeactivate ==
    /\ lpc = "postDeactivate" /\ lpc' = "rest" /\ Posted("DEACTIVATE")
    /\ tapped' = ~listening
    /\ UNCHANGED <<keyVars, sessionVars, timerVars, back>>

\* _on_release of a key ...
Release(k) ==
    /\ lpc = "rest" /\ k \in pressed /\ pressed' = pressed \ {k}
    /\ lpc' = IF k \in Binding THEN "tokenUp" ELSE "otherUp"
    /\ UNCHANGED <<mode, matched, sessionVars, timerVars, back, listening, tapped>>

\* ... which, whatever key it is, disarms the hold timer ...
ReleaseDisarms ==
    /\ lpc \in {"tokenUp", "otherUp"}
    /\ LET next == IF lpc = "tokenUp" THEN "released" ELSE "rest"
       IN  IF armed /\ ~ptt THEN CallCancel(next) ELSE lpc' = next /\ UNCHANGED back
    /\ matched' = (matched /\ Matches(pressed))
    /\ UNCHANGED <<mode, pressed, sessionVars, timerVars, listening, tapped>>

\* Mutant of ReleasedBinding: the release of the hotkey leaves the session on.
ReleasedBinding_StaysOn ==
    /\ lpc = "released" /\ lpc' = "rest"
    /\ UNCHANGED <<keyVars, sessionVars, timerVars, back, listening, tapped>>

\* ... and a token of the hotkey ends a push-to-talk session.
ReleasedBinding ==
    /\ lpc = "released"
    /\ IF ptt /\ PttEnabled THEN CallCancel("end") ELSE lpc' = "rest" /\ UNCHANGED back
    /\ UNCHANGED <<keyVars, sessionVars, timerVars, listening, tapped>>

\* The thread of a listener whose callback raised is gone, until a patch of the
\* hotkey replaces the manager.
ListenerDead == lpc = "dead" /\ UNCHANGED vars

-----------------------------------------------------------------------------
(***************************************************************************)
(* Timer threads and time.                                                 *)
(***************************************************************************)

TimerStep(t, from, to) ==
    /\ timer[t] = from /\ timer' = [timer EXCEPT ![t] = to]
    /\ UNCHANGED <<keyVars, placeVars, late>>

TimerFires(t) ==
    /\ TimerStep(t, "waiting", "fired")
    /\ UNCHANGED <<sessionVars, armed, ref, listening, tapped>>

\* _ptt_timer_fired clears the reference, whosever it is, and then the flag ...
TimerClearsRef(t) ==
    /\ TimerStep(t, "fired", "clearing")
    /\ ref' = NoTimer
    /\ UNCHANGED <<sessionVars, armed, listening, tapped>>

TimerClearsFlag(t) ==
    /\ TimerStep(t, "clearing", "cleared")
    /\ armed' = FALSE
    /\ UNCHANGED <<sessionVars, ref, listening, tapped>>

\* ... reads _active, then the keys ...
TimerReadsActive(t) ==
    /\ TimerStep(t, "cleared", IF active THEN "idle" ELSE "inactive")
    /\ UNCHANGED <<sessionVars, armed, ref, listening, tapped>>

TimerReadsKeys(t) ==
    /\ TimerStep(t, "inactive", IF Matches(pressed) THEN "checked" ELSE "idle")
    /\ UNCHANGED <<sessionVars, armed, ref, listening, tapped>>

\* ... acts on what it read ...
TimerActivates(t) ==
    /\ TimerStep(t, "checked", "posting")
    /\ StartPtt
    /\ UNCHANGED <<armed, ref, listening, tapped>>

\* ... and posts ACTIVATE.
TimerPosts(t) ==
    /\ TimerStep(t, "posting", "idle")
    /\ Posted("ACTIVATE") /\ tapped' = FALSE
    /\ UNCHANGED <<sessionVars, armed, ref>>

\* The double-press window closes.
WindowCloses ==
    /\ last = "recent" \/ tapped
    /\ last' = IF last = "recent" THEN "old" ELSE last
    /\ tapped' = FALSE
    /\ UNCHANGED <<keyVars, active, ptt, toggle, timerVars, placeVars, listening>>

-----------------------------------------------------------------------------
Listener ==
    \/ CompleteActive \/ CompleteFirst \/ CompleteSecond
    \/ DoublePress \/ ToggleStarts \/ EndSession
    \/ CancelTests \/ CancelRef \/ Disarm
    \/ SchedulePtt \/ CreateTimer \/ ArmTimer \/ StartTimer
    \/ PostActivate \/ PostDeactivate \/ ReleaseDisarms \/ ReleasedBinding

TimerThread(t) ==
    \/ TimerFires(t) \/ TimerClearsRef(t) \/ TimerClearsFlag(t)
    \/ TimerReadsActive(t) \/ TimerReadsKeys(t)
    \/ TimerActivates(t) \/ TimerPosts(t)

Next ==
    \/ \E k \in Keys : CancelPressed(k) \/ Press(k) \/ Release(k)
    \/ Listener \/ ListenerDead
    \/ \E t \in Timers : TimerThread(t)
    \/ WindowCloses

Spec == Init /\ [][Next]_vars

\* A callback that has begun ends, and a timer fires and its thread runs.
\* Nothing is assumed of the user.
FairSpec == Spec /\ WF_vars(Listener) /\ \A t \in Timers : WF_vars(TimerThread(t))

-----------------------------------------------------------------------------
(***************************************************************************)
(* Properties.                                                             *)
(***************************************************************************)

\* No callback and no timer thread is halfway.
Quiet == lpc = "rest" /\ \A t \in Timers : timer[t] \in {"idle", "waiting"}

\* A dictation that the controller runs is one that the manager knows of, so
\* that Esc cancels it and the hotkey stops it.  (In mode both, the events of
\* the two threads can overtake each other.)
SessionKnown == mode # "both" /\ Quiet /\ listening => active

\* Push-to-talk ends with the release: nothing is dictated once the hotkey is
\* up, unless in a toggle session.  (In mode both, the hold timer's thread can
\* activate after the release that it did not see.)
PttEndsWithRelease ==
    mode # "both" /\ Quiet /\ listening /\ ~toggle => Matches(pressed)

\* A press while a toggle dictation runs ends it, and one press is enough.
OnePressStops ==
    mode = "toggle" /\ lpc = "complete" /\ listening ~> ~listening

\* A double press while nothing is dictated starts a dictation.
DoublePressStarts ==
    [][lpc = "complete" /\ lpc' # "complete" /\ tapped /\ ~listening
          => lpc' = "double"]_vars

\* The hotkey held, no other key down, starts a dictation.
HoldAloneStarts ==
    lpc = "schedule" /\ ~active ~> active \/ pressed # Binding

\* The hotkey held starts a dictation, whatever other keys go up meanwhile.
HoldStarts ==
    lpc = "schedule" /\ ~active ~> active \/ ~Matches(pressed)

\* A hold timer that waits is flagged and referenced, so that the next release
\* disarms it and a double press cancels it, although two threads write the flag
\* and the reference unlocked.  The exception: one that was created before the
\* thread of an earlier timer had cleared them.
WaitingTimerKnown ==
    \A t \in Timers \ late : timer[t] = "waiting" => ref = t /\ armed
=============================================================================
