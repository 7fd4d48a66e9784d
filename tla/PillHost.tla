------------------------------- MODULE PillHost -------------------------------
(***************************************************************************)
(* The dock pill's process (indicator/pill_qt/host.py) and the daemon's    *)
(* side of it (indicator/pill_qt_win.py): lines on a pipe, a thread that   *)
(* reads them, the window's thread that carries them out, and the timer    *)
(* that hides the window when it has slid away.                            *)
(*                                                                         *)
(* The daemon's calls block its only thread: spawning until the process    *)
(* says "ready", shutting down until it has ended.  Levels are left out.   *)
(***************************************************************************)
EXTENDS Naturals, Sequences

CONSTANTS
    MaxCalls,    \* bound: calls of the daemon
    MaxDeaths    \* bound: processes that die by themselves

ASSUME PillAssumption == MaxCalls \in Nat /\ MaxDeaths \in Nat

VARIABLES
    wrapper,            \* the daemon's side: no process, waiting for it, has one
    failed,             \* _failed
    host,               \* the process
    pipe, hand, pend, todo, queue,
                        \* a command's way: written; read, and where it is to
                        \* go; _pending; the part of it that _on_loaded has
                        \* taken; _command_queue
    win,                \* the window: is it slid in, visible, in what phase
    timer,              \* _hide_timer runs
    applied,            \* the daemon's settings have been applied
    calls, deaths,      \* number of calls, of deaths
    want,               \* history variable: what the daemon asked for last
    hasty               \* history variable: the window was last shown while the
                        \* timer ran

wrapVars  == <<wrapper, failed, calls, want>>
wayVars   == <<pipe, hand, pend, todo, queue>>
winVars   == <<win, timer, applied, hasty>>
pillVars  == <<wrapVars, host, wayVars, winVars, deaths>>

Commands == {"config", "show", "processing", "hide"}
NoHand   == [cmd |-> "none", ready |-> FALSE]
Gone     == [slid |-> FALSE, visible |-> FALSE, phase |-> "listening"]

PillTypeOK ==
    /\ wrapper \in {"none", "spawning", "up"} /\ failed \in BOOLEAN
    /\ host \in {"none", "loading", "loaded", "ready", "dead"}
    /\ pipe \in Seq(Commands) /\ pend \in Seq(Commands) /\ todo \in Seq(Commands)
    /\ queue \in Seq(Commands) /\ hand \in [cmd : Commands \cup {"none"}, ready : BOOLEAN]
    /\ win \in [slid : BOOLEAN, visible : BOOLEAN, phase : {"listening", "processing"}]
    /\ timer \in BOOLEAN /\ applied \in BOOLEAN /\ hasty \in BOOLEAN
    /\ calls \in 0..MaxCalls /\ deaths \in 0..MaxDeaths
    /\ want \in {"hide", "show", "processing"}

Fresh ==
    /\ pipe' = <<>> /\ hand' = NoHand /\ pend' = <<>> /\ todo' = <<>> /\ queue' = <<>>
    /\ win' = Gone /\ timer' = FALSE /\ applied' = FALSE /\ hasty' = FALSE

PillInit ==
    /\ wrapper = "none" /\ failed = FALSE /\ host = "none" /\ calls = 0 /\ deaths = 0
    /\ pipe = <<>> /\ hand = NoHand /\ pend = <<>> /\ todo = <<>> /\ queue = <<>>
    /\ win = Gone /\ timer = FALSE /\ applied = FALSE /\ hasty = FALSE /\ want = "hide"

-----------------------------------------------------------------------------
(***************************************************************************)
(* The daemon's calls.                                                     *)
(***************************************************************************)

Call == calls < MaxCalls /\ wrapper # "spawning" /\ calls' = calls + 1

\* _send: a process found dead is not tried again.
Send(c) ==
    IF host = "dead"
      THEN /\ failed' = TRUE /\ wrapper' = "none" /\ UNCHANGED <<wayVars, want>>
      ELSE /\ pipe' = Append(pipe, c) /\ want' = c
           /\ UNCHANGED <<wrapper, failed, hand, pend, todo, queue>>

\* show, with a process that lives, ...
Show ==
    /\ Call /\ ~failed /\ wrapper = "up" /\ host # "dead" /\ Send("show")
    /\ UNCHANGED <<host, winVars, deaths>>

\* ... or by spawning one, which is sent the settings.
ShowSpawns ==
    /\ Call /\ ~failed /\ (wrapper = "none" \/ host = "dead")
    /\ wrapper' = "spawning" /\ host' = "loading"
    /\ pipe' = <<"config">> /\ hand' = NoHand /\ pend' = <<>> /\ todo' = <<>> /\ queue' = <<>>
    /\ win' = Gone /\ timer' = FALSE /\ applied' = FALSE /\ hasty' = FALSE
    /\ UNCHANGED <<failed, want, deaths>>

\* The process has said "ready", or ended without.
Spawned ==
    /\ wrapper = "spawning" /\ host = "ready"
    /\ wrapper' = "up" /\ pipe' = Append(pipe, "show") /\ want' = "show"
    /\ UNCHANGED <<failed, calls, host, hand, pend, todo, queue, winVars, deaths>>

SpawnFails ==
    /\ wrapper = "spawning" /\ host = "dead"
    /\ wrapper' = "none" /\ failed' = TRUE
    /\ UNCHANGED <<calls, want, host, wayVars, winVars, deaths>>

\* set_phase and hide do nothing without a process.
Tell(c) ==
    /\ Call /\ ~failed /\ wrapper = "up" /\ c \in {"processing", "hide"} /\ Send(c)
    /\ c = "processing" => want # "hide"   \* SessionState: only while it is shown
    /\ UNCHANGED <<host, winVars, deaths>>

\* shutdown: quit, and kill if need be.  A new indicator takes its place when
\* the settings have changed.
Shutdown ==
    /\ Call /\ wrapper' = "none" /\ failed' = FALSE /\ host' = "none" /\ want' = "hide"
    /\ Fresh
    /\ UNCHANGED deaths

-----------------------------------------------------------------------------
(***************************************************************************)
(* The process.                                                            *)
(***************************************************************************)

Lives == host \in {"loading", "loaded", "ready"}

\* _stdin_loop reads a line and looks whether the window is ready, ...
Reads ==
    /\ Lives /\ hand = NoHand /\ pipe # <<>>
    /\ hand' = [cmd |-> Head(pipe), ready |-> host = "ready"] /\ pipe' = Tail(pipe)
    /\ UNCHANGED <<wrapVars, host, pend, todo, queue, winVars, deaths>>

\* ... and puts the command where the look has told it to.
Puts ==
    /\ Lives /\ hand # NoHand /\ hand' = NoHand
    /\ IF hand.ready THEN queue' = Append(queue, hand.cmd) /\ UNCHANGED pend
                     ELSE pend' = Append(pend, hand.cmd) /\ UNCHANGED queue
    /\ UNCHANGED <<wrapVars, host, pipe, todo, winVars, deaths>>

\* Mutant of Obey: show does not go back to the listening phase.
Obey_KeepsPhase(c) ==
    /\ applied' = (applied \/ c = "config")
    /\ win' = CASE c = "show"       -> [win EXCEPT !.slid = TRUE, !.visible = TRUE]
                [] c = "hide"       -> [win EXCEPT !.slid = FALSE]
                [] c = "processing" -> [win EXCEPT !.phase = c]
                [] c = "config"     -> win
    /\ timer' = (timer \/ c = "hide")
    /\ hasty' = IF c = "show" THEN timer ELSE hasty

\* _apply_command.
Obey(c) ==
    /\ applied' = (applied \/ c = "config")
    /\ win' = CASE c = "show"       -> [slid |-> TRUE, visible |-> TRUE, phase |-> "listening"]
                [] c = "hide"       -> [win EXCEPT !.slid = FALSE]
                [] c = "processing" -> [win EXCEPT !.phase = c]
                [] c = "config"     -> win
    /\ timer' = (timer \/ c = "hide")
    /\ hasty' = IF c = "show" THEN timer ELSE hasty

\* _on_loaded: takes what has come, ...
Loads ==
    /\ host = "loading" /\ host' = "loaded" /\ todo' = pend /\ pend' = <<>>
    /\ UNCHANGED <<wrapVars, pipe, hand, queue, winVars, deaths>>

\* ... carries it out ...
Catches ==
    /\ host = "loaded" /\ todo # <<>> /\ Obey(Head(todo)) /\ todo' = Tail(todo)
    /\ UNCHANGED <<wrapVars, host, pipe, hand, pend, queue, deaths>>

\* ... and is ready.
GetsReady ==
    /\ host = "loaded" /\ todo = <<>> /\ host' = "ready"
    /\ UNCHANGED <<wrapVars, wayVars, winVars, deaths>>

\* _drain_command_queue.
Drains ==
    /\ host = "ready" /\ queue # <<>> /\ Obey(Head(queue)) /\ queue' = Tail(queue)
    /\ UNCHANGED <<wrapVars, host, pipe, hand, pend, todo, deaths>>

\* _finish_hide, 400 ms after the last hide.
FinishHide ==
    /\ Lives /\ timer /\ timer' = FALSE /\ win' = [win EXCEPT !.visible = FALSE]
    /\ UNCHANGED <<wrapVars, host, wayVars, applied, hasty, deaths>>

\* The process ends: no QML, a crash.
Dies ==
    /\ Lives /\ deaths < MaxDeaths /\ deaths' = deaths + 1 /\ host' = "dead"
    /\ Fresh
    /\ UNCHANGED wrapVars

-----------------------------------------------------------------------------
Wrapper == Show \/ ShowSpawns \/ Spawned \/ SpawnFails \/ Shutdown
           \/ \E c \in Commands : Tell(c)

HostProcess == Reads \/ Puts \/ Loads \/ Catches \/ GetsReady \/ Drains \/ FinishHide \/ Dies

PillNext == Wrapper \/ HostProcess

PillSpec == PillInit /\ [][PillNext]_pillVars

-----------------------------------------------------------------------------
(***************************************************************************)
(* Properties.                                                             *)
(***************************************************************************)

\* Every command that was sent has been carried out.
Quiet ==
    wrapper = "up" /\ host = "ready" /\ pipe = <<>> /\ hand = NoHand /\ queue = <<>> /\ ~timer

\* The window then is what the daemon asked for last, whatever the pipe, the two
\* threads, the timer and dead processes did on the way; except that it is gone
\* when it was shown while the timer of the hide before still ran.
PillFollows ==
    Quiet => /\ win.slid = (want # "hide")
             /\ win.slid => win.phase = (IF want = "show" THEN "listening" ELSE want)
             /\ win.visible = (win.slid /\ ~hasty)
=============================================================================
