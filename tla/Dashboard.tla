------------------------------ MODULE Dashboard ------------------------------
(***************************************************************************)
(* The terminal dashboard (tui/app.py, tui/client.py): its event loop,     *)
(* which subscribes to the daemon's events, and its refreshes, workers     *)
(* that run side by side and ask the daemon for its state and history.     *)
(*                                                                         *)
(* The daemon is its state and the number of its transcripts.  Events      *)
(* reach the dashboard in their order (EventStream!SentInOrder); an answer *)
(* comes on a connection of its own, in no order with anything else.       *)
(***************************************************************************)
EXTENDS Naturals, Sequences

CONSTANTS
    Workers,       \* bound: refreshes under way
    MaxChanges,    \* bound: changes of the daemon's state, and transcripts
    MaxRestarts    \* bound: times the daemon goes down

ASSUME DashboardAssumption == MaxChanges \in Nat /\ MaxRestarts \in Nat

VARIABLES
    up, dstate, hist,      \* the daemon: it serves; its state; its transcripts
    due,                   \* it is about to announce another state
    changes, downs,        \* how often its state has changed, it has gone down
    stream, events,        \* the event connection; the events on their way
    loop,                  \* where _event_loop is
    known,                 \* the client has the ports of the daemon that runs
    connected,             \* _daemon_connected
    last,                  \* _last_status's state
    shown, entries,        \* the state and the transcripts on screen
    ref,                   \* per worker: where refresh_dashboard is
    status, history,       \* per worker: the answers given to it
    (* History variables. *)
    missed,                \* the daemon has changed without telling the dashboard,
                           \* and no refresh has asked it since
    earlier,               \* per worker with an answer: those whose answer is older
    old,                   \* those overtaken by a later answer, or by a failed refresh
    behind                 \* the last refresh to end was one of these, or failed

daemonVars == <<up, dstate, hist, due, changes, downs>>
feedVars   == <<stream, events, loop, known>>
screenVars == <<connected, last, shown, entries>>
ghostVars  == <<earlier, old, behind>>
refVars    == <<ref, status, history, ghostVars>>
dashVars   == <<daemonVars, feedVars, screenVars, refVars, missed>>

\* "processing" stands for INJECTING also; of CANCELLED nothing depends.
DStates == {"idle", "listening", "processing", "error"}
RefreshPlaces == {"rest", "begin", "status", "gotStatus", "history", "gotHistory"}

DashTypeOK ==
    /\ up \in BOOLEAN /\ dstate \in DStates /\ hist \in 0..MaxChanges
    /\ due \in BOOLEAN /\ changes \in 0..MaxChanges /\ downs \in 0..MaxRestarts
    /\ stream \in {"none", "joining", "up"} /\ known \in BOOLEAN
    /\ events \in Seq({<<"state", s>> : s \in DStates}
                      \cup {<<"transcript", n>> : n \in 1..MaxChanges})
    /\ connected \in BOOLEAN /\ last \in DStates \cup {"none"}
    /\ shown \in DStates \cup {"none", "offline"} /\ entries \in Seq(1..MaxChanges)
    /\ loop \in {"mount", "connect", "stream", "sleep"}
    /\ ref \in [Workers -> RefreshPlaces]
    /\ status \in [Workers -> DStates] /\ history \in [Workers -> 0..MaxChanges]
    /\ missed \in BOOLEAN /\ earlier \in [Workers -> SUBSET Workers]
    /\ old \subseteq Workers /\ behind \in BOOLEAN

DashInit ==
    /\ up \in BOOLEAN /\ dstate = "idle" /\ hist = 0 /\ due = FALSE /\ changes = 0 /\ downs = 0
    /\ stream = "none" /\ events = <<>> /\ loop = "mount" /\ known = FALSE
    /\ connected = TRUE /\ last = "none" /\ shown = "none" /\ entries = <<>>
    /\ ref = [w \in Workers |-> "rest"] /\ status = [w \in Workers |-> "idle"]
    /\ history = [w \in Workers |-> 0]
    /\ missed = TRUE /\ earlier = [w \in Workers |-> {}] /\ old = {} /\ behind = FALSE

\* run_worker(refresh_dashboard()), as soon as there is room for a worker.
Refreshes ==
    /\ \E w \in Workers : ref[w] = "rest" /\ ref' = [ref EXCEPT ![w] = "begin"]
    /\ UNCHANGED <<status, history, ghostVars>>

-----------------------------------------------------------------------------
(***************************************************************************)
(* The daemon.                                                             *)
(***************************************************************************)

Tells(e) ==
    /\ events' = IF stream = "up" THEN Append(events, e) ELSE events
    /\ missed' = (missed \/ stream # "up")

\* _on_state_changed.  An error it announces is followed by IDLE at once.
StateChanges(s) ==
    /\ up /\ changes < MaxChanges
    /\ <<dstate, s>> \in {<<"idle", "listening">>, <<"listening", "processing">>,
                          <<"listening", "idle">>, <<"listening", "error">>,
                          <<"processing", "idle">>, <<"processing", "error">>,
                          <<"error", "idle">>}
    /\ dstate = "error" => due
    /\ dstate' = s /\ due' = (s = "error") /\ changes' = changes + 1
    /\ Tells(<<"state", s>>)
    /\ UNCHANGED <<up, hist, downs, stream, loop, known, screenVars, refVars>>

\* The state changes and no event says so: the provider fails (transcribe.py), or
\* the daemon's shutdown resets the machine.
StateSlips(s) ==
    /\ up /\ ~due /\ changes < MaxChanges
    /\ \/ s = "error" /\ dstate \in {"listening", "processing"}
       \/ s = "idle" /\ dstate # "idle"
    /\ dstate' = s /\ changes' = changes + 1 /\ missed' = TRUE
    /\ UNCHANGED <<up, hist, due, downs, feedVars, screenVars, refVars>>

\* _on_transcript: a state always follows.
Transcribes ==
    /\ up /\ dstate = "processing" /\ ~due /\ hist < changes
    /\ hist' = hist + 1 /\ due' = TRUE /\ Tells(<<"transcript", hist + 1>>)
    /\ UNCHANGED <<up, dstate, changes, downs, stream, loop, known, screenVars, refVars>>

\* The daemon stops or dies: connections end, what it kept in memory is gone.
GoesDown ==
    /\ up /\ downs < MaxRestarts
    /\ up' = FALSE /\ downs' = downs + 1 /\ stream' = "none" /\ known' = FALSE
    /\ missed' = TRUE /\ due' = FALSE
    /\ UNCHANGED <<dstate, hist, changes, events, loop, screenVars, refVars>>

ComesUp ==
    /\ ~up /\ up' = TRUE /\ dstate' = "idle" /\ hist' = 0
    /\ UNCHANGED <<due, changes, downs, feedVars, screenVars, refVars, missed>>

Answered == {w \in Workers : ref[w] \in {"gotStatus", "history", "gotHistory"}}

\* get_status answered, and get_history (get_logs, between them, is left out).
AnswersStatus(w) ==
    /\ up /\ known /\ ref[w] = "status"
    /\ ref' = [ref EXCEPT ![w] = "gotStatus"] /\ status' = [status EXCEPT ![w] = dstate]
    /\ earlier' = [earlier EXCEPT ![w] = Answered] /\ missed' = (missed /\ stream # "up")
    /\ UNCHANGED <<daemonVars, feedVars, screenVars, history, old, behind>>

AnswersHistory(w) ==
    /\ up /\ known /\ ref[w] = "history"
    /\ ref' = [ref EXCEPT ![w] = "gotHistory"] /\ history' = [history EXCEPT ![w] = hist]
    /\ UNCHANGED <<daemonVars, feedVars, screenVars, status, ghostVars, missed>>

-----------------------------------------------------------------------------
(***************************************************************************)
(* The event loop.                                                         *)
(***************************************************************************)

\* _update_dashboard_shell.
Shell(s) == shown' = IF connected' THEN s ELSE "offline"

\* on_mount: the first look at the daemon, the event loop, the first refresh.
Mount ==
    /\ loop = "mount" /\ loop' = "connect"
    /\ connected' = up /\ known' = up /\ Refreshes
    /\ UNCHANGED <<daemonVars, stream, events, last, shown, entries, missed>>

\* _event_loop: connect() finds the daemon or not; stream_events subscribes.
LoopConnects ==
    /\ loop = "connect" /\ known' = up
    /\ IF up THEN loop' = "stream" /\ stream' = "joining"
             ELSE loop' = "sleep" /\ UNCHANGED stream
    /\ UNCHANGED <<daemonVars, events, screenVars, refVars, missed>>

\* The daemon adds the client.
Joins ==
    /\ stream = "joining" /\ stream' = "up"
    /\ UNCHANGED <<daemonVars, events, loop, known, screenVars, refVars, missed>>

\* The stream ends, or raises, when what it brought has been read.  (Assumption:
\* its events are handled before the next connection is made.)
LoopEnds ==
    /\ loop = "stream" /\ stream = "none" /\ events = <<>> /\ loop' \in {"connect", "sleep"}
    /\ UNCHANGED <<daemonVars, stream, events, known, screenVars, refVars, missed>>

LoopWakes ==
    /\ loop = "sleep" /\ loop' = "connect"
    /\ UNCHANGED <<daemonVars, stream, events, known, screenVars, refVars, missed>>

TakesEvent(e) == events # <<>> /\ Head(events)[1] = e /\ events' = Tail(events)

\* on_ipc_event_message.
OnState ==
    /\ TakesEvent("state")
    /\ last' = Head(events)[2] /\ UNCHANGED connected /\ Shell(Head(events)[2])
    /\ Refreshes
    /\ UNCHANGED <<daemonVars, stream, loop, known, entries, missed>>

OnTranscript ==
    /\ TakesEvent("transcript")
    /\ entries' = Append(entries, Head(events)[2]) /\ UNCHANGED connected
    /\ IF last # "none" THEN Shell(last) ELSE UNCHANGED shown
    /\ UNCHANGED <<daemonVars, stream, loop, known, last, refVars, missed>>

-----------------------------------------------------------------------------
(***************************************************************************)
(* refresh_dashboard.                                                      *)
(***************************************************************************)

Forgotten(w) == [v \in Workers |-> IF v = w THEN {} ELSE earlier[v] \ {w}]

\* The worker ends without having loaded anything.
Fails(w) ==
    /\ ref' = [ref EXCEPT ![w] = "rest"]
    /\ earlier' = Forgotten(w) /\ old' = (old \cup Answered) \ {w} /\ behind' = TRUE
    /\ UNCHANGED <<status, history>>

\* The daemon is taken for lost, or is asked.
RefreshOffline(w) ==
    /\ ref[w] = "begin" /\ ~connected /\ Fails(w)
    /\ UNCHANGED connected /\ Shell("none")
    /\ UNCHANGED <<daemonVars, feedVars, last, entries, missed>>

RefreshBegins(w) ==
    /\ ref[w] = "begin" /\ connected /\ ref' = [ref EXCEPT ![w] = "status"]
    /\ UNCHANGED <<daemonVars, feedVars, screenVars, status, history, ghostVars, missed>>

\* An exception that is no IpcConnectionError (nobody listens, no answer in time),
\* or any from get_logs and get_history: it is logged, the screen stays.
RefreshFails(w) ==
    /\ ref[w] \in {"status", "history"} /\ Fails(w)
    /\ UNCHANGED <<daemonVars, feedVars, screenVars, missed>>

\* IpcConnectionError: the daemon closes the connection, or answers with an error.
RefreshClosed(w) ==
    /\ ref[w] = "status" /\ Fails(w)
    /\ connected' = FALSE /\ Shell("none")
    /\ UNCHANGED <<daemonVars, feedVars, last, entries, missed>>

GotStatus(w) ==
    /\ ref[w] = "gotStatus" /\ ref' = [ref EXCEPT ![w] = "history"]
    /\ connected' = TRUE /\ last' = status[w] /\ Shell(status[w])
    /\ old' = old \cup earlier[w]
    /\ UNCHANGED <<daemonVars, feedVars, entries, status, history, earlier, behind, missed>>

\* Mutant of GotHistory: the transcripts received in the meantime are kept.
GotHistory_Keeps(w) ==
    /\ ref[w] = "gotHistory" /\ ref' = [ref EXCEPT ![w] = "rest"]
    /\ entries' = IF Len(entries) > history[w] THEN entries ELSE [i \in 1..history[w] |-> i]
    /\ UNCHANGED connected /\ Shell(status[w])
    /\ earlier' = Forgotten(w)
    /\ old' = (old \cup earlier[w]) \ {w} /\ behind' = (w \in old)
    /\ UNCHANGED <<daemonVars, feedVars, last, status, history, missed>>

\* The whole list is loaded anew, and the status of before shown again.
GotHistory(w) ==
    /\ ref[w] = "gotHistory" /\ ref' = [ref EXCEPT ![w] = "rest"]
    /\ entries' = [i \in 1..history[w] |-> i]
    /\ UNCHANGED connected /\ Shell(status[w])
    /\ earlier' = Forgotten(w)
    /\ old' = (old \cup earlier[w]) \ {w} /\ behind' = (w \in old)
    /\ UNCHANGED <<daemonVars, feedVars, last, status, history, missed>>

-----------------------------------------------------------------------------
EventLoop == Mount \/ LoopConnects \/ Joins \/ LoopEnds \/ LoopWakes

Refresh(w) ==
    \/ RefreshOffline(w) \/ RefreshBegins(w) \/ RefreshFails(w) \/ RefreshClosed(w)
    \/ AnswersStatus(w) \/ GotStatus(w) \/ AnswersHistory(w) \/ GotHistory(w)

DashNext ==
    \/ \E s \in DStates : StateChanges(s) \/ StateSlips(s)
    \/ Transcribes \/ GoesDown \/ ComesUp
    \/ EventLoop \/ OnState \/ OnTranscript
    \/ \E w \in Workers : Refresh(w)

DashSpec == DashInit /\ [][DashNext]_dashVars

-----------------------------------------------------------------------------
(***************************************************************************)
(* Properties.                                                             *)
(***************************************************************************)

\* Nothing is on its way and no refresh is under way.
DashRests ==
    up /\ known /\ stream = "up" /\ events = <<>> /\ \A w \in Workers : ref[w] = "rest"

\* At rest the dashboard shows the daemon's state and its transcripts, each
\* once, whatever refreshes and events overlapped on the way: unless it has
\* taken the daemon for lost, or the daemon changed without telling it and it has
\* not asked since, or the last refresh to end had failed or been overtaken.
ScreenIsTrue ==
    DashRests /\ connected /\ ~missed /\ ~behind /\ ~due
        => shown = dstate /\ entries = [i \in 1..hist |-> i]
=============================================================================
