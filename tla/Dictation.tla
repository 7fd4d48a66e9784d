------------------------------ MODULE Dictation ------------------------------
(***************************************************************************)
(* One dictation daemon: the controller (core/dictation.py), the streaming *)
(* transcription task (core/transcribe.py), the daemon's reaction to state *)
(* changes (core/daemon.py), the consumer of the hotkey queue, live        *)
(* configuration patches, injection threads and shutdown.                  *)
(*                                                                         *)
(* The event loop runs a coroutine without interruption from one await to  *)
(* the next, so an action is such a stretch and pc names the await that    *)
(* the hotkey handler is suspended at ("rest": no handler is running).     *)
(* Every await is treated as a real suspension.  A dictation is identified *)
(* by the number, sid, of the activation that started it; audio, text and  *)
(* provider are abstracted to it.                                          *)
(***************************************************************************)
EXTENDS Naturals, Sequences, FiniteSets, SessionState

CONSTANTS
    MaxSessions,   \* bound: dictations started in a behaviour
    MaxQueue,      \* bound: hotkey events waiting in the queue
    Faults,        \* the kinds of failure that may happen
    Patches        \* the configuration patches a client may send, once each

FaultKinds == {"provider", "device", "mic", "portaudio", "pump", "stt",
               "secrets", "inject", "hang", "overtake"}
PatchKinds == {"hotkey", "indicator", "inject"}

ASSUME BoundsAssumption == MaxSessions \in Nat \ {0} /\ MaxQueue \in Nat \ {0}
ASSUME KindsAssumption == Faults \subseteq FaultKinds /\ Patches \subseteq PatchKinds

Sids == 1..MaxSessions

VARIABLES
    st,          \* StateMachine._state, shared with the transcription code
    notified,    \* SyblDaemon._session_state: the last state announced
    pill,        \* what the indicator shows
    meter,       \* the level-polling task: "off", "on", "ending" (cancelled)
    pc,          \* the await the hotkey handler is suspended at
    queue,       \* the hotkey queue; "STOP" is the None that ends its consumer
    hot,         \* PynputHotkeyManager._active
    mgr,         \* the hotkey manager: "up", "stopping", "stopped"
    sid,         \* the number of the latest dictation
    session,     \* DictationController._session
    mic,         \* the dictations whose input stream is open
    stream,      \* per dictation, its transcribe_stream task
    task,        \* DictationController._stream_task (0 is None)
    streaming,   \* DictationController._use_streaming
    src, words,  \* the outcome being finished: whose audio, what text
    history,     \* dictations recorded in the transcript history, in order
    thr,         \* per dictation, its injection thread
    discarded,   \* history variable: cancelled or too short
    injectOn,    \* config.inject.enabled
    patched,     \* the patches already sent
    restart,     \* apply_config waits for hotkeys.stop(), to start a new manager
    sd           \* the await daemon.shutdown is suspended at

daemonVars  == <<notified, pill, meter>>
hotkeyVars  == <<queue, hot, mgr>>
captureVars == <<sid, session, mic>>
streamVars  == <<stream, task, streaming>>
outputVars  == <<src, words, history, thr, discarded>>
controlVars == <<injectOn, patched, restart, sd>>
vars == <<st, pc, daemonVars, hotkeyVars, captureVars, streamVars, outputVars,
          controlVars>>

Events == {"ACTIVATE", "DEACTIVATE", "CANCEL"}
NotifyPcs == {"listenNotify", "procNotify", "injectNotify", "cancelNotify",
              "errNotify", "idleNotify"}
Pcs == NotifyPcs \cup
       {"rest", "stopping", "shortAwait", "awaitStream", "transcribing",
        "transcriptNotify", "injecting", "cancelAwait", "cancelStop"}
Live == {"running", "cancelling"}    \* a stream task that is not done()

ControlType ==
    /\ st \in SessionStates /\ notified \in SessionStates
    /\ pill \in {"hidden", "listening", "processing"}
    /\ meter \in {"off", "on", "ending"}
    /\ pc \in Pcs
    /\ mgr \in {"up", "stopping", "stopped"}
    /\ session \in {"none", "recording", "broken", "stopped"}
    /\ words \in {"blank", "command", "text"}
    /\ sd \in {"up", "locking", "sdAwait", "sdStop", "released", "stopHotkeys",
               "hotkeysStopped", "ipcStop", "down"}

FlagType == /\ hot \in BOOLEAN /\ streaming \in BOOLEAN
            /\ injectOn \in BOOLEAN /\ restart \in BOOLEAN

DataType ==
    /\ queue \in Seq(Events \cup {"STOP"})
    /\ sid \in 0..MaxSessions /\ task \in 0..MaxSessions /\ src \in 0..MaxSessions
    /\ mic \subseteq Sids /\ discarded \subseteq Sids /\ patched \subseteq Patches
    /\ stream \in [Sids -> Live \cup {"none", "done", "failed", "cancelled"}]
    /\ thr \in [Sids -> {"none", "live", "pasted", "failed"}]
    /\ history \in Seq(Sids)

TypeOK == ControlType /\ FlagType /\ DataType

Init ==
    /\ st = "IDLE" /\ notified = "IDLE" /\ pill = "hidden" /\ meter = "off"
    /\ pc = "rest" /\ queue = <<>> /\ hot = FALSE /\ mgr = "up"
    /\ sid = 0 /\ session = "none" /\ mic = {}
    /\ stream = [s \in Sids |-> "none"] /\ task = 0 /\ streaming = FALSE
    /\ src = 0 /\ words = "blank" /\ history = <<>>
    /\ thr = [s \in Sids |-> "none"] /\ discarded = {}
    /\ injectOn \in BOOLEAN /\ patched = {} /\ restart = FALSE /\ sd = "up"

-----------------------------------------------------------------------------
(***************************************************************************)
(* Pieces of a handler.                                                    *)
(***************************************************************************)

\* await self._transition(to): the state changes at once and the handler
\* suspends in the announcement p; an illegal transition raises out of the
\* handler, which the queue's consumer logs.
MoveTo(to, p) ==
    IF CanTransition(st, to) THEN st' = to /\ pc' = p
                             ELSE UNCHANGED st /\ pc' = "rest"

\* Mutant of Announced: show() only together with a new level task.
Announced_ShowsWithMeter(s) ==
    /\ notified' = s
    /\ pill' = CASE s = "LISTENING" -> IF meter = "off" THEN "listening" ELSE pill
                 [] s \in {"PROCESSING", "INJECTING"} ->
                        IF pill = "hidden" THEN "hidden" ELSE "processing"
                 [] OTHER -> "hidden"
    /\ meter' = IF s = "LISTENING" THEN "on" ELSE IF meter = "on" THEN "ending" ELSE meter

\* _on_state_changed after its await: sound cues aside, the pill is shown,
\* re-phased (which never shows a hidden pill) or hidden, and the level task
\* is started when there is none alive, or cancelled.
Announced(s) ==
    /\ notified' = s
    /\ pill' = CASE s = "LISTENING" -> "listening"
                 [] s \in {"PROCESSING", "INJECTING"} ->
                        IF pill = "hidden" THEN "hidden" ELSE "processing"
                 [] OTHER -> "hidden"
    /\ meter' = IF s = "LISTENING"
                THEN IF meter = "off" THEN "on" ELSE meter
                ELSE IF meter = "on" THEN "ending" ELSE meter

\* Mutant of ResetSession: the stream task stays referenced.
ResetSession_KeepsTask == session' = "none" /\ streaming' = FALSE /\ UNCHANGED task

\* _reset_session: the references are dropped, nothing is closed.
ResetSession == session' = "none" /\ task' = 0 /\ streaming' = FALSE

\* Mutants: the task is not cancelled; one being cancelled is not awaited.
CancelStream_Forgotten == UNCHANGED stream
StreamPending_Unawaited == task # 0 /\ stream[task] = "running"

\* Task.cancel() on the controller's stream task.
CancelStream == stream' = [stream EXCEPT ![task] =
                               IF @ \in Live THEN "cancelling" ELSE @]
StreamPending == task # 0 /\ stream[task] \in Live
StreamRaises  == task # 0 /\ stream[task] = "failed"

\* The controller's lock is held by a running handler or by shutdown, and an
\* asyncio.Lock is granted in order: a waiting shutdown goes before the next
\* event.
HandlerMayStart == pc = "rest" /\ sd \notin {"locking", "sdAwait", "sdStop", "down"}

\* _consume takes the next event.
Take(e) ==
    /\ HandlerMayStart /\ mgr # "stopped"
    /\ queue # <<>> /\ Head(queue) = e
    /\ queue' = Tail(queue)

-----------------------------------------------------------------------------
(***************************************************************************)
(* ACTIVATE.                                                               *)
(***************************************************************************)

\* Ignored unless IDLE; and no provider, an unreadable vocabulary or keyring
\* raises before anything has changed.
ActivateIgnored ==
    /\ Take("ACTIVATE")
    /\ st # "IDLE" \/ "provider" \in Faults
    /\ UNCHANGED <<st, pc, hot, mgr, daemonVars, captureVars, streamVars,
                   outputVars, controlVars>>

Activate ==
    /\ Take("ACTIVATE")
    /\ st = "IDLE" /\ sid < MaxSessions
    /\ sid' = sid + 1
    /\ streaming' \in BOOLEAN
    /\ MoveTo("LISTENING", "listenNotify")
    /\ UNCHANGED <<hot, mgr, daemonVars, session, mic, stream, task,
                   outputVars, controlVars>>

\* The capture opens, and a stream task is created for a streaming provider.
CaptureStarts ==
    /\ pc = "listenNotify" /\ pc' = "rest"
    /\ Announced("LISTENING")
    /\ session' = "recording" /\ mic' = mic \cup {sid}
    /\ IF streaming
       THEN task' = sid /\ stream' = [stream EXCEPT ![sid] = "running"]
       ELSE UNCHANGED <<task, stream>>
    /\ UNCHANGED <<st, sid, streaming, hotkeyVars, outputVars, controlVars>>

\* It does not: the constructor raises and _session keeps its old value
\* ("device"); start() raises an AudioError, which is announced ("mic"); or it
\* raises a PortAudioError, which nothing catches ("portaudio").
CaptureFails ==
    /\ pc = "listenNotify"
    /\ Announced("LISTENING")
    /\ \/ "device" \in Faults /\ pc' = "rest" /\ UNCHANGED <<st, session>>
       \/ "mic" \in Faults /\ session' = "broken" /\ MoveTo("ERROR", "errNotify")
       \/ "portaudio" \in Faults /\ session' = "broken" /\ pc' = "rest"
          /\ UNCHANGED st
    /\ UNCHANGED <<sid, mic, hotkeyVars, streamVars, outputVars, controlVars>>

-----------------------------------------------------------------------------
(***************************************************************************)
(* DEACTIVATE.                                                             *)
(***************************************************************************)

\* Mutant of DeactivateIgnored: tests is_recording instead of None.
DeactivateIgnored_NotRecording ==
    /\ Take("DEACTIVATE")
    /\ st # "LISTENING" \/ session # "recording"
    /\ UNCHANGED <<st, pc, hot, mgr, daemonVars, captureVars, streamVars,
                   outputVars, controlVars>>

DeactivateIgnored ==
    /\ Take("DEACTIVATE")
    /\ st # "LISTENING" \/ session = "none"
    /\ UNCHANGED <<st, pc, hot, mgr, daemonVars, captureVars, streamVars,
                   outputVars, controlVars>>

\* session.stop() closes the input stream and waits for the pump; of a
\* session that is not recording it raises SessionError at once.
Deactivate ==
    /\ Take("DEACTIVATE")
    /\ st = "LISTENING"
    /\ \/ /\ session = "recording"
          /\ session' = "stopped" /\ mic' = mic \ {sid}
          /\ pc' = "stopping" /\ UNCHANGED st
       \/ /\ session \in {"broken", "stopped"}
          /\ MoveTo("ERROR", "errNotify")
          /\ UNCHANGED <<session, mic>>
    /\ UNCHANGED <<hot, mgr, sid, daemonVars, streamVars, outputVars, controlVars>>

PumpFailed ==
    /\ pc = "stopping" /\ "pump" \in Faults
    /\ MoveTo("ERROR", "errNotify")
    /\ UNCHANGED <<daemonVars, hotkeyVars, captureVars, streamVars, outputVars,
                   controlVars>>

\* Mutant of TooShort: the return is missing.
TooShort_NoReturn ==
    /\ pc = "stopping"
    /\ discarded' = discarded \cup {sid}
    /\ MoveTo("PROCESSING", "procNotify")
    /\ UNCHANGED <<daemonVars, hotkeyVars, captureVars, streamVars, src, words,
                   history, thr, controlVars>>

\* Shorter than min_duration_ms: the stream task is cancelled and awaited.
\* Only CancelledError is caught there: the error of a failed task escapes.
TooShort ==
    /\ pc = "stopping"
    /\ discarded' = discarded \cup {sid}
    /\ IF task # 0 THEN CancelStream ELSE UNCHANGED stream
    /\ \/ StreamPending /\ pc' = "shortAwait" /\ UNCHANGED st
       \/ StreamRaises /\ pc' = "rest" /\ UNCHANGED st
       \/ ~StreamPending /\ ~StreamRaises /\ MoveTo("IDLE", "idleNotify")
    /\ UNCHANGED <<daemonVars, hotkeyVars, captureVars, task, streaming, src,
                   words, history, thr, controlVars>>

ShortAwaited ==
    /\ pc = "shortAwait" /\ ~StreamPending
    /\ IF StreamRaises THEN pc' = "rest" /\ UNCHANGED st
                       ELSE MoveTo("IDLE", "idleNotify")
    /\ UNCHANGED <<daemonVars, hotkeyVars, captureVars, streamVars, outputVars,
                   controlVars>>

LongEnough ==
    /\ pc = "stopping"
    /\ MoveTo("PROCESSING", "procNotify")
    /\ UNCHANGED <<daemonVars, hotkeyVars, captureVars, streamVars, outputVars,
                   controlVars>>

\* except STTError: announced only if the machine is still PROCESSING, which a
\* failing transcribe_* has usually changed already.
SttRaised ==
    IF st = "PROCESSING"
    THEN MoveTo("ERROR", "errNotify") /\ UNCHANGED <<session, task, streaming>>
    ELSE ResetSession /\ pc' = "rest" /\ UNCHANGED st

\* Either the stream task is awaited or the buffer is sent; transcribe_pcm
\* resolves the provider again first, outside its own try block.
Transcribe ==
    /\ pc = "procNotify"
    /\ Announced("PROCESSING")
    /\ IF streaming /\ task # 0
       THEN pc' = "awaitStream" /\ UNCHANGED <<st, session, task, streaming>>
       ELSE \/ pc' = "transcribing" /\ UNCHANGED <<st, session, task, streaming>>
            \/ "provider" \in Faults /\ SttRaised
            \/ /\ "secrets" \in Faults
               /\ pc' = "rest" /\ UNCHANGED <<st, session, task, streaming>>
    /\ UNCHANGED <<sid, mic, stream, hotkeyVars, outputVars, controlVars>>

\* Mutants of Finish: the outcome is recorded before it is assigned; recorded
\* twice; a plain text is not recorded.
Finish_BeforeAssigned(s) ==
    /\ src' = s /\ words' = "text"
    /\ history' = Append(history, src)
    /\ pc' = "transcriptNotify" /\ UNCHANGED st
Finish_Twice(s) ==
    /\ src' = s /\ words' = "text"
    /\ history' = history \o <<s, s>>
    /\ pc' = "transcriptNotify" /\ UNCHANGED st
Finish_Unrecorded(s) ==
    /\ src' = s /\ words' = "text"
    /\ pc' = "transcriptNotify" /\ UNCHANGED <<st, history>>

\* An outcome with audio of dictation s: a transcript that is not blank is
\* recorded and announced; a blank one leads straight back to IDLE.
Finish(s) ==
    /\ src' = s
    /\ \/ /\ words' = "blank"
          /\ MoveTo("IDLE", "idleNotify")
          /\ UNCHANGED history
       \/ /\ words' \in {"command", "text"}
          /\ history' = Append(history, s)
          /\ pc' = "transcriptNotify" /\ UNCHANGED st

BatchDone ==
    /\ pc = "transcribing"
    /\ Finish(sid)
    /\ UNCHANGED <<daemonVars, hotkeyVars, captureVars, streamVars, thr,
                   discarded, controlVars>>

\* transcribe_pcm puts the machine in ERROR without an announcement and
\* raises; the controller then finds it no longer PROCESSING and only drops
\* its references.
BatchFails ==
    /\ pc = "transcribing" /\ "stt" \in Faults
    /\ st' = IF st = "PROCESSING" THEN "ERROR" ELSE st
    /\ ResetSession /\ pc' = "rest"
    /\ UNCHANGED <<daemonVars, hotkeyVars, sid, mic, stream, outputVars,
                   controlVars>>

StreamAwaited ==
    /\ pc = "awaitStream"
    /\ \/ /\ stream[task] = "done"
          /\ Finish(task)
          /\ UNCHANGED <<session, task, streaming>>
       \/ /\ StreamRaises /\ SttRaised
          /\ UNCHANGED <<src, words, history>>
    /\ UNCHANGED <<daemonVars, hotkeyVars, sid, mic, stream, thr, discarded,
                   controlVars>>

\* _finish_outcome after the transcript is announced.  A transition refused
\* here is caught by its own except clause, which moves on to IDLE.
TranscriptNotified ==
    /\ pc = "transcriptNotify"
    /\ IF words = "text" /\ injectOn /\ CanTransition(st, "INJECTING")
       THEN MoveTo("INJECTING", "injectNotify")
       ELSE MoveTo("IDLE", "idleNotify")
    /\ UNCHANGED <<daemonVars, hotkeyVars, captureVars, streamVars, outputVars,
                   controlVars>>

InjectStarts ==
    /\ pc = "injectNotify" /\ pc' = "injecting"
    /\ Announced("INJECTING")
    /\ thr' = [thr EXCEPT ![src] = "live"]
    /\ UNCHANGED <<st, hotkeyVars, captureVars, streamVars, src, words, history,
                   discarded, controlVars>>

\* Mutant of InjectEnds: the injection is started but not awaited.
InjectEnds_NoWait ==
    /\ pc = "injecting" /\ MoveTo("IDLE", "idleNotify")
    /\ UNCHANGED <<daemonVars, hotkeyVars, captureVars, streamVars, outputVars,
                   controlVars>>

\* The injection returns, raises, or is given up after 15 s while its thread
\* goes on.
InjectEnds ==
    /\ pc = "injecting"
    /\ \/ thr[src] = "pasted" /\ MoveTo("IDLE", "idleNotify")
       \/ /\ thr[src] = "failed" \/ ("hang" \in Faults /\ thr[src] = "live")
          /\ MoveTo("ERROR", "errNotify")
    /\ UNCHANGED <<daemonVars, hotkeyVars, captureVars, streamVars, outputVars,
                   controlVars>>

\* The two announcements every path above ends with.
ErrorNotified ==
    /\ pc = "errNotify"
    /\ Announced("ERROR") /\ MoveTo("IDLE", "idleNotify")
    /\ UNCHANGED <<hotkeyVars, captureVars, streamVars, outputVars, controlVars>>

IdleNotified ==
    /\ pc = "idleNotify" /\ pc' = "rest"
    /\ Announced("IDLE") /\ ResetSession
    /\ UNCHANGED <<st, hotkeyVars, sid, mic, stream, outputVars, controlVars>>

-----------------------------------------------------------------------------
(***************************************************************************)
(* CANCEL.                                                                 *)
(***************************************************************************)

\* Mutant of CancelCapture: cleanup with cancel=False.
CancelCapture_LeavesOpen ==
    /\ task' = 0 /\ session' = "none" /\ streaming' = FALSE
    /\ MoveTo("CANCELLED", "cancelNotify") /\ UNCHANGED mic

\* _cleanup_session once the stream task is over: close a recording session
\* (and wait for its pump), forget any other.
CancelCapture ==
    /\ task' = 0
    /\ \/ /\ session = "recording"
          /\ session' = "stopped" /\ mic' = mic \ {sid}
          /\ pc' = "cancelStop" /\ UNCHANGED <<st, streaming>>
       \/ /\ session # "recording"
          /\ session' = "none" /\ streaming' = FALSE
          /\ MoveTo("CANCELLED", "cancelNotify") /\ UNCHANGED mic

CancelIgnored ==
    /\ Take("CANCEL")
    /\ st # "LISTENING"
    /\ UNCHANGED <<st, pc, hot, mgr, daemonVars, captureVars, streamVars,
                   outputVars, controlVars>>

Cancel ==
    /\ Take("CANCEL")
    /\ st = "LISTENING"
    /\ discarded' = discarded \cup {sid}
    /\ IF StreamPending
       THEN /\ CancelStream /\ pc' = "cancelAwait"
            /\ UNCHANGED <<st, session, mic, task, streaming>>
       ELSE CancelCapture /\ UNCHANGED stream
    /\ UNCHANGED <<hot, mgr, daemonVars, sid, src, words, history, thr,
                   controlVars>>

CancelAwaited ==
    /\ pc = "cancelAwait" /\ ~StreamPending
    /\ CancelCapture
    /\ UNCHANGED <<daemonVars, hotkeyVars, sid, stream, outputVars, controlVars>>

CancelStopped ==
    /\ pc = "cancelStop"
    /\ session' = "none" /\ streaming' = FALSE
    /\ MoveTo("CANCELLED", "cancelNotify")
    /\ UNCHANGED <<daemonVars, hotkeyVars, sid, mic, stream, task, outputVars,
                   controlVars>>

CancelNotified ==
    /\ pc = "cancelNotify"
    /\ Announced("CANCELLED") /\ MoveTo("IDLE", "idleNotify")
    /\ UNCHANGED <<hotkeyVars, captureVars, streamVars, outputVars, controlVars>>

-----------------------------------------------------------------------------
(***************************************************************************)
(* What runs beside the handler.                                           *)
(***************************************************************************)

\* transcribe_stream ends once the audio has: the capture is over, or its
\* pump died.
StreamDone(s) ==
    /\ stream[s] = "running"
    /\ s \notin mic \/ "pump" \in Faults
    /\ stream' = [stream EXCEPT ![s] = "done"]
    /\ UNCHANGED <<st, pc, daemonVars, hotkeyVars, captureVars, task, streaming,
                   outputVars, controlVars>>

\* It fails at any moment, also while being cancelled, and puts the machine
\* in ERROR without an announcement.
StreamFails(s) ==
    /\ stream[s] \in Live /\ "stt" \in Faults
    /\ stream' = [stream EXCEPT ![s] = "failed"]
    /\ st' = IF st \in {"LISTENING", "PROCESSING"} THEN "ERROR" ELSE st
    /\ UNCHANGED <<pc, daemonVars, hotkeyVars, captureVars, task, streaming,
                   outputVars, controlVars>>

StreamCancelled(s) ==
    /\ stream[s] = "cancelling"
    /\ stream' = [stream EXCEPT ![s] = "cancelled"]
    /\ UNCHANGED <<st, pc, daemonVars, hotkeyVars, captureVars, task, streaming,
                   outputVars, controlVars>>

\* The worker thread of an injection pastes, or raises InjectError.
InjectThread(s) ==
    /\ thr[s] = "live"
    /\ \/ thr' = [thr EXCEPT ![s] = "pasted"]
       \/ "inject" \in Faults /\ thr' = [thr EXCEPT ![s] = "failed"]
    /\ UNCHANGED <<st, pc, daemonVars, hotkeyVars, captureVars, streamVars, src,
                   words, history, discarded, controlVars>>

\* _poll_levels: cancelled, or seeing that the controller is not LISTENING.
MeterExits ==
    /\ meter = "ending" \/ (meter = "on" /\ st # "LISTENING")
    /\ meter' = "off"
    /\ UNCHANGED <<st, pc, notified, pill, hotkeyVars, captureVars, streamVars,
                   outputVars, controlVars>>

\* The hotkey manager's threads emit an event: DEACTIVATE and CANCEL in an
\* active session, ACTIVATE to open one; a second ACTIVATE is possible when the
\* hold timer and a double press fire together, and with "overtake" events of
\* the listener get ahead of the hold timer's ACTIVATE (module Hotkeys).  When
\* the consumer sleeps on an empty queue the loop runs a cancelled level task
\* before it can wake the consumer.
Emit(e) ==
    /\ mgr = "up" /\ Len(queue) < MaxQueue
    /\ ~(meter = "ending" /\ pc = "rest" /\ queue = <<>>)
    /\ IF e = "ACTIVATE"
       THEN sid + Cardinality({i \in DOMAIN queue : queue[i] = e}) < MaxSessions
       ELSE hot \/ "overtake" \in Faults
    /\ queue' = Append(queue, e)
    /\ hot' \in {e = "ACTIVATE" \/ (hot /\ e = "CANCEL")}
                \cup (IF "overtake" \in Faults THEN {FALSE} ELSE {})
    /\ UNCHANGED <<st, pc, mgr, daemonVars, captureVars, streamVars, outputVars,
                   controlVars>>

-----------------------------------------------------------------------------
(***************************************************************************)
(* Patches of the live configuration, and shutdown.                        *)
(***************************************************************************)

\* PynputHotkeyManager.stop up to its wait: the listener stops and the
\* sentinel is queued, ahead of events whose put_nowait has not run yet.  A
\* second stop() of the same manager waits for the same consumer; the sentinel
\* that it queues is never read.
BeginStop ==
    IF mgr = "up"
    THEN /\ mgr' = "stopping"
         /\ \E k \in 0..Len(queue) : queue' = Append(SubSeq(queue, 1, k), "STOP")
         /\ UNCHANGED hot
    ELSE UNCHANGED hotkeyVars

\* The consumer's task is over, and a shutdown that waits for it goes on.
ConsumerEnds ==
    mgr' = "stopped" /\ sd' = IF sd = "stopHotkeys" THEN "hotkeysStopped" ELSE sd

\* The consumer meets the sentinel and ends, without the lock.
ConsumerStops ==
    /\ pc = "rest" /\ mgr = "stopping"
    /\ queue # <<>> /\ Head(queue) = "STOP" /\ queue' = Tail(queue)
    /\ ConsumerEnds
    /\ UNCHANGED <<st, pc, hot, daemonVars, captureVars, streamVars, outputVars,
                   injectOn, patched, restart>>

\* After 2 s stop() cancels the consumer: the CancelledError ends a handler
\* suspended in an announcement, a transcription or an injection, and cancels
\* the stream task it awaits.  The other awaits swallow it.  A consumer that
\* waits for the lock ends too.
ConsumerKilled ==
    /\ mgr = "stopping" /\ ConsumerEnds
    /\ \/ pc \in NotifyPcs \cup {"awaitStream", "transcribing",
                                 "transcriptNotify", "injecting"}
       \/ pc = "rest" /\ ~HandlerMayStart
    /\ pc' = "rest" /\ queue' = <<>>
    /\ IF pc = "awaitStream"
       THEN stream' = [stream EXCEPT ![task] = IF @ \in Live THEN "cancelled" ELSE @]
       ELSE UNCHANGED stream
    /\ UNCHANGED <<st, hot, daemonVars, captureVars, task, streaming, outputVars,
                   injectOn, patched, restart>>

\* apply_config: the part that runs at once.  A new indicator object has
\* nothing on screen.  Commands are served until the process ends.
Patch(p) ==
    /\ sd # "down" /\ p \notin patched
    /\ patched' = patched \cup {p}
    /\ IF p = "hotkey" THEN BeginStop ELSE UNCHANGED hotkeyVars
    /\ restart' = (restart \/ p = "hotkey")
    /\ pill' = IF p = "indicator" THEN "hidden" ELSE pill
    /\ injectOn' = (injectOn # (p = "inject"))
    /\ UNCHANGED <<st, pc, notified, meter, captureVars, streamVars, outputVars, sd>>

\* ... and, for a hotkey change, the part after stop(): a new manager, also
\* when shutdown has stopped the one it held.
HotkeysRestart ==
    /\ restart /\ mgr = "stopped" /\ sd # "down"
    /\ restart' = FALSE /\ mgr' = "up" /\ hot' = FALSE /\ queue' = <<>>
    /\ UNCHANGED <<st, pc, daemonVars, captureVars, streamVars, outputVars,
                   injectOn, patched, sd>>

RequestShutdown ==
    /\ sd = "up" /\ sd' = "locking"
    /\ meter' = IF meter = "on" THEN "ending" ELSE meter
    /\ UNCHANGED <<st, pc, notified, pill, hotkeyVars, captureVars, streamVars,
                   outputVars, injectOn, patched, restart>>

\* Mutant of ShutdownCapture: reset without closing the capture.
ShutdownCapture_LeavesOpen ==
    /\ task' = 0 /\ session' = "none" /\ streaming' = FALSE
    /\ st' = "IDLE" /\ sd' = "released" /\ UNCHANGED mic

\* controller.shutdown after the stream task: close the capture, then reset
\* the machine without an announcement and release the lock.
ShutdownCapture ==
    /\ task' = 0
    /\ \/ /\ session = "recording"
          /\ session' = "stopped" /\ mic' = mic \ {sid}
          /\ sd' = "sdStop" /\ UNCHANGED <<st, streaming>>
       \/ /\ session # "recording"
          /\ session' = "none" /\ streaming' = FALSE
          /\ st' = "IDLE" /\ sd' = "released" /\ UNCHANGED mic

ShutdownLocks ==
    /\ sd = "locking" /\ pc = "rest"
    /\ IF StreamPending
       THEN /\ CancelStream /\ sd' = "sdAwait"
            /\ UNCHANGED <<st, session, mic, task, streaming>>
       ELSE ShutdownCapture /\ UNCHANGED stream
    /\ UNCHANGED <<pc, daemonVars, hotkeyVars, sid, outputVars, injectOn, patched,
                   restart>>

ShutdownAwaited ==
    /\ sd = "sdAwait" /\ ~StreamPending
    /\ ShutdownCapture
    /\ UNCHANGED <<pc, daemonVars, hotkeyVars, sid, stream, outputVars, injectOn,
                   patched, restart>>

ShutdownStopped ==
    /\ sd = "sdStop" /\ sd' = "released"
    /\ session' = "none" /\ streaming' = FALSE /\ st' = "IDLE"
    /\ UNCHANGED <<pc, daemonVars, hotkeyVars, sid, mic, stream, task, outputVars,
                   injectOn, patched, restart>>

\* daemon.shutdown goes on: hotkeys.stop() of the manager it holds, which a
\* patch in flight may be stopping, or have stopped, as well.
ShutdownHotkeys ==
    /\ sd = "released"
    /\ sd' = IF mgr = "stopped" THEN "hotkeysStopped" ELSE "stopHotkeys"
    /\ BeginStop
    /\ UNCHANGED <<st, pc, daemonVars, captureVars, streamVars, outputVars,
                   injectOn, patched, restart>>

\* ... the indicator is hidden and shut down, and ipc.stop() awaited.  (_active
\* of the stopped manager is reset; a new one's is not.)
ShutdownIndicator ==
    /\ sd = "hotkeysStopped" /\ sd' = "ipcStop"
    /\ pill' = "hidden" /\ hot' = (hot /\ mgr = "up")
    /\ UNCHANGED <<st, pc, notified, meter, queue, mgr, captureVars, streamVars,
                   outputVars, injectOn, patched, restart>>

\* ipc.stop() returns, when its clients let it (module EventStream), and the
\* process ends with whatever still runs in it.
ProcessEnds ==
    /\ sd = "ipcStop" /\ sd' = "down"
    /\ UNCHANGED <<st, pc, daemonVars, hotkeyVars, captureVars, streamVars,
                   outputVars, injectOn, patched, restart>>

\* The process is gone.
Terminated == sd = "down" /\ UNCHANGED vars

-----------------------------------------------------------------------------
Handler ==
    \/ ActivateIgnored \/ Activate \/ CaptureStarts \/ CaptureFails
    \/ DeactivateIgnored \/ Deactivate \/ PumpFailed \/ TooShort \/ ShortAwaited
    \/ LongEnough \/ Transcribe \/ BatchDone \/ BatchFails \/ StreamAwaited
    \/ TranscriptNotified \/ InjectStarts \/ InjectEnds \/ ErrorNotified
    \/ IdleNotified \/ CancelIgnored \/ Cancel \/ CancelAwaited \/ CancelStopped
    \/ CancelNotified \/ ConsumerStops

Background ==
    \/ \E s \in Sids : StreamDone(s) \/ StreamFails(s) \/ StreamCancelled(s)
                       \/ InjectThread(s)
    \/ MeterExits \/ ConsumerKilled \/ HotkeysRestart

Shutdown ==
    \/ ShutdownLocks \/ ShutdownAwaited \/ ShutdownStopped \/ ShutdownHotkeys
    \/ ShutdownIndicator

Environment ==
    \/ \E e \in Events : Emit(e)
    \/ \E p \in Patches : Patch(p)
    \/ RequestShutdown \/ ProcessEnds

Next == Handler \/ Background \/ Shutdown \/ Environment \/ Terminated

Spec == Init /\ [][Next]_vars

\* asyncio runs every ready coroutine; a provider answers, or its client times
\* out, once the audio is over; the injection wait ends after 15 s at most.
\* Nothing is assumed of the user, of clients, of an injection thread, or of the
\* end of ipc.stop(), which waits for clients.
Fairness ==
    /\ WF_vars(Handler) /\ WF_vars(Shutdown)
    /\ WF_vars(HotkeysRestart) /\ WF_vars(MeterExits)
    /\ \A s \in Sids : /\ WF_vars(s \notin mic /\ StreamDone(s))
                       /\ WF_vars(StreamCancelled(s))
FairSpec == Spec /\ Fairness

-----------------------------------------------------------------------------
(***************************************************************************)
(* Properties that hold under every fault and every hotkey restart.        *)
(***************************************************************************)

StreamHasFailed == \E s \in Sids : stream[s] = "failed"

\* The microphone is open only for the latest dictation, and the controller
\* holds its session: no path of the controller, its failures, cancellations
\* and shutdown included, drops a recording session.  And the machine is then
\* LISTENING, so that CANCEL and DEACTIVATE close it, with one exception: a
\* stream task that fails puts the machine in ERROR while the microphone is
\* open, and from then on both events are ignored, and only shutdown closes it.
MicrophoneOwned ==
    /\ mic = IF session = "recording" THEN {sid} ELSE {}
    /\ mic # {} => \/ st = "LISTENING"
                   \/ st = "ERROR" /\ StreamHasFailed

\* While the microphone is open the pill says so, until shutdown has hidden it:
\* a dictation that was activated after shutdown had cleaned up the controller
\* goes on without a pill until the process ends.
PillShowsRecording ==
    mic # {} /\ sd \notin {"ipcStop", "down"} => pill = "listening"

\* Nothing of a dictation the user cancelled, or released too early, is ever
\* recorded in the history or typed, however late its stream task ends.
CancelledNeverDelivered ==
    \A s \in discarded : thr[s] = "none" /\ \A i \in DOMAIN history : history[i] # s

\* Each dictation is recorded once at most and in the order of activation: a
\* transcript never comes from the stream task of an earlier dictation.
HistoryInOrder ==
    \A i, j \in DOMAIN history : i < j => history[i] < history[j]

\* Text handed to the injector is in the history first, so that a failed paste
\* loses nothing.
RecordedBeforePasted ==
    \A s \in Sids : thr[s] # "none" => \E i \in DOMAIN history : history[i] = s

\* The daemon keeps the contract of module DictationContract.
Contract == INSTANCE DictationContract WITH
                open <- mic, kept <- history, dropped <- discarded,
                typed <- {s \in Sids : thr[s] = "pasted"}
ContractSpec == Contract!Spec

-----------------------------------------------------------------------------
(***************************************************************************)
(* Properties of the daemon at rest: no handler runs, no shutdown.         *)
(***************************************************************************)

AtRest == pc = "rest" /\ sd = "up"

\* Between two events the machine, the daemon's copy of its state, the session
\* and the pill agree: either all say idle or all say listening.  (Without
\* STT failures, which break it: run SttErrorPill.)
RestIsConsistent ==
    AtRest => \/ /\ st = "IDLE" /\ notified = "IDLE" /\ pill = "hidden"
                 /\ session = "none" /\ task = 0
              \/ /\ st = "LISTENING" /\ notified = "LISTENING"
                 /\ pill = "listening" /\ session \in {"recording", "broken"}

\* No transcription stream outlives its dictation.  (A pump failure breaks it:
\* the controller then forgets the task without cancelling it.)
NoOrphanStream ==
    \A s \in Sids : stream[s] \in Live => task = s

\* Esc cancels while listening: as long as the controller listens and no event
\* is on its way, the hotkey manager is in a session, so that the cancel
\* binding is emitted.
EscCancels == AtRest /\ queue = <<>> /\ mgr = "up" /\ st = "LISTENING" => hot

\* A paste reaches the focused application only while the daemon says that it
\* is injecting, and only the latest dictation's text.  (A thread that
\* outlives the 15 s wait, or its killed handler, breaks it.)
PasteWhileInjecting ==
    [][\A s \in Sids : thr[s] # "pasted" /\ thr'[s] = "pasted"
                       => st = "INJECTING" /\ s = sid]_vars

\* What CHANGELOG.md says of the pill: it hides on idle, cancel and error.
PillHidesOnError == AtRest /\ st = "ERROR" => pill = "hidden"

\* A dictation that left LISTENING gets back to IDLE, unless shutdown stops the
\* hotkeys: the hotkey is never dead for good.
ReturnsToIdle ==
    st \in {"PROCESSING", "INJECTING", "CANCELLED", "ERROR"}
        ~> st = "IDLE" \/ sd \in {"ipcStop", "down"}

\* A requested shutdown gets the lock, cleans up, stops the hotkey manager and
\* hides the pill, whatever the handler was doing, whatever fails, and also when
\* a patch is stopping or restarting the manager at the same time.  (What is
\* left is ipc.stop(): StopEnds of module EventStream.)
ShutdownCompletes == sd = "locking" ~> sd \in {"ipcStop", "down"}
=============================================================================
