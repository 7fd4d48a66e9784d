----------------------- MODULE DictationHandlerProofs -----------------------
(***************************************************************************)
(* What holds of module Dictation while one hotkey manager lives, or short *)
(* of some failures: the state the handler leaves behind at its awaits and *)
(* at rest, Esc, the stream tasks, the pastes and the pill.  Each theorem  *)
(* names the faults and the patches that it has to do without.             *)
(***************************************************************************)
EXTENDS DictationProofs, SequenceTheorems

USE DEF vars, daemonVars, hotkeyVars, captureVars, streamVars, outputVars,
        controlVars

\* The hotkey is not changed while the daemon runs: no handler is killed before
\* shutdown stops the manager.
NoRestart == "hotkey" \notin Patches

\* The pill says so while the microphone is open: only a patch of the indicator
\* hides it.
THEOREM PillAlwaysShowsRecording ==
  ASSUME "indicator" \notin Patches
  PROVE  Spec => []PillShowsRecording
<1>1. Init => PillShowsRecording
  BY DEF Init, PillShowsRecording
<1>2. PillShowsRecording /\ MicInv /\ [Next]_vars => PillShowsRecording'
  <2> SUFFICES ASSUME PillShowsRecording, MicInv, [Next]_vars PROVE PillShowsRecording'
    OBVIOUS
  <2> USE DEF PillShowsRecording, MicInv, MicrophoneOwned
  <2>1. CASE ActivateIgnored
    BY <2>1 DEF ActivateIgnored, Take
  <2>2. CASE Activate
    BY <2>2 DEF Activate, Take
  <2>3. CASE CaptureStarts
    BY <2>3 DEF CaptureStarts, Announced
  <2>4. CASE CaptureFails
    BY <2>4 DEF CaptureFails, Announced
  <2>5. CASE DeactivateIgnored
    BY <2>5 DEF DeactivateIgnored, Take
  <2>6. CASE Deactivate
    BY <2>6 DEF Deactivate, Take
  <2>7. CASE PumpFailed
    BY <2>7 DEF PumpFailed
  <2>8. CASE TooShort
    BY <2>8 DEF TooShort
  <2>9. CASE ShortAwaited
    BY <2>9 DEF ShortAwaited
  <2>10. CASE LongEnough
    BY <2>10 DEF LongEnough
  <2>11. CASE Transcribe
    BY <2>11 DEF Transcribe, Announced, SttRaised
  <2>12. CASE BatchDone
    BY <2>12 DEF BatchDone, Finish
  <2>13. CASE BatchFails
    BY <2>13 DEF BatchFails
  <2>14. CASE StreamAwaited
    BY <2>14 DEF StreamAwaited, Finish, SttRaised
  <2>15. CASE TranscriptNotified
    BY <2>15 DEF TranscriptNotified
  <2>16. CASE InjectStarts
    BY <2>16 DEF InjectStarts, Announced
  <2>17. CASE InjectEnds
    BY <2>17 DEF InjectEnds
  <2>18. CASE ErrorNotified
    BY <2>18 DEF ErrorNotified, Announced
  <2>19. CASE IdleNotified
    BY <2>19 DEF IdleNotified, Announced
  <2>20. CASE CancelIgnored
    BY <2>20 DEF CancelIgnored, Take
  <2>21. CASE Cancel
    BY <2>21 DEF Cancel, Take, CancelCapture
  <2>22. CASE CancelAwaited
    BY <2>22 DEF CancelAwaited, CancelCapture
  <2>23. CASE CancelStopped
    BY <2>23 DEF CancelStopped
  <2>24. CASE CancelNotified
    BY <2>24 DEF CancelNotified, Announced
  <2>25. CASE ConsumerStops
    BY <2>25 DEF ConsumerStops, ConsumerEnds
  <2>26. ASSUME NEW s \in Sids, StreamDone(s) \/ StreamFails(s) \/ StreamCancelled(s)
         PROVE PillShowsRecording'
    BY <2>26 DEF StreamDone, StreamFails, StreamCancelled
  <2>27. ASSUME NEW s \in Sids, InjectThread(s) PROVE PillShowsRecording'
    BY <2>27 DEF InjectThread
  <2>28. CASE MeterExits
    BY <2>28 DEF MeterExits
  <2>29. CASE ConsumerKilled
    BY <2>29 DEF ConsumerKilled, ConsumerEnds
  <2>30. CASE HotkeysRestart
    BY <2>30 DEF HotkeysRestart
  <2>31. CASE ShutdownLocks
    BY <2>31 DEF ShutdownLocks, ShutdownCapture
  <2>32. CASE ShutdownAwaited
    BY <2>32 DEF ShutdownAwaited, ShutdownCapture
  <2>33. CASE ShutdownStopped
    BY <2>33 DEF ShutdownStopped
  <2>34. CASE ShutdownHotkeys
    BY <2>34 DEF ShutdownHotkeys, BeginStop
  <2>35. CASE ShutdownIndicator
    BY <2>35 DEF ShutdownIndicator
  <2>36. ASSUME NEW e \in Events, Emit(e) PROVE PillShowsRecording'
    BY <2>36 DEF Emit
  <2>37. ASSUME NEW p \in Patches, Patch(p) PROVE PillShowsRecording'
    BY <2>37 DEF Patch
  <2>38. CASE RequestShutdown
    BY <2>38 DEF RequestShutdown
  <2>40. CASE ProcessEnds
    BY <2>40 DEF ProcessEnds
  <2>39. CASE UNCHANGED vars
    BY <2>39
  <2> QED
    BY <2>1, <2>2, <2>3, <2>4, <2>5, <2>6, <2>7, <2>8, <2>9, <2>10, <2>11, <2>12, <2>13,
       <2>14, <2>15, <2>16, <2>17, <2>18, <2>19, <2>20, <2>21, <2>22, <2>23, <2>24,
       <2>25, <2>26, <2>27, <2>28, <2>29, <2>30, <2>31, <2>32, <2>33, <2>34, <2>35,
       <2>36, <2>37, <2>38, <2>39, <2>40
    DEF Next, Handler, Background, Shutdown, Environment, Terminated
<1> QED BY <1>1, <1>2, MicrophoneInv, PTL DEF Spec

-----------------------------------------------------------------------------
\* What the consumer and the hotkey manager do to the queue.
LEMMA Taken ==
  ASSUME queue \in Seq(Events \cup {"STOP"}), NEW e, Take(e)
  PROVE  /\ Len(queue) \in Nat \ {0} /\ queue[1] = e
         /\ DOMAIN queue = 1..Len(queue) /\ DOMAIN queue' = 1..(Len(queue) - 1)
         /\ \A i \in DOMAIN queue' : i + 1 \in DOMAIN queue /\ queue'[i] = queue[i + 1]
<1>1. queue # <<>> /\ queue' = Tail(queue) /\ Head(queue) = e
  BY DEF Take
<1>2. Len(queue) \in Nat \ {0} /\ DOMAIN queue = 1..Len(queue) /\ Head(queue) = queue[1]
  BY <1>1
<1>3. /\ Len(queue') = Len(queue) - 1 /\ queue' \in Seq(Events \cup {"STOP"})
      /\ \A i \in 1..Len(queue') : queue'[i] = queue[i + 1]
  BY <1>1, HeadTailProperties
<1> QED BY <1>1, <1>2, <1>3

LEMMA Emitted ==
  ASSUME queue \in Seq(Events \cup {"STOP"}), NEW e \in Events, Emit(e)
  PROVE  /\ Len(queue) \in Nat /\ queue'[Len(queue) + 1] = e
         /\ DOMAIN queue = 1..Len(queue) /\ DOMAIN queue' = 1..(Len(queue) + 1)
         /\ \A i \in DOMAIN queue : queue'[i] = queue[i]
  BY DEF Emit

-----------------------------------------------------------------------------
\* The awaits of shutdown from hotkeys.stop() on.
Stopping == {"stopHotkeys", "hotkeysStopped", "ipcStop", "down"}

\* Where the handler is says what the machine, the session and the stream task
\* are, and at rest nothing is left of an earlier dictation; until shutdown, when
\* the manager stops and its consumer with it.  A session that is being closed
\* stays "stopped" while shutdown waits for its pump.
HandlerInv ==
    /\ mgr # "up" => sd \in Stopping
    /\ restart = FALSE
    /\ sd \in {"hotkeysStopped", "ipcStop", "down"} => mgr = "stopped"
    /\ mgr = "stopped" => pc = "rest"
    /\ pc \in {"listenNotify", "stopping", "shortAwait", "cancelAwait", "cancelStop"}
          => st \in {"LISTENING", "ERROR"}
    /\ pc \in Outcome \cup {"transcriptNotify"} => st \in {"PROCESSING", "ERROR"}
    /\ pc \in {"injectNotify", "injecting"} => st = "INJECTING"
    /\ pc = "errNotify" => st = "ERROR"
    /\ pc = "cancelNotify" => st = "CANCELLED"
    /\ pc = "idleNotify" => st = "IDLE"
    /\ pc = "listenNotify" => task = 0 /\ session = "none"
    /\ mgr # "stopped" /\ pc = "rest" /\ st = "IDLE" => task = 0 /\ session = "none"
    /\ mgr # "stopped" /\ pc = "rest" /\ st = "LISTENING" /\ sd # "sdStop"
          => session # "stopped" /\ (session = "none" => "device" \in Faults)
    /\ mgr # "stopped" /\ st = "LISTENING" => ~StreamRaises
    /\ sd = "sdStop" => task = 0

\* The transitions that the handler's paths rely on.
LEMMA Table ==
    /\ \A s \in {"LISTENING", "PROCESSING", "INJECTING"} :
          CanTransition(s, "ERROR") /\ CanTransition(s, "IDLE")
    /\ \A s \in {"CANCELLED", "ERROR"} : CanTransition(s, "IDLE")
    /\ CanTransition("LISTENING", "PROCESSING") /\ CanTransition("LISTENING", "CANCELLED")
    /\ CanTransition("IDLE", "LISTENING") /\ CanTransition("PROCESSING", "INJECTING")
  BY DEF CanTransition, ValidTransitions

\* It is inductive on top of the types and of what is known of the microphone
\* and of the outcomes.
THEOREM HandlerInvariant ==
  ASSUME NoRestart
  PROVE  Spec => []HandlerInv
<1>1. Init => HandlerInv
  BY DEF Init, HandlerInv, StreamRaises, Outcome
<1>2. /\ HandlerInv /\ ControlType /\ DataInv /\ MicInv /\ DeliveryInv
      /\ [Next]_vars
      => HandlerInv'
  <2> SUFFICES ASSUME HandlerInv, ControlType, DataInv, MicInv, DeliveryInv,
                      [Next]_vars
               PROVE  HandlerInv'
    OBVIOUS
  <2>t. /\ pc \in Pcs /\ st \in SessionStates /\ sd \in {"up", "locking", "sdAwait",
              "sdStop", "released", "stopHotkeys", "hotkeysStopped", "ipcStop", "down"}
        /\ mgr \in {"up", "stopping", "stopped"}
        /\ session \in {"none", "recording", "broken", "stopped"}
    BY DEF ControlType
  <2>d. /\ task \in 0..MaxSessions /\ MaxSessions \in Nat /\ sid \in 0..MaxSessions
        /\ Sids = 1..MaxSessions
        /\ stream \in [Sids -> Live \cup {"none", "done", "failed", "cancelled"}]
    BY Bounds DEF DataInv, DataType
  <2>m. /\ session = "recording" => pc \in {"rest", "cancelAwait"} /\ st \in {"LISTENING", "ERROR"}
        /\ sd = "sdStop" => session # "recording"
    BY <2>d DEF MicInv, MicrophoneOwned
  <2>o. /\ pc \in Outcome => st \in {"PROCESSING", "ERROR"}
        /\ sd \in {"sdAwait", "sdStop"} => pc = "rest"
        /\ sid = 0 => pc = "rest" /\ st # "LISTENING"
        /\ pc = "awaitStream" => task # 0
    BY DEF DeliveryInv, DataInv, Numbered
  <2>p. ASSUME NEW p \in Patches PROVE p # "hotkey"
    BY DEF NoRestart
  <2> USE Table DEF HandlerInv, Stopping, Outcome, HandlerMayStart, StreamRaises, StreamPending, Live
  <2>1. CASE ActivateIgnored
    BY <2>1, <2>t, <2>d, <2>m, <2>o DEF ActivateIgnored, Take
  <2>2. CASE Activate
    BY <2>2, <2>t, <2>d, <2>m, <2>o DEF Activate, Take, MoveTo
  <2>3. CASE CaptureStarts
    BY <2>3, <2>t, <2>d, <2>m, <2>o DEF CaptureStarts
  <2>4. CASE CaptureFails
    BY <2>4, <2>t, <2>d, <2>m, <2>o DEF CaptureFails, MoveTo
  <2>5. CASE DeactivateIgnored
    BY <2>5, <2>t, <2>d, <2>m, <2>o DEF DeactivateIgnored, Take
  <2>6. CASE Deactivate
    BY <2>6, <2>t, <2>d, <2>m, <2>o DEF Deactivate, Take, MoveTo
  <2>7. CASE PumpFailed
    BY <2>7, <2>t, <2>d, <2>m, <2>o DEF PumpFailed, MoveTo
  <2>8. CASE TooShort
    BY <2>8, <2>t, <2>d, <2>m, <2>o DEF TooShort, CancelStream, MoveTo
  <2>9. CASE ShortAwaited
    BY <2>9, <2>t, <2>d, <2>m, <2>o DEF ShortAwaited, MoveTo
  <2>10. CASE LongEnough
    BY <2>10, <2>t, <2>d, <2>m, <2>o DEF LongEnough, MoveTo
  <2>11. CASE Transcribe
    BY <2>11, <2>t, <2>d, <2>m, <2>o DEF Transcribe, MoveTo, SttRaised, ResetSession
  <2>12. CASE BatchDone
    BY <2>12, <2>t, <2>d, <2>m, <2>o DEF BatchDone, Finish, MoveTo
  <2>13. CASE BatchFails
    BY <2>13, <2>t, <2>d, <2>m, <2>o DEF BatchFails, ResetSession
  <2>14. CASE StreamAwaited
    BY <2>14, <2>t, <2>d, <2>m, <2>o DEF StreamAwaited, Finish, MoveTo, SttRaised,
       ResetSession
  <2>15. CASE TranscriptNotified
    BY <2>15, <2>t, <2>d, <2>m, <2>o DEF TranscriptNotified, MoveTo
  <2>16. CASE InjectStarts
    BY <2>16, <2>t, <2>d, <2>m, <2>o DEF InjectStarts
  <2>17. CASE InjectEnds
    BY <2>17, <2>t, <2>d, <2>m, <2>o DEF InjectEnds, MoveTo
  <2>18. CASE ErrorNotified
    BY <2>18, <2>t, <2>d, <2>m, <2>o DEF ErrorNotified, MoveTo
  <2>19. CASE IdleNotified
    BY <2>19, <2>t, <2>d, <2>m, <2>o DEF IdleNotified, ResetSession
  <2>20. CASE CancelIgnored
    BY <2>20, <2>t, <2>d, <2>m, <2>o DEF CancelIgnored, Take
  <2>21. CASE Cancel
    BY <2>21, <2>t, <2>d, <2>m, <2>o DEF Cancel, Take, CancelStream, CancelCapture,
       MoveTo
  <2>22. CASE CancelAwaited
    BY <2>22, <2>t, <2>d, <2>m, <2>o DEF CancelAwaited, CancelCapture, MoveTo
  <2>23. CASE CancelStopped
    BY <2>23, <2>t, <2>d, <2>m, <2>o DEF CancelStopped, MoveTo
  <2>24. CASE CancelNotified
    BY <2>24, <2>t, <2>d, <2>m, <2>o DEF CancelNotified, MoveTo
  <2>25. CASE ConsumerStops
    BY <2>25, <2>t, <2>d, <2>m, <2>o DEF ConsumerStops, ConsumerEnds
  <2>26. ASSUME NEW s \in Sids, StreamDone(s) \/ StreamFails(s) \/ StreamCancelled(s)
         PROVE HandlerInv'
    BY <2>26, <2>t, <2>d, <2>m, <2>o DEF StreamDone, StreamFails, StreamCancelled
  <2>27. ASSUME NEW s \in Sids, InjectThread(s) PROVE HandlerInv'
    BY <2>27, <2>t, <2>d, <2>m, <2>o DEF InjectThread
  <2>28. CASE MeterExits
    BY <2>28, <2>t, <2>d, <2>m, <2>o DEF MeterExits
  <2>29. CASE ConsumerKilled
    BY <2>29, <2>t, <2>d, <2>m, <2>o DEF ConsumerKilled, ConsumerEnds
  <2>30. CASE HotkeysRestart
    BY <2>30, <2>t, <2>d, <2>m, <2>o DEF HotkeysRestart
  <2>31. CASE ShutdownLocks
    BY <2>31, <2>t, <2>d, <2>m, <2>o DEF ShutdownLocks, CancelStream, ShutdownCapture
  <2>32. CASE ShutdownAwaited
    BY <2>32, <2>t, <2>d, <2>m, <2>o DEF ShutdownAwaited, ShutdownCapture
  <2>33. CASE ShutdownStopped
    BY <2>33, <2>t, <2>d, <2>m, <2>o DEF ShutdownStopped
  <2>34. CASE ShutdownHotkeys
    BY <2>34, <2>t, <2>d, <2>m, <2>o DEF ShutdownHotkeys, BeginStop
  <2>35. CASE ShutdownIndicator
    BY <2>35, <2>t, <2>d, <2>m, <2>o DEF ShutdownIndicator
  <2>36. ASSUME NEW e \in Events, Emit(e) PROVE HandlerInv'
    BY <2>36, <2>t, <2>d, <2>m, <2>o DEF Emit
  <2>37. ASSUME NEW p \in Patches, Patch(p) PROVE HandlerInv'
    BY <2>37, <2>t, <2>d, <2>m, <2>o, <2>p DEF Patch, BeginStop
  <2>38. CASE RequestShutdown
    BY <2>38, <2>t, <2>d, <2>m, <2>o DEF RequestShutdown
  <2>40. CASE ProcessEnds
    BY <2>40, <2>t, <2>d, <2>m, <2>o DEF ProcessEnds
  <2>39. CASE UNCHANGED vars
    BY <2>39, <2>t, <2>d, <2>m, <2>o
  <2> QED
    BY <2>1, <2>2, <2>3, <2>4, <2>5, <2>6, <2>7, <2>8, <2>9, <2>10, <2>11, <2>12, <2>13,
       <2>14, <2>15, <2>16, <2>17, <2>18, <2>19, <2>20, <2>21, <2>22, <2>23, <2>24,
       <2>25, <2>26, <2>27, <2>28, <2>29, <2>30, <2>31, <2>32, <2>33, <2>34, <2>35,
       <2>36, <2>37, <2>38, <2>39, <2>40
    DEF Next, Handler, Background, Shutdown, Environment, Terminated
<1> QED BY <1>1, <1>2, ControlTyped, DataTyped, MicrophoneInv, DeliveryInvariant, PTL
  DEF Spec

-----------------------------------------------------------------------------
\* A DEACTIVATE is on its way, and no ACTIVATE behind it.
Due == \E i \in DOMAIN queue : /\ queue[i] = "DEACTIVATE"
                               /\ \A j \in DOMAIN queue : j > i => queue[j] # "ACTIVATE"
NoActivate == \A i \in DOMAIN queue : queue[i] # "ACTIVATE"
NotListening == st = "LISTENING" => pc \in {"stopping", "shortAwait"}

\* Strengthening of EscCancels: when the manager is not in a session, its
\* DEACTIVATE is still to be handled or has been.
EscInv == mgr = "up" /\ ~hot => Due \/ (NoActivate /\ NotListening)

LEMMA DueOrTaken ==
  ASSUME queue \in Seq(Events \cup {"STOP"}), NEW e, Take(e)
  PROVE  /\ Due => Due' \/ (e = "DEACTIVATE" /\ NoActivate')
         /\ NoActivate => NoActivate' /\ e # "ACTIVATE"
<1>1. /\ Len(queue) \in Nat \ {0} /\ queue[1] = e
      /\ DOMAIN queue = 1..Len(queue) /\ DOMAIN queue' = 1..(Len(queue) - 1)
      /\ \A i \in DOMAIN queue' : i + 1 \in DOMAIN queue /\ queue'[i] = queue[i + 1]
  BY Taken
<1>2. NoActivate => NoActivate' /\ e # "ACTIVATE"
  BY <1>1 DEF NoActivate
<1>3. ASSUME Due PROVE Due' \/ (e = "DEACTIVATE" /\ NoActivate')
  <2>1. PICK i \in DOMAIN queue : /\ queue[i] = "DEACTIVATE"
                                  /\ \A j \in DOMAIN queue : j > i => queue[j] # "ACTIVATE"
    BY <1>3 DEF Due
  <2>2. ASSUME NEW j \in DOMAIN queue', j + 1 > i PROVE queue'[j] # "ACTIVATE"
    BY <1>1, <2>1, <2>2
  <2>3. CASE i = 1
    <3>1. \A j \in DOMAIN queue' : j + 1 > i
      BY <1>1, <2>3
    <3> QED BY <1>1, <2>1, <2>2, <2>3, <3>1 DEF NoActivate
  <2>4. CASE i # 1
    <3>1. i - 1 \in DOMAIN queue' /\ queue'[i - 1] = "DEACTIVATE"
      BY <1>1, <2>1, <2>4
    <3>2. \A j \in DOMAIN queue' : j > i - 1 => j + 1 > i
      BY <1>1
    <3> QED BY <2>2, <3>1, <3>2 DEF Due
  <2> QED BY <2>3, <2>4
<1> QED BY <1>2, <1>3

\* Esc cancels as long as the controller listens: no order of presses, releases
\* and failures leaves the manager outside a session that the controller is in.
THEOREM EscAlwaysCancels ==
  ASSUME NoRestart, Faults \cap {"device", "overtake"} = {}
  PROVE  Spec => []EscCancels
<1>1. Init => EscInv
  BY DEF Init, EscInv, NoActivate, NotListening
<1>2. EscInv /\ DataInv /\ HandlerInv /\ [Next]_vars => EscInv'
  <2> SUFFICES ASSUME EscInv, DataInv, HandlerInv, [Next]_vars, mgr' = "up", ~hot'
               PROVE  Due' \/ (NoActivate' /\ NotListening')
    BY DEF EscInv
  <2>q. queue \in Seq(Events \cup {"STOP"})
    BY DEF DataInv, DataType
  <2>h. ASSUME mgr = "up", ~hot PROVE Due \/ (NoActivate /\ NotListening)
    BY <2>h DEF EscInv
  <2>k. ASSUME UNCHANGED <<queue, mgr, hot>>, NotListening => NotListening'
        PROVE  Due' \/ (NoActivate' /\ NotListening')
    <3>1. (Due' <=> Due) /\ (NoActivate' <=> NoActivate)
      BY <2>k DEF Due, NoActivate
    <3> QED BY <2>h, <2>k, <3>1
  <2>t. ASSUME NEW e, Take(e), UNCHANGED <<mgr, hot>>,
               e = "DEACTIVATE" \/ st # "LISTENING" => NotListening'
        PROVE  Due' \/ (NoActivate' /\ NotListening')
    <3>1. /\ Due => Due' \/ (e = "DEACTIVATE" /\ NoActivate')
          /\ NoActivate => NoActivate' /\ e # "ACTIVATE"
      BY <2>q, <2>t, DueOrTaken
    <3>2. NotListening => st # "LISTENING"
      BY <2>t DEF Take, HandlerMayStart, NotListening
    <3> QED BY <2>h, <2>t, <3>1, <3>2
  <2>n. pc # "rest" => mgr # "stopped"
    BY DEF HandlerInv
  <2>f. ~StreamRaises \/ st # "LISTENING" \/ mgr = "stopped"
    BY DEF HandlerInv
  <2>s. /\ pc = "listenNotify" => st \in {"LISTENING", "ERROR"}
        /\ pc = "procNotify" => st # "LISTENING"
    BY DEF HandlerInv, Outcome
  <2> USE Table
  <2>1. CASE ActivateIgnored
    BY <2>1, <2>q, <2>h, DueOrTaken DEF ActivateIgnored
  <2>2. CASE Activate
    BY <2>2, <2>q, <2>h, DueOrTaken DEF Activate
  <2>3. CASE CaptureStarts
    <3>1. UNCHANGED <<queue, mgr, hot>> /\ (NotListening => NotListening')
      BY <2>3 DEF CaptureStarts, NotListening
    <3> QED BY <2>k, <3>1
  <2>4. CASE CaptureFails
    <3>1. UNCHANGED <<queue, mgr, hot>> /\ (NotListening => NotListening')
      BY <2>4 DEF CaptureFails, MoveTo, NotListening
    <3> QED BY <2>k, <3>1
  <2>5. CASE DeactivateIgnored
    <3>1. mgr = "up" /\ UNCHANGED <<mgr, hot, st, pc>> /\ Take("DEACTIVATE")
      BY <2>5 DEF DeactivateIgnored
    <3>2. pc = "rest" /\ sd # "sdStop"
      BY <3>1 DEF Take, HandlerMayStart
    <3>3. st # "LISTENING"
      BY <2>5, <3>1, <3>2 DEF DeactivateIgnored, HandlerInv
    <3> QED BY <2>t, <3>1, <3>3 DEF NotListening
  <2>6. CASE Deactivate
    <3>1. NotListening' /\ UNCHANGED <<mgr, hot>> /\ Take("DEACTIVATE")
      BY <2>6 DEF Deactivate, MoveTo, NotListening
    <3> QED BY <2>t, <3>1
  <2>7. CASE PumpFailed
    <3>1. UNCHANGED <<queue, mgr, hot>> /\ (NotListening => NotListening')
      BY <2>7 DEF PumpFailed, MoveTo, NotListening
    <3> QED BY <2>k, <3>1
  <2>8. CASE TooShort
    <3>1. UNCHANGED <<queue, mgr, hot>> /\ (NotListening => NotListening')
      BY <2>8, <2>f, <2>n DEF TooShort, MoveTo, NotListening
    <3> QED BY <2>k, <3>1
  <2>9. CASE ShortAwaited
    <3>1. UNCHANGED <<queue, mgr, hot>> /\ (NotListening => NotListening')
      BY <2>9, <2>f, <2>n DEF ShortAwaited, MoveTo, NotListening
    <3> QED BY <2>k, <3>1
  <2>10. CASE LongEnough
    <3>1. UNCHANGED <<queue, mgr, hot>> /\ (NotListening => NotListening')
      BY <2>10 DEF LongEnough, MoveTo, NotListening
    <3> QED BY <2>k, <3>1
  <2>11. CASE Transcribe
    <3>1. UNCHANGED <<queue, mgr, hot>> /\ (NotListening => NotListening')
      BY <2>11, <2>s DEF Transcribe, MoveTo, SttRaised, ResetSession, NotListening
    <3> QED BY <2>k, <3>1
  <2>12. CASE BatchDone
    <3>1. UNCHANGED <<queue, mgr, hot>> /\ (NotListening => NotListening')
      BY <2>12 DEF BatchDone, Finish, MoveTo, NotListening
    <3> QED BY <2>k, <3>1
  <2>13. CASE BatchFails
    <3>1. UNCHANGED <<queue, mgr, hot>> /\ (NotListening => NotListening')
      BY <2>13 DEF BatchFails, ResetSession, NotListening
    <3> QED BY <2>k, <3>1
  <2>14. CASE StreamAwaited
    <3>1. UNCHANGED <<queue, mgr, hot>> /\ (NotListening => NotListening')
      BY <2>14 DEF StreamAwaited, Finish, MoveTo, SttRaised, ResetSession, NotListening
    <3> QED BY <2>k, <3>1
  <2>15. CASE TranscriptNotified
    <3>1. UNCHANGED <<queue, mgr, hot>> /\ (NotListening => NotListening')
      BY <2>15 DEF TranscriptNotified, MoveTo, NotListening
    <3> QED BY <2>k, <3>1
  <2>16. CASE InjectStarts
    <3>1. UNCHANGED <<queue, mgr, hot>> /\ (NotListening => NotListening')
      BY <2>16 DEF InjectStarts, NotListening
    <3> QED BY <2>k, <3>1
  <2>17. CASE InjectEnds
    <3>1. UNCHANGED <<queue, mgr, hot>> /\ (NotListening => NotListening')
      BY <2>17 DEF InjectEnds, MoveTo, NotListening
    <3> QED BY <2>k, <3>1
  <2>18. CASE ErrorNotified
    <3>1. UNCHANGED <<queue, mgr, hot>> /\ (NotListening => NotListening')
      BY <2>18 DEF ErrorNotified, MoveTo, NotListening
    <3> QED BY <2>k, <3>1
  <2>19. CASE IdleNotified
    <3>1. UNCHANGED <<queue, mgr, hot>> /\ (NotListening => NotListening')
      BY <2>19 DEF IdleNotified, ResetSession, NotListening
    <3> QED BY <2>k, <3>1
  <2>20. CASE CancelIgnored
    <3>1. UNCHANGED <<mgr, hot, st, pc>> /\ Take("CANCEL") /\ st # "LISTENING"
      BY <2>20 DEF CancelIgnored
    <3> QED BY <2>t, <3>1 DEF NotListening
  <2>21. CASE Cancel
    <3>1. UNCHANGED <<mgr, hot>> /\ Take("CANCEL") /\ st = "LISTENING"
      BY <2>21 DEF Cancel
    <3> QED BY <2>t, <3>1
  <2>22. CASE CancelAwaited
    <3>1. UNCHANGED <<queue, mgr, hot>> /\ (NotListening => NotListening')
      BY <2>22 DEF CancelAwaited, CancelCapture, MoveTo, NotListening
    <3> QED BY <2>k, <3>1
  <2>23. CASE CancelStopped
    <3>1. UNCHANGED <<queue, mgr, hot>> /\ (NotListening => NotListening')
      BY <2>23 DEF CancelStopped, MoveTo, NotListening
    <3> QED BY <2>k, <3>1
  <2>24. CASE CancelNotified
    <3>1. UNCHANGED <<queue, mgr, hot>> /\ (NotListening => NotListening')
      BY <2>24 DEF CancelNotified, MoveTo, NotListening
    <3> QED BY <2>k, <3>1
  <2>25. CASE ConsumerStops
    BY <2>25 DEF ConsumerStops, ConsumerEnds
  <2>26. ASSUME NEW s \in Sids, StreamDone(s) \/ StreamFails(s) \/ StreamCancelled(s)
         PROVE Due' \/ (NoActivate' /\ NotListening')
    <3>1. UNCHANGED <<queue, mgr, hot>> /\ (NotListening => NotListening')
      BY <2>26 DEF StreamDone, StreamFails, StreamCancelled, NotListening
    <3> QED BY <2>k, <3>1
  <2>27. ASSUME NEW s \in Sids, InjectThread(s) PROVE Due' \/ (NoActivate' /\ NotListening')
    <3>1. UNCHANGED <<queue, mgr, hot>> /\ (NotListening => NotListening')
      BY <2>27 DEF InjectThread, NotListening
    <3> QED BY <2>k, <3>1
  <2>28. CASE MeterExits
    <3>1. UNCHANGED <<queue, mgr, hot>> /\ (NotListening => NotListening')
      BY <2>28 DEF MeterExits, NotListening
    <3> QED BY <2>k, <3>1
  <2>29. CASE ConsumerKilled
    BY <2>29 DEF ConsumerKilled, ConsumerEnds
  <2>30. CASE HotkeysRestart
    BY <2>30 DEF HotkeysRestart, HandlerInv
  <2>31. CASE ShutdownLocks
    <3>1. UNCHANGED <<queue, mgr, hot>> /\ (NotListening => NotListening')
      BY <2>31 DEF ShutdownLocks, ShutdownCapture, NotListening
    <3> QED BY <2>k, <3>1
  <2>32. CASE ShutdownAwaited
    <3>1. UNCHANGED <<queue, mgr, hot>> /\ (NotListening => NotListening')
      BY <2>32 DEF ShutdownAwaited, ShutdownCapture, NotListening
    <3> QED BY <2>k, <3>1
  <2>33. CASE ShutdownStopped
    <3>1. UNCHANGED <<queue, mgr, hot>> /\ (NotListening => NotListening')
      BY <2>33 DEF ShutdownStopped, NotListening
    <3> QED BY <2>k, <3>1
  <2>34. CASE ShutdownHotkeys
    BY <2>34 DEF ShutdownHotkeys, BeginStop
  <2>35. CASE ShutdownIndicator
    BY <2>35 DEF ShutdownIndicator, HandlerInv
  <2>36. ASSUME NEW e \in Events, Emit(e) PROVE Due' \/ (NoActivate' /\ NotListening')
    <3>1. /\ e = "ACTIVATE" \/ hot
          /\ hot' = (e = "ACTIVATE" \/ (hot /\ e = "CANCEL"))
      BY <2>36 DEF Emit
    <3>2. e = "DEACTIVATE"
      BY <3>1 DEF Events
    <3> QED BY <2>q, <2>36, <3>2, Emitted DEF Due
  <2>37. ASSUME NEW p \in Patches, Patch(p) PROVE Due' \/ (NoActivate' /\ NotListening')
    <3>1. p # "hotkey"
      BY DEF NoRestart
    <3>2. UNCHANGED <<queue, mgr, hot>> /\ (NotListening => NotListening')
      BY <2>37, <3>1 DEF Patch, NotListening
    <3> QED BY <2>k, <3>2
  <2>38. CASE RequestShutdown
    <3>1. UNCHANGED <<queue, mgr, hot>> /\ (NotListening => NotListening')
      BY <2>38 DEF RequestShutdown, NotListening
    <3> QED BY <2>k, <3>1
  <2>40. CASE ProcessEnds
    <3>1. UNCHANGED <<queue, mgr, hot>> /\ (NotListening => NotListening')
      BY <2>40 DEF ProcessEnds, NotListening
    <3> QED BY <2>k, <3>1
  <2>39. CASE UNCHANGED vars
    <3>1. UNCHANGED <<queue, mgr, hot>> /\ (NotListening => NotListening')
      BY <2>39 DEF NotListening
    <3> QED BY <2>k, <3>1
  <2> QED
    BY <2>1, <2>2, <2>3, <2>4, <2>5, <2>6, <2>7, <2>8, <2>9, <2>10, <2>11, <2>12, <2>13,
       <2>14, <2>15, <2>16, <2>17, <2>18, <2>19, <2>20, <2>21, <2>22, <2>23, <2>24,
       <2>25, <2>26, <2>27, <2>28, <2>29, <2>30, <2>31, <2>32, <2>33, <2>34, <2>35,
       <2>36, <2>37, <2>38, <2>39, <2>40
    DEF Next, Handler, Background, Shutdown, Environment, Terminated
<1>3. EscInv => EscCancels
  BY DEF EscInv, EscCancels, AtRest, Due, NotListening
<1>4. Spec => []HandlerInv
  BY HandlerInvariant
<1> QED BY <1>1, <1>2, <1>3, <1>4, DataTyped, PTL DEF Spec

-----------------------------------------------------------------------------
\* Strengthening of NoOrphanStream: the controller's task runs only while the
\* handler is at an await that leads to waiting for it, or listens.
OrphanInv ==
    /\ NoOrphanStream
    /\ mgr # "stopped" /\ task # 0 => streaming
    /\ session = "broken" => ~StreamPending
    /\ pc = "cancelStop" => task = 0
    /\ StreamPending => pc \in {"rest", "stopping", "shortAwait", "procNotify",
                                "awaitStream", "cancelAwait"}

\* No transcription stream outlives its dictation, whichever way that ends.
THEOREM NeverAnOrphanStream ==
  ASSUME NoRestart, "pump" \notin Faults
  PROVE  Spec => []NoOrphanStream
<1>1. Init => OrphanInv
  BY DEF Init, OrphanInv, NoOrphanStream, StreamPending, Live
<1>2. /\ OrphanInv /\ ControlType /\ DataInv /\ MicInv /\ DeliveryInv /\ HandlerInv
      /\ [Next]_vars
      => OrphanInv'
  <2> SUFFICES ASSUME OrphanInv, ControlType, DataInv, MicInv, DeliveryInv, HandlerInv,
                      [Next]_vars
               PROVE  OrphanInv'
    OBVIOUS
  <2>d. /\ task \in 0..MaxSessions /\ MaxSessions \in Nat /\ sid \in 0..MaxSessions
        /\ Sids = 1..MaxSessions
        /\ stream \in [Sids -> Live \cup {"none", "done", "failed", "cancelled"}]
        /\ session \in {"none", "recording", "broken", "stopped"}
    BY Bounds DEF DataInv, DataType, ControlType
  <2>m. session = "recording" => pc \in {"rest", "cancelAwait"}
    BY DEF MicInv
  <2>n. /\ sid = 0 => pc = "rest"
        /\ pc = "awaitStream" => task # 0
        /\ sd \in {"sdAwait", "sdStop"} => pc = "rest"
    BY DEF DataInv, Numbered
  <2>h. /\ mgr # "up" => sd \in Stopping
        /\ restart = FALSE
        /\ mgr = "stopped" => pc = "rest"
        /\ pc = "listenNotify" => task = 0 /\ session = "none"
        /\ mgr # "stopped" /\ pc = "rest" /\ st = "IDLE" => task = 0 /\ session = "none"
        /\ mgr # "stopped" /\ pc = "rest" /\ st = "LISTENING" /\ sd # "sdStop"
              => session # "stopped"
        /\ sd = "sdStop" => task = 0
    BY DEF HandlerInv
  <2>p. ASSUME NEW p \in Patches PROVE p # "hotkey"
    BY DEF NoRestart
  <2> USE Table DEF Stopping, OrphanInv, NoOrphanStream, HandlerMayStart, StreamRaises, StreamPending, Live
  <2>1. CASE ActivateIgnored
    BY <2>1, <2>d, <2>m, <2>n, <2>h DEF ActivateIgnored, Take
  <2>2. CASE Activate
    BY <2>2, <2>d, <2>m, <2>n, <2>h DEF Activate, Take, MoveTo
  <2>3. CASE CaptureStarts
    BY <2>3, <2>d, <2>m, <2>n, <2>h DEF CaptureStarts
  <2>4. CASE CaptureFails
    BY <2>4, <2>d, <2>m, <2>n, <2>h DEF CaptureFails, MoveTo
  <2>5. CASE DeactivateIgnored
    BY <2>5, <2>d, <2>m, <2>n, <2>h DEF DeactivateIgnored, Take
  <2>6. CASE Deactivate
    BY <2>6, <2>d, <2>m, <2>n, <2>h DEF Deactivate, Take, MoveTo
  <2>7. CASE PumpFailed
    BY <2>7, <2>d, <2>m, <2>n, <2>h DEF PumpFailed, MoveTo
  <2>8. CASE TooShort
    BY <2>8, <2>d, <2>m, <2>n, <2>h DEF TooShort, CancelStream, MoveTo
  <2>9. CASE ShortAwaited
    BY <2>9, <2>d, <2>m, <2>n, <2>h DEF ShortAwaited, MoveTo
  <2>10. CASE LongEnough
    BY <2>10, <2>d, <2>m, <2>n, <2>h DEF LongEnough, MoveTo
  <2>11. CASE Transcribe
    BY <2>11, <2>d, <2>m, <2>n, <2>h DEF Transcribe, MoveTo, SttRaised, ResetSession
  <2>12. CASE BatchDone
    BY <2>12, <2>d, <2>m, <2>n, <2>h DEF BatchDone, Finish, MoveTo
  <2>13. CASE BatchFails
    BY <2>13, <2>d, <2>m, <2>n, <2>h DEF BatchFails, ResetSession
  <2>14. CASE StreamAwaited
    BY <2>14, <2>d, <2>m, <2>n, <2>h DEF StreamAwaited, Finish, MoveTo, SttRaised,
       ResetSession
  <2>15. CASE TranscriptNotified
    BY <2>15, <2>d, <2>m, <2>n, <2>h DEF TranscriptNotified, MoveTo
  <2>16. CASE InjectStarts
    BY <2>16, <2>d, <2>m, <2>n, <2>h DEF InjectStarts
  <2>17. CASE InjectEnds
    BY <2>17, <2>d, <2>m, <2>n, <2>h DEF InjectEnds, MoveTo
  <2>18. CASE ErrorNotified
    BY <2>18, <2>d, <2>m, <2>n, <2>h DEF ErrorNotified, MoveTo
  <2>19. CASE IdleNotified
    BY <2>19, <2>d, <2>m, <2>n, <2>h DEF IdleNotified, ResetSession
  <2>20. CASE CancelIgnored
    BY <2>20, <2>d, <2>m, <2>n, <2>h DEF CancelIgnored, Take
  <2>21. CASE Cancel
    BY <2>21, <2>d, <2>m, <2>n, <2>h DEF Cancel, Take, CancelStream, CancelCapture,
       MoveTo
  <2>22. CASE CancelAwaited
    BY <2>22, <2>d, <2>m, <2>n, <2>h DEF CancelAwaited, CancelCapture, MoveTo
  <2>23. CASE CancelStopped
    BY <2>23, <2>d, <2>m, <2>n, <2>h DEF CancelStopped, MoveTo
  <2>24. CASE CancelNotified
    BY <2>24, <2>d, <2>m, <2>n, <2>h DEF CancelNotified, MoveTo
  <2>25. CASE ConsumerStops
    BY <2>25, <2>d, <2>m, <2>n, <2>h DEF ConsumerStops, ConsumerEnds
  <2>26. ASSUME NEW s \in Sids, StreamDone(s) \/ StreamFails(s) \/ StreamCancelled(s)
         PROVE OrphanInv'
    BY <2>26, <2>d, <2>m, <2>n, <2>h DEF StreamDone, StreamFails, StreamCancelled
  <2>27. ASSUME NEW s \in Sids, InjectThread(s) PROVE OrphanInv'
    BY <2>27, <2>d, <2>m, <2>n, <2>h DEF InjectThread
  <2>28. CASE MeterExits
    BY <2>28, <2>d, <2>m, <2>n, <2>h DEF MeterExits
  <2>29. CASE ConsumerKilled
    BY <2>29, <2>d, <2>m, <2>n, <2>h DEF ConsumerKilled, ConsumerEnds
  <2>30. CASE HotkeysRestart
    BY <2>30, <2>d, <2>m, <2>n, <2>h DEF HotkeysRestart
  <2>31. CASE ShutdownLocks
    BY <2>31, <2>d, <2>m, <2>n, <2>h DEF ShutdownLocks, CancelStream, ShutdownCapture
  <2>32. CASE ShutdownAwaited
    BY <2>32, <2>d, <2>m, <2>n, <2>h DEF ShutdownAwaited, ShutdownCapture
  <2>33. CASE ShutdownStopped
    BY <2>33, <2>d, <2>m, <2>n, <2>h DEF ShutdownStopped
  <2>34. CASE ShutdownHotkeys
    BY <2>34, <2>d, <2>m, <2>n, <2>h DEF ShutdownHotkeys, BeginStop
  <2>35. CASE ShutdownIndicator
    BY <2>35, <2>d, <2>m, <2>n, <2>h DEF ShutdownIndicator
  <2>36. ASSUME NEW e \in Events, Emit(e) PROVE OrphanInv'
    BY <2>36, <2>d, <2>m, <2>n, <2>h DEF Emit
  <2>37. ASSUME NEW p \in Patches, Patch(p) PROVE OrphanInv'
    BY <2>37, <2>d, <2>m, <2>n, <2>h, <2>p DEF Patch, BeginStop
  <2>38. CASE RequestShutdown
    BY <2>38, <2>d, <2>m, <2>n, <2>h DEF RequestShutdown
  <2>40. CASE ProcessEnds
    BY <2>40, <2>d, <2>m, <2>n, <2>h DEF ProcessEnds
  <2>39. CASE UNCHANGED vars
    BY <2>39, <2>d, <2>m, <2>n, <2>h
  <2> QED
    BY <2>1, <2>2, <2>3, <2>4, <2>5, <2>6, <2>7, <2>8, <2>9, <2>10, <2>11, <2>12, <2>13,
       <2>14, <2>15, <2>16, <2>17, <2>18, <2>19, <2>20, <2>21, <2>22, <2>23, <2>24,
       <2>25, <2>26, <2>27, <2>28, <2>29, <2>30, <2>31, <2>32, <2>33, <2>34, <2>35,
       <2>36, <2>37, <2>38, <2>39, <2>40
    DEF Next, Handler, Background, Shutdown, Environment, Terminated
<1>3. Spec => []HandlerInv
  BY HandlerInvariant
<1>4. OrphanInv => NoOrphanStream
  BY DEF OrphanInv
<1> QED
  BY <1>1, <1>2, <1>3, <1>4, ControlTyped, DataTyped, MicrophoneInv, DeliveryInvariant, PTL
  DEF Spec

-----------------------------------------------------------------------------
\* Strengthening of PasteWhileInjecting: what is announced and injected is of the
\* latest dictation, and an injection thread lives only while the handler waits
\* for it, or after shutdown has killed that handler.
PasteInv ==
    /\ pc \in {"transcriptNotify", "injectNotify", "injecting"} => src = sid
    /\ \A s \in Sids : thr[s] = "live" => /\ s = sid /\ src = sid /\ st = "INJECTING"
                                          /\ pc = "injecting" \/ mgr = "stopped"

\* A paste comes only while the daemon says that it injects, and is of the
\* latest dictation.
THEOREM PastesOnlyWhileInjecting ==
  ASSUME NoRestart, "hang" \notin Faults
  PROVE  Spec => PasteWhileInjecting
<1>1. Init => PasteInv
  BY DEF Init, PasteInv
<1>2. /\ PasteInv /\ DataInv /\ DeliveryInv /\ HandlerInv /\ [Next]_vars
      => PasteInv'
  <2> SUFFICES ASSUME PasteInv, DataInv, DeliveryInv, HandlerInv, [Next]_vars
               PROVE  PasteInv'
    OBVIOUS
  <2>d. /\ thr \in [Sids -> {"none", "live", "pasted", "failed"}]
        /\ sid \in 0..MaxSessions /\ MaxSessions \in Nat /\ Sids = 1..MaxSessions
        /\ sid = 0 => pc = "rest"
        /\ sd \in {"sdAwait", "sdStop"} => pc = "rest"
    BY Bounds DEF DataInv, DataType, Numbered
  <2>o. pc = "awaitStream" => task = sid
    BY DEF DeliveryInv
  <2>h. /\ mgr # "up" => sd \in Stopping
        /\ restart = FALSE
        /\ mgr = "stopped" => pc = "rest"
        /\ pc \in {"injectNotify", "injecting"} => st = "INJECTING"
    BY DEF HandlerInv
  <2> USE DEF PasteInv, HandlerMayStart, Stopping
  <2>1. CASE ActivateIgnored
    BY <2>1, <2>d, <2>o, <2>h DEF ActivateIgnored, Take
  <2>2. CASE Activate
    BY <2>2, <2>d, <2>o, <2>h DEF Activate, Take, MoveTo
  <2>3. CASE CaptureStarts
    BY <2>3, <2>d, <2>o, <2>h DEF CaptureStarts
  <2>4. CASE CaptureFails
    BY <2>4, <2>d, <2>o, <2>h DEF CaptureFails, MoveTo
  <2>5. CASE DeactivateIgnored
    BY <2>5, <2>d, <2>o, <2>h DEF DeactivateIgnored, Take
  <2>6. CASE Deactivate
    BY <2>6, <2>d, <2>o, <2>h DEF Deactivate, Take, MoveTo
  <2>7. CASE PumpFailed
    BY <2>7, <2>d, <2>o, <2>h DEF PumpFailed, MoveTo
  <2>8. CASE TooShort
    BY <2>8, <2>d, <2>o, <2>h DEF TooShort, MoveTo
  <2>9. CASE ShortAwaited
    BY <2>9, <2>d, <2>o, <2>h DEF ShortAwaited, MoveTo
  <2>10. CASE LongEnough
    BY <2>10, <2>d, <2>o, <2>h DEF LongEnough, MoveTo
  <2>11. CASE Transcribe
    BY <2>11, <2>d, <2>o, <2>h DEF Transcribe, MoveTo, SttRaised, ResetSession
  <2>12. CASE BatchDone
    BY <2>12, <2>d, <2>o, <2>h DEF BatchDone, Finish, MoveTo
  <2>13. CASE BatchFails
    BY <2>13, <2>d, <2>o, <2>h DEF BatchFails, ResetSession
  <2>14. CASE StreamAwaited
    BY <2>14, <2>d, <2>o, <2>h DEF StreamAwaited, Finish, MoveTo, SttRaised,
       ResetSession
  <2>15. CASE TranscriptNotified
    BY <2>15, <2>d, <2>o, <2>h, Table DEF TranscriptNotified, MoveTo
  <2>16. CASE InjectStarts
    BY <2>16, <2>d, <2>o, <2>h DEF InjectStarts
  <2>17. CASE InjectEnds
    BY <2>17, <2>d, <2>o, <2>h DEF InjectEnds, MoveTo
  <2>18. CASE ErrorNotified
    BY <2>18, <2>d, <2>o, <2>h DEF ErrorNotified, MoveTo
  <2>19. CASE IdleNotified
    BY <2>19, <2>d, <2>o, <2>h DEF IdleNotified, ResetSession
  <2>20. CASE CancelIgnored
    BY <2>20, <2>d, <2>o, <2>h DEF CancelIgnored, Take
  <2>21. CASE Cancel
    BY <2>21, <2>d, <2>o, <2>h DEF Cancel, Take, CancelCapture, MoveTo
  <2>22. CASE CancelAwaited
    BY <2>22, <2>d, <2>o, <2>h DEF CancelAwaited, CancelCapture, MoveTo
  <2>23. CASE CancelStopped
    BY <2>23, <2>d, <2>o, <2>h DEF CancelStopped, MoveTo
  <2>24. CASE CancelNotified
    BY <2>24, <2>d, <2>o, <2>h DEF CancelNotified, MoveTo
  <2>25. CASE ConsumerStops
    BY <2>25, <2>d, <2>o, <2>h DEF ConsumerStops, ConsumerEnds
  <2>26. ASSUME NEW s \in Sids, StreamDone(s) \/ StreamFails(s) \/ StreamCancelled(s)
         PROVE PasteInv'
    BY <2>26, <2>d, <2>o, <2>h DEF StreamDone, StreamFails, StreamCancelled
  <2>27. ASSUME NEW s \in Sids, InjectThread(s) PROVE PasteInv'
    BY <2>27, <2>d, <2>o, <2>h DEF InjectThread
  <2>28. CASE MeterExits
    BY <2>28, <2>d, <2>o, <2>h DEF MeterExits
  <2>29. CASE ConsumerKilled
    BY <2>29, <2>d, <2>o, <2>h DEF ConsumerKilled, ConsumerEnds
  <2>30. CASE HotkeysRestart
    BY <2>30, <2>d, <2>o, <2>h DEF HotkeysRestart
  <2>31. CASE ShutdownLocks
    BY <2>31, <2>d, <2>o, <2>h DEF ShutdownLocks, ShutdownCapture
  <2>32. CASE ShutdownAwaited
    BY <2>32, <2>d, <2>o, <2>h DEF ShutdownAwaited, ShutdownCapture
  <2>33. CASE ShutdownStopped
    BY <2>33, <2>d, <2>o, <2>h DEF ShutdownStopped
  <2>34. CASE ShutdownHotkeys
    BY <2>34, <2>d, <2>o, <2>h DEF ShutdownHotkeys, BeginStop
  <2>35. CASE ShutdownIndicator
    BY <2>35, <2>d, <2>o, <2>h DEF ShutdownIndicator
  <2>36. ASSUME NEW e \in Events, Emit(e) PROVE PasteInv'
    BY <2>36, <2>d, <2>o, <2>h DEF Emit
  <2>37. ASSUME NEW p \in Patches, Patch(p) PROVE PasteInv'
    BY <2>37, <2>d, <2>o, <2>h DEF Patch, BeginStop
  <2>38. CASE RequestShutdown
    BY <2>38, <2>d, <2>o, <2>h DEF RequestShutdown
  <2>40. CASE ProcessEnds
    BY <2>40, <2>d, <2>o, <2>h DEF ProcessEnds
  <2>39. CASE UNCHANGED vars
    BY <2>39, <2>d, <2>o, <2>h
  <2> QED
    BY <2>1, <2>2, <2>3, <2>4, <2>5, <2>6, <2>7, <2>8, <2>9, <2>10, <2>11, <2>12, <2>13,
       <2>14, <2>15, <2>16, <2>17, <2>18, <2>19, <2>20, <2>21, <2>22, <2>23, <2>24,
       <2>25, <2>26, <2>27, <2>28, <2>29, <2>30, <2>31, <2>32, <2>33, <2>34, <2>35,
       <2>36, <2>37, <2>38, <2>39, <2>40
    DEF Next, Handler, Background, Shutdown, Environment, Terminated
<1>3. PasteInv /\ DataInv /\ [Next]_vars
        => (\A s \in Sids : thr[s] # "pasted" /\ thr'[s] = "pasted"
                            => st = "INJECTING" /\ s = sid)
  <2> SUFFICES ASSUME PasteInv, DataInv, [Next]_vars, NEW s \in Sids,
                      thr[s] # "pasted", thr'[s] = "pasted"
               PROVE  st = "INJECTING" /\ s = sid
    OBVIOUS
  <2>1. thr \in [Sids -> {"none", "live", "pasted", "failed"}]
    BY DEF DataInv, DataType
  <2>2. thr' # thr
    OBVIOUS
  <2>3. CASE InjectStarts
    BY <2>1, <2>3 DEF InjectStarts
  <2>4. ASSUME NEW t \in Sids, InjectThread(t) PROVE thr[s] = "live"
    BY <2>1, <2>4 DEF InjectThread
  <2>5. InjectStarts \/ \E t \in Sids : InjectThread(t)
    BY <2>2 DEF Next, Handler, Background, Shutdown, Environment, Terminated,
       ActivateIgnored, Activate, CaptureStarts, CaptureFails, DeactivateIgnored,
       Deactivate, PumpFailed, TooShort, ShortAwaited, LongEnough, Transcribe, BatchDone,
       BatchFails, StreamAwaited, TranscriptNotified, InjectEnds, ErrorNotified,
       IdleNotified, CancelIgnored, Cancel, CancelAwaited, CancelStopped, CancelNotified,
       ConsumerStops, StreamDone, StreamFails, StreamCancelled, MeterExits,
       ConsumerKilled, HotkeysRestart, ShutdownLocks, ShutdownAwaited, ShutdownStopped,
       ShutdownHotkeys, ShutdownIndicator, Emit, Patch, RequestShutdown, ProcessEnds
  <2> QED BY <2>3, <2>4, <2>5 DEF PasteInv
<1>4. Spec => []HandlerInv
  BY HandlerInvariant
<1> QED
  BY <1>1, <1>2, <1>3, <1>4, DataTyped, DeliveryInvariant, PTL
  DEF Spec, PasteWhileInjecting

-----------------------------------------------------------------------------
\* Strengthening of RestIsConsistent: until shutdown is requested the machine is
\* in the one state that goes with the await the handler is suspended at.
RestInv ==
    sd = "up" =>
    /\ mgr = "up"
    /\ \A s \in Sids : stream[s] # "failed"
    /\ pc \in {"listenNotify", "stopping", "shortAwait", "cancelAwait", "cancelStop"}
          => st = "LISTENING"
    /\ pc \in Outcome \cup {"transcriptNotify"} => st = "PROCESSING"
    /\ RestIsConsistent

\* Between two events the machine, the announced state, the session and the pill
\* agree, short of the failures that are known to break it.
THEOREM RestAlwaysConsistent ==
  ASSUME NoRestart, "indicator" \notin Patches, Faults \cap {"stt", "secrets", "device"} = {}
  PROVE  Spec => []RestIsConsistent
<1>1. Init => RestInv
  BY DEF Init, RestInv, RestIsConsistent, Outcome
<1>2. RestInv /\ DataInv /\ MicInv /\ HandlerInv /\ [Next]_vars => RestInv'
  <2> SUFFICES ASSUME RestInv, DataInv, MicInv, HandlerInv, [Next]_vars
               PROVE  RestInv'
    OBVIOUS
  <2>d. /\ task \in 0..MaxSessions /\ MaxSessions \in Nat /\ sid \in 0..MaxSessions
        /\ Sids = 1..MaxSessions
        /\ stream \in [Sids -> Live \cup {"none", "done", "failed", "cancelled"}]
        /\ sid = 0 => pc = "rest"
        /\ pc = "awaitStream" => task # 0
    BY Bounds DEF DataInv, DataType, Numbered
  <2>m. session = "recording" => pc \in {"rest", "cancelAwait"}
    BY DEF MicInv
  <2>h. /\ pc = "listenNotify" => task = 0 /\ session = "none"
        /\ pc \in {"injectNotify", "injecting"} => st = "INJECTING"
        /\ pc = "errNotify" => st = "ERROR"
        /\ pc = "cancelNotify" => st = "CANCELLED"
        /\ pc = "idleNotify" => st = "IDLE"
    BY DEF HandlerInv
  <2>p. ASSUME NEW p \in Patches PROVE p \notin {"hotkey", "indicator"}
    BY DEF NoRestart
  <2> USE Table DEF RestInv, RestIsConsistent, AtRest, Outcome, HandlerMayStart,
          StreamRaises, Live
  <2>1. CASE ActivateIgnored
    BY <2>1, <2>d, <2>m, <2>h DEF ActivateIgnored, Take
  <2>2. CASE Activate
    BY <2>2, <2>d, <2>m, <2>h DEF Activate, Take, MoveTo
  <2>3. CASE CaptureStarts
    BY <2>3, <2>d, <2>m, <2>h DEF CaptureStarts, Announced
  <2>4. CASE CaptureFails
    BY <2>4, <2>d, <2>m, <2>h DEF CaptureFails, Announced, MoveTo
  <2>5. CASE DeactivateIgnored
    BY <2>5, <2>d, <2>m, <2>h DEF DeactivateIgnored, Take
  <2>6. CASE Deactivate
    BY <2>6, <2>d, <2>m, <2>h DEF Deactivate, Take, MoveTo
  <2>7. CASE PumpFailed
    BY <2>7, <2>d, <2>m, <2>h DEF PumpFailed, MoveTo
  <2>8. CASE TooShort
    BY <2>8, <2>d, <2>m, <2>h DEF TooShort, CancelStream, MoveTo
  <2>9. CASE ShortAwaited
    BY <2>9, <2>d, <2>m, <2>h DEF ShortAwaited, MoveTo
  <2>10. CASE LongEnough
    BY <2>10, <2>d, <2>m, <2>h DEF LongEnough, MoveTo
  <2>11. CASE Transcribe
    BY <2>11, <2>d, <2>m, <2>h DEF Transcribe, Announced, MoveTo, SttRaised,
       ResetSession
  <2>12. CASE BatchDone
    BY <2>12, <2>d, <2>m, <2>h DEF BatchDone, Finish, MoveTo
  <2>13. CASE BatchFails
    BY <2>13, <2>d, <2>m, <2>h DEF BatchFails, ResetSession
  <2>14. CASE StreamAwaited
    BY <2>14, <2>d, <2>m, <2>h DEF StreamAwaited, Finish, MoveTo, SttRaised,
       ResetSession
  <2>15. CASE TranscriptNotified
    BY <2>15, <2>d, <2>m, <2>h DEF TranscriptNotified, MoveTo
  <2>16. CASE InjectStarts
    BY <2>16, <2>d, <2>m, <2>h DEF InjectStarts, Announced
  <2>17. CASE InjectEnds
    BY <2>17, <2>d, <2>m, <2>h DEF InjectEnds, MoveTo
  <2>18. CASE ErrorNotified
    BY <2>18, <2>d, <2>m, <2>h DEF ErrorNotified, Announced, MoveTo
  <2>19. CASE IdleNotified
    BY <2>19, <2>d, <2>m, <2>h DEF IdleNotified, Announced, ResetSession
  <2>20. CASE CancelIgnored
    BY <2>20, <2>d, <2>m, <2>h DEF CancelIgnored, Take
  <2>21. CASE Cancel
    BY <2>21, <2>d, <2>m, <2>h DEF Cancel, Take, CancelStream, CancelCapture, MoveTo
  <2>22. CASE CancelAwaited
    BY <2>22, <2>d, <2>m, <2>h DEF CancelAwaited, CancelCapture, MoveTo
  <2>23. CASE CancelStopped
    BY <2>23, <2>d, <2>m, <2>h DEF CancelStopped, MoveTo
  <2>24. CASE CancelNotified
    BY <2>24, <2>d, <2>m, <2>h DEF CancelNotified, Announced, MoveTo
  <2>25. CASE ConsumerStops
    BY <2>25, <2>d, <2>m, <2>h DEF ConsumerStops, ConsumerEnds
  <2>26. ASSUME NEW s \in Sids, StreamDone(s) \/ StreamFails(s) \/ StreamCancelled(s)
         PROVE RestInv'
    BY <2>26, <2>d, <2>m, <2>h DEF StreamDone, StreamFails, StreamCancelled
  <2>27. ASSUME NEW s \in Sids, InjectThread(s) PROVE RestInv'
    BY <2>27, <2>d, <2>m, <2>h DEF InjectThread
  <2>28. CASE MeterExits
    BY <2>28, <2>d, <2>m, <2>h DEF MeterExits
  <2>29. CASE ConsumerKilled
    BY <2>29, <2>d, <2>m, <2>h DEF ConsumerKilled, ConsumerEnds
  <2>30. CASE HotkeysRestart
    BY <2>30, <2>d, <2>m, <2>h DEF HotkeysRestart
  <2>31. CASE ShutdownLocks
    BY <2>31, <2>d, <2>m, <2>h DEF ShutdownLocks, CancelStream, ShutdownCapture
  <2>32. CASE ShutdownAwaited
    BY <2>32, <2>d, <2>m, <2>h DEF ShutdownAwaited, ShutdownCapture
  <2>33. CASE ShutdownStopped
    BY <2>33, <2>d, <2>m, <2>h DEF ShutdownStopped
  <2>34. CASE ShutdownHotkeys
    BY <2>34, <2>d, <2>m, <2>h DEF ShutdownHotkeys, BeginStop
  <2>35. CASE ShutdownIndicator
    BY <2>35, <2>d, <2>m, <2>h DEF ShutdownIndicator
  <2>36. ASSUME NEW e \in Events, Emit(e) PROVE RestInv'
    BY <2>36, <2>d, <2>m, <2>h DEF Emit
  <2>37. ASSUME NEW p \in Patches, Patch(p) PROVE RestInv'
    BY <2>37, <2>d, <2>m, <2>h, <2>p DEF Patch, BeginStop
  <2>38. CASE RequestShutdown
    BY <2>38, <2>d, <2>m, <2>h DEF RequestShutdown
  <2>40. CASE ProcessEnds
    BY <2>40, <2>d, <2>m, <2>h DEF ProcessEnds
  <2>39. CASE UNCHANGED vars
    BY <2>39, <2>d, <2>m, <2>h
  <2> QED
    BY <2>1, <2>2, <2>3, <2>4, <2>5, <2>6, <2>7, <2>8, <2>9, <2>10, <2>11, <2>12, <2>13,
       <2>14, <2>15, <2>16, <2>17, <2>18, <2>19, <2>20, <2>21, <2>22, <2>23, <2>24,
       <2>25, <2>26, <2>27, <2>28, <2>29, <2>30, <2>31, <2>32, <2>33, <2>34, <2>35,
       <2>36, <2>37, <2>38, <2>39, <2>40
    DEF Next, Handler, Background, Shutdown, Environment, Terminated
<1>3. RestInv => RestIsConsistent
  BY DEF RestInv, RestIsConsistent, AtRest
<1>4. Spec => []HandlerInv
  BY HandlerInvariant
<1> QED
  BY <1>1, <1>2, <1>3, <1>4, DataTyped, MicrophoneInv, PTL DEF Spec
=============================================================================
