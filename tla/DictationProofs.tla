--------------------------- MODULE DictationProofs ---------------------------
(***************************************************************************)
(* Safety theorems about module Dictation, for every bound, every set of   *)
(* faults and every set of patches.  TypeOK is proved in its three parts;  *)
(* the others are inductive on top of the parts already proved.            *)
(***************************************************************************)
EXTENDS Dictation, TLAPS

USE DEF vars, daemonVars, hotkeyVars, captureVars, streamVars, outputVars,
        controlVars

\* The flags are Booleans: hot, streaming and injectOn are only ever set to one.
THEOREM FlagsTyped == Spec => []FlagType
<1>1. Init => FlagType
  BY DEF Init, FlagType
<1>2. FlagType /\ [Next]_vars => FlagType'
  <2> SUFFICES ASSUME FlagType, [Next]_vars PROVE FlagType'
    OBVIOUS
  <2> USE DEF FlagType
  <2>1. CASE ActivateIgnored BY <2>1 DEF ActivateIgnored
  <2>2. CASE Activate BY <2>2 DEF Activate
  <2>3. CASE CaptureStarts BY <2>3 DEF CaptureStarts
  <2>4. CASE CaptureFails BY <2>4 DEF CaptureFails
  <2>5. CASE DeactivateIgnored BY <2>5 DEF DeactivateIgnored
  <2>6. CASE Deactivate BY <2>6 DEF Deactivate
  <2>7. CASE PumpFailed BY <2>7 DEF PumpFailed
  <2>8. CASE TooShort BY <2>8 DEF TooShort
  <2>9. CASE ShortAwaited BY <2>9 DEF ShortAwaited
  <2>10. CASE LongEnough BY <2>10 DEF LongEnough
  <2>11. CASE Transcribe BY <2>11 DEF Transcribe, SttRaised, ResetSession
  <2>12. CASE BatchDone BY <2>12 DEF BatchDone
  <2>13. CASE BatchFails BY <2>13 DEF BatchFails, ResetSession
  <2>14. CASE StreamAwaited BY <2>14 DEF StreamAwaited, SttRaised, ResetSession
  <2>15. CASE TranscriptNotified BY <2>15 DEF TranscriptNotified
  <2>16. CASE InjectStarts BY <2>16 DEF InjectStarts
  <2>17. CASE InjectEnds BY <2>17 DEF InjectEnds
  <2>18. CASE ErrorNotified BY <2>18 DEF ErrorNotified
  <2>19. CASE IdleNotified BY <2>19 DEF IdleNotified, ResetSession
  <2>20. CASE CancelIgnored BY <2>20 DEF CancelIgnored
  <2>21. CASE Cancel
    <3>1. UNCHANGED <<hot, injectOn, restart>> BY <2>21 DEF Cancel
    <3>2. streaming' = streaming \/ streaming' = FALSE BY <2>21 DEF Cancel, CancelCapture
    <3> QED BY <3>1, <3>2
  <2>22. CASE CancelAwaited BY <2>22 DEF CancelAwaited, CancelCapture
  <2>23. CASE CancelStopped BY <2>23 DEF CancelStopped
  <2>24. CASE CancelNotified BY <2>24 DEF CancelNotified
  <2>25. CASE ConsumerStops BY <2>25 DEF ConsumerStops, ConsumerEnds
  <2>26. ASSUME NEW s \in Sids, StreamDone(s) \/ StreamFails(s) \/ StreamCancelled(s)
         PROVE FlagType'
    BY <2>26 DEF StreamDone, StreamFails, StreamCancelled
  <2>27. ASSUME NEW s \in Sids, InjectThread(s) PROVE FlagType'
    BY <2>27 DEF InjectThread
  <2>28. CASE MeterExits BY <2>28 DEF MeterExits
  <2>29. CASE ConsumerKilled BY <2>29 DEF ConsumerKilled, ConsumerEnds
  <2>30. CASE HotkeysRestart BY <2>30 DEF HotkeysRestart
  <2>31. CASE ShutdownLocks BY <2>31 DEF ShutdownLocks, ShutdownCapture
  <2>32. CASE ShutdownAwaited BY <2>32 DEF ShutdownAwaited, ShutdownCapture
  <2>33. CASE ShutdownStopped BY <2>33 DEF ShutdownStopped
  <2>34. CASE ShutdownHotkeys BY <2>34 DEF ShutdownHotkeys, BeginStop
  <2>35. CASE ShutdownIndicator BY <2>35 DEF ShutdownIndicator
  <2>36. ASSUME NEW e \in Events, Emit(e) PROVE FlagType'
    BY <2>36 DEF Emit
  <2>37. ASSUME NEW p \in Patches, Patch(p) PROVE FlagType'
    BY <2>37 DEF Patch, BeginStop
  <2>38. CASE RequestShutdown BY <2>38 DEF RequestShutdown
  <2>40. CASE ProcessEnds BY <2>40 DEF ProcessEnds
  <2>39. CASE UNCHANGED vars BY <2>39
  <2> QED
    BY <2>1, <2>2, <2>3, <2>4, <2>5, <2>6, <2>7, <2>8, <2>9, <2>10, <2>11,
       <2>12, <2>13, <2>14, <2>15, <2>16, <2>17, <2>18, <2>19, <2>20, <2>21,
       <2>22, <2>23, <2>24, <2>25, <2>26, <2>27, <2>28, <2>29, <2>30, <2>31,
       <2>32, <2>33, <2>34, <2>35, <2>36, <2>37, <2>38, <2>39, <2>40
    DEF Next, Handler, Background, Shutdown, Environment, Terminated
<1> QED BY <1>1, <1>2, PTL DEF Spec

\* Every control variable stays in its type: no transition, announcement or
\* failure path leads the handler or the machine to an unknown state.
THEOREM ControlTyped == Spec => []ControlType
<1>1. Init => ControlType
  BY DEF Init, ControlType, SessionStates, Pcs, NotifyPcs
<1>2. ControlType /\ [Next]_vars => ControlType'
  <2> SUFFICES ASSUME ControlType, [Next]_vars PROVE ControlType'
    OBVIOUS
  <2> USE DEF ControlType, SessionStates, Pcs, NotifyPcs
  <2>1. CASE ActivateIgnored BY <2>1 DEF ActivateIgnored
  <2>2. CASE Activate BY <2>2 DEF Activate, MoveTo
  <2>3. CASE CaptureStarts BY <2>3 DEF CaptureStarts, Announced
  <2>4. CASE CaptureFails BY <2>4 DEF CaptureFails, Announced, MoveTo
  <2>5. CASE DeactivateIgnored BY <2>5 DEF DeactivateIgnored
  <2>6. CASE Deactivate BY <2>6 DEF Deactivate, MoveTo
  <2>7. CASE PumpFailed BY <2>7 DEF PumpFailed, MoveTo
  <2>8. CASE TooShort BY <2>8 DEF TooShort, MoveTo
  <2>9. CASE ShortAwaited BY <2>9 DEF ShortAwaited, MoveTo
  <2>10. CASE LongEnough BY <2>10 DEF LongEnough, MoveTo
  <2>11. CASE Transcribe BY <2>11 DEF Transcribe, Announced, MoveTo, SttRaised, ResetSession
  <2>12. CASE BatchDone BY <2>12 DEF BatchDone, Finish, MoveTo
  <2>13. CASE BatchFails BY <2>13 DEF BatchFails, ResetSession
  <2>14. CASE StreamAwaited BY <2>14 DEF StreamAwaited, Finish, MoveTo, SttRaised, ResetSession
  <2>15. CASE TranscriptNotified BY <2>15 DEF TranscriptNotified, MoveTo
  <2>16. CASE InjectStarts BY <2>16 DEF InjectStarts, Announced
  <2>17. CASE InjectEnds BY <2>17 DEF InjectEnds, MoveTo
  <2>18. CASE ErrorNotified BY <2>18 DEF ErrorNotified, Announced, MoveTo
  <2>19. CASE IdleNotified BY <2>19 DEF IdleNotified, Announced, ResetSession
  <2>20. CASE CancelIgnored BY <2>20 DEF CancelIgnored
  <2>21. CASE Cancel BY <2>21 DEF Cancel, CancelCapture, MoveTo
  <2>22. CASE CancelAwaited BY <2>22 DEF CancelAwaited, CancelCapture, MoveTo
  <2>23. CASE CancelStopped BY <2>23 DEF CancelStopped, MoveTo
  <2>24. CASE CancelNotified BY <2>24 DEF CancelNotified, Announced, MoveTo
  <2>25. CASE ConsumerStops BY <2>25 DEF ConsumerStops, ConsumerEnds
  <2>26. ASSUME NEW s \in Sids, StreamDone(s) \/ StreamFails(s) \/ StreamCancelled(s)
         PROVE ControlType'
    BY <2>26 DEF StreamDone, StreamFails, StreamCancelled
  <2>27. ASSUME NEW s \in Sids, InjectThread(s) PROVE ControlType'
    BY <2>27 DEF InjectThread
  <2>28. CASE MeterExits BY <2>28 DEF MeterExits
  <2>29. CASE ConsumerKilled BY <2>29 DEF ConsumerKilled, ConsumerEnds
  <2>30. CASE HotkeysRestart BY <2>30 DEF HotkeysRestart
  <2>31. CASE ShutdownLocks BY <2>31 DEF ShutdownLocks, ShutdownCapture
  <2>32. CASE ShutdownAwaited BY <2>32 DEF ShutdownAwaited, ShutdownCapture
  <2>33. CASE ShutdownStopped BY <2>33 DEF ShutdownStopped
  <2>34. CASE ShutdownHotkeys BY <2>34 DEF ShutdownHotkeys, BeginStop
  <2>35. CASE ShutdownIndicator BY <2>35 DEF ShutdownIndicator
  <2>36. ASSUME NEW e \in Events, Emit(e) PROVE ControlType'
    BY <2>36 DEF Emit
  <2>37. ASSUME NEW p \in Patches, Patch(p) PROVE ControlType'
    BY <2>37 DEF Patch, BeginStop
  <2>38. CASE RequestShutdown BY <2>38 DEF RequestShutdown
  <2>40. CASE ProcessEnds BY <2>40 DEF ProcessEnds
  <2>39. CASE UNCHANGED vars BY <2>39
  <2> QED
    BY <2>1, <2>2, <2>3, <2>4, <2>5, <2>6, <2>7, <2>8, <2>9, <2>10, <2>11,
       <2>12, <2>13, <2>14, <2>15, <2>16, <2>17, <2>18, <2>19, <2>20, <2>21,
       <2>22, <2>23, <2>24, <2>25, <2>26, <2>27, <2>28, <2>29, <2>30, <2>31,
       <2>32, <2>33, <2>34, <2>35, <2>36, <2>37, <2>38, <2>39, <2>40
    DEF Next, Handler, Background, Shutdown, Environment, Terminated
<1> QED BY <1>1, <1>2, PTL DEF Spec

\* Strengthening of DataType: a dictation number exists whenever a handler is
\* suspended or the machine listens, so that what handlers record about "the
\* current dictation" is about one; the awaited stream task exists; and no
\* handler runs while shutdown holds the lock.
Numbered == /\ sid = 0 => pc = "rest" /\ st # "LISTENING"
            /\ pc = "awaitStream" => task # 0
            /\ sd \in {"sdAwait", "sdStop"} => pc = "rest"
DataInv == DataType /\ Numbered

\* The bounds and the kinds, in the form the steps use.
LEMMA Bounds == /\ MaxSessions \in Nat \ {0} /\ Sids = 1..MaxSessions
                /\ Patches \subseteq PatchKinds
  BY BoundsAssumption, KindsAssumption DEF Sids

\* Stopping the hotkey manager leaves a queue of events and sentinels.
LEMMA StopTyped ==
  ASSUME queue \in Seq(Events \cup {"STOP"}), BeginStop
  PROVE  queue' \in Seq(Events \cup {"STOP"})
<1>1. CASE mgr = "up"
  <2>1. PICK k \in 0..Len(queue) : queue' = Append(SubSeq(queue, 1, k), "STOP")
    BY <1>1 DEF BeginStop
  <2>2. SubSeq(queue, 1, k) \in Seq(Events \cup {"STOP"})
    OBVIOUS
  <2> QED BY <2>1, <2>2
<1>2. CASE mgr # "up"
  BY <1>2 DEF BeginStop
<1> QED BY <1>1, <1>2

\* Recording a dictation leaves a history of dictations.
LEMMA HistoryTyped ==
  ASSUME history \in Seq(Sids), NEW s \in Sids,
         history' = history \/ history' = Append(history, s)
  PROVE  history' \in Seq(Sids)
OBVIOUS

\* Numbers, queues, sets and per-dictation tables stay in their types.
THEOREM DataTyped == Spec => []DataInv
<1>1. Init => DataInv
  BY Bounds DEF Init, DataInv, DataType, Numbered, Live
<1>2. DataInv /\ [Next]_vars => DataInv'
  <2> SUFFICES ASSUME DataInv, [Next]_vars PROVE DataInv'
    OBVIOUS
  <2> USE Bounds DEF DataInv, DataType, Numbered, Live, Events, HandlerMayStart
  <2>1. CASE ActivateIgnored BY <2>1 DEF ActivateIgnored, Take
  <2>2. CASE Activate BY <2>2 DEF Activate, Take, MoveTo
  <2>3. CASE CaptureStarts BY <2>3 DEF CaptureStarts
  <2>4. CASE CaptureFails BY <2>4 DEF CaptureFails, MoveTo
  <2>5. CASE DeactivateIgnored BY <2>5 DEF DeactivateIgnored, Take
  <2>6. CASE Deactivate
    <3>1. mic' \subseteq Sids BY <2>6 DEF Deactivate, Take, MoveTo
    <3>2. queue' \in Seq(Events \cup {"STOP"}) BY <2>6 DEF Deactivate, Take, MoveTo
    <3>3. Numbered' BY <2>6 DEF Deactivate, Take, MoveTo
    <3> QED BY <2>6, <3>1, <3>2, <3>3 DEF Deactivate, Take, MoveTo
  <2>7. CASE PumpFailed BY <2>7 DEF PumpFailed, MoveTo
  <2>8. CASE TooShort BY <2>8 DEF TooShort, MoveTo, CancelStream
  <2>9. CASE ShortAwaited BY <2>9 DEF ShortAwaited, MoveTo
  <2>10. CASE LongEnough BY <2>10 DEF LongEnough, MoveTo
  <2>11. CASE Transcribe BY <2>11 DEF Transcribe, MoveTo, SttRaised, ResetSession
  <2>12. CASE BatchDone
    <3>1. sid \in Sids BY <2>12 DEF BatchDone
    <3>2. history' = history \/ history' = Append(history, sid) BY <2>12 DEF BatchDone, Finish
    <3>3. history' \in Seq(Sids) BY <3>1, <3>2, HistoryTyped
    <3>4. Numbered' BY <2>12 DEF BatchDone, Finish, MoveTo
    <3> QED BY <3>3, <3>4, <2>12 DEF BatchDone, Finish
  <2>13. CASE BatchFails BY <2>13 DEF BatchFails, ResetSession
  <2>14. CASE StreamAwaited
    <3>1. task \in Sids BY <2>14 DEF StreamAwaited
    <3>2. history' = history \/ history' = Append(history, task)
      BY <2>14 DEF StreamAwaited, Finish
    <3>3. history' \in Seq(Sids) BY <3>1, <3>2, HistoryTyped
    <3>4. src' \in 0..MaxSessions BY <2>14 DEF StreamAwaited, Finish
    <3>5. task' \in 0..MaxSessions BY <2>14 DEF StreamAwaited, SttRaised, ResetSession
    <3>6. Numbered'
      BY <2>14 DEF StreamAwaited, Finish, MoveTo, SttRaised, ResetSession
    <3> QED BY <3>3, <3>4, <3>5, <3>6, <2>14 DEF StreamAwaited
  <2>15. CASE TranscriptNotified BY <2>15 DEF TranscriptNotified, MoveTo
  <2>16. CASE InjectStarts BY <2>16 DEF InjectStarts
  <2>17. CASE InjectEnds BY <2>17 DEF InjectEnds, MoveTo
  <2>18. CASE ErrorNotified BY <2>18 DEF ErrorNotified, MoveTo
  <2>19. CASE IdleNotified BY <2>19 DEF IdleNotified, ResetSession
  <2>20. CASE CancelIgnored BY <2>20 DEF CancelIgnored, Take
  <2>21. CASE Cancel
    <3>1. mic' \subseteq Sids BY <2>21 DEF Cancel, Take, CancelStream, CancelCapture, MoveTo
    <3>2. queue' \in Seq(Events \cup {"STOP"}) BY <2>21 DEF Cancel, Take, CancelStream, CancelCapture, MoveTo
    <3>3. stream' \in [Sids -> Live \cup {"none", "done", "failed", "cancelled"}] BY <2>21 DEF Cancel, Take, CancelStream, CancelCapture, MoveTo
    <3>4. discarded' \subseteq Sids BY <2>21 DEF Cancel, Take, CancelStream, CancelCapture, MoveTo
    <3>5. task' \in 0..MaxSessions BY <2>21 DEF Cancel, Take, CancelStream, CancelCapture, MoveTo
    <3>6. Numbered' BY <2>21 DEF Cancel, Take, CancelStream, CancelCapture, MoveTo
    <3> QED BY <2>21, <3>1, <3>2, <3>3, <3>4, <3>5, <3>6 DEF Cancel, Take, CancelStream, CancelCapture, MoveTo
  <2>22. CASE CancelAwaited
    <3>1. mic' \subseteq Sids BY <2>22 DEF CancelAwaited, CancelCapture, MoveTo
    <3>2. Numbered' BY <2>22 DEF CancelAwaited, CancelCapture, MoveTo
    <3> QED BY <2>22, <3>1, <3>2 DEF CancelAwaited, CancelCapture, MoveTo
  <2>23. CASE CancelStopped BY <2>23 DEF CancelStopped, MoveTo
  <2>24. CASE CancelNotified BY <2>24 DEF CancelNotified, MoveTo
  <2>25. CASE ConsumerStops BY <2>25 DEF ConsumerStops, ConsumerEnds
  <2>26. ASSUME NEW s \in Sids, StreamDone(s) \/ StreamFails(s) \/ StreamCancelled(s)
         PROVE DataInv'
    BY <2>26 DEF StreamDone, StreamFails, StreamCancelled
  <2>27. ASSUME NEW s \in Sids, InjectThread(s) PROVE DataInv'
    BY <2>27 DEF InjectThread
  <2>28. CASE MeterExits BY <2>28 DEF MeterExits
  <2>29. CASE ConsumerKilled BY <2>29 DEF ConsumerKilled, ConsumerEnds
  <2>30. CASE HotkeysRestart BY <2>30 DEF HotkeysRestart
  <2>31. CASE ShutdownLocks
    <3>1. mic' \subseteq Sids BY <2>31 DEF ShutdownLocks, CancelStream, ShutdownCapture
    <3>2. stream' \in [Sids -> Live \cup {"none", "done", "failed", "cancelled"}] BY <2>31 DEF ShutdownLocks, CancelStream, ShutdownCapture
    <3>3. Numbered' BY <2>31 DEF ShutdownLocks, CancelStream, ShutdownCapture
    <3> QED BY <2>31, <3>1, <3>2, <3>3 DEF ShutdownLocks, CancelStream, ShutdownCapture
  <2>32. CASE ShutdownAwaited
    <3>1. mic' \subseteq Sids BY <2>32 DEF ShutdownAwaited, ShutdownCapture
    <3>2. Numbered' BY <2>32 DEF ShutdownAwaited, ShutdownCapture
    <3> QED BY <2>32, <3>1, <3>2 DEF ShutdownAwaited, ShutdownCapture
  <2>33. CASE ShutdownStopped BY <2>33 DEF ShutdownStopped
  <2>34. CASE ShutdownHotkeys
    <3>1. queue' \in Seq(Events \cup {"STOP"}) BY <2>34, StopTyped DEF ShutdownHotkeys
    <3> QED BY <2>34, <3>1 DEF ShutdownHotkeys
  <2>35. CASE ShutdownIndicator BY <2>35 DEF ShutdownIndicator
  <2>36. ASSUME NEW e \in Events, Emit(e) PROVE DataInv'
    BY <2>36 DEF Emit
  <2>37. ASSUME NEW p \in Patches, Patch(p) PROVE DataInv'
    <3>1. queue' \in Seq(Events \cup {"STOP"})
      <4>1. CASE p = "hotkey" BY <2>37, <4>1, StopTyped DEF Patch
      <4>2. CASE p # "hotkey" BY <2>37, <4>2 DEF Patch
      <4> QED BY <4>1, <4>2
    <3>2. patched' \subseteq Patches BY <2>37 DEF Patch
    <3> QED BY <2>37, <3>1, <3>2 DEF Patch
  <2>38. CASE RequestShutdown BY <2>38 DEF RequestShutdown
  <2>40. CASE ProcessEnds BY <2>40 DEF ProcessEnds
  <2>39. CASE UNCHANGED vars BY <2>39
  <2> QED
    BY <2>1, <2>2, <2>3, <2>4, <2>5, <2>6, <2>7, <2>8, <2>9, <2>10, <2>11,
       <2>12, <2>13, <2>14, <2>15, <2>16, <2>17, <2>18, <2>19, <2>20, <2>21,
       <2>22, <2>23, <2>24, <2>25, <2>26, <2>27, <2>28, <2>29, <2>30, <2>31,
       <2>32, <2>33, <2>34, <2>35, <2>36, <2>37, <2>38, <2>39, <2>40
    DEF Next, Handler, Background, Shutdown, Environment, Terminated
<1> QED BY <1>1, <1>2, PTL DEF Spec

\* TypeOK holds in every behaviour.
THEOREM TypeCorrect == Spec => []TypeOK
<1>1. ControlType /\ FlagType /\ DataInv => TypeOK
  BY DEF TypeOK, DataInv
<1> QED BY <1>1, ControlTyped, FlagsTyped, DataTyped, PTL

\* What a step can do to the stream tasks and the numbering: the task of a
\* dictation is created once, when its capture starts; a task that is over stays
\* as it ended; and an activation takes the next number.
StreamStep ==
    /\ \A s \in Sids : \/ stream[s] \in Live \/ stream'[s] = stream[s]
                       \/ s = sid /\ pc = "listenNotify" /\ pc' = "rest"
    /\ \/ sid' = sid /\ (pc' = "listenNotify" => pc = "listenNotify")
       \/ sid' = sid + 1 /\ UNCHANGED stream

LEMMA StreamSteps == DataInv /\ [Next]_vars => StreamStep
<1> SUFFICES ASSUME DataInv, [Next]_vars PROVE StreamStep
  OBVIOUS
<1> USE Bounds DEF StreamStep, DataInv, DataType, Numbered, Live, NotifyPcs
<1>1. CASE ActivateIgnored BY <1>1 DEF ActivateIgnored, Take
<1>2. CASE Activate BY <1>2 DEF Activate, Take, MoveTo
<1>3. CASE CaptureStarts BY <1>3 DEF CaptureStarts
<1>4. CASE CaptureFails BY <1>4 DEF CaptureFails, MoveTo
<1>5. CASE DeactivateIgnored BY <1>5 DEF DeactivateIgnored, Take
<1>6. CASE Deactivate BY <1>6 DEF Deactivate, Take, MoveTo
<1>7. CASE PumpFailed BY <1>7 DEF PumpFailed, MoveTo
<1>8. CASE TooShort BY <1>8 DEF TooShort, MoveTo, CancelStream
<1>9. CASE ShortAwaited BY <1>9 DEF ShortAwaited, MoveTo
<1>10. CASE LongEnough BY <1>10 DEF LongEnough, MoveTo
<1>11. CASE Transcribe BY <1>11 DEF Transcribe, MoveTo, SttRaised, ResetSession
<1>12. CASE BatchDone BY <1>12 DEF BatchDone, Finish, MoveTo
<1>13. CASE BatchFails BY <1>13 DEF BatchFails, ResetSession
<1>14. CASE StreamAwaited BY <1>14 DEF StreamAwaited, Finish, MoveTo, SttRaised, ResetSession
<1>15. CASE TranscriptNotified BY <1>15 DEF TranscriptNotified, MoveTo
<1>16. CASE InjectStarts BY <1>16 DEF InjectStarts
<1>17. CASE InjectEnds BY <1>17 DEF InjectEnds, MoveTo
<1>18. CASE ErrorNotified BY <1>18 DEF ErrorNotified, MoveTo
<1>19. CASE IdleNotified BY <1>19 DEF IdleNotified, ResetSession
<1>20. CASE CancelIgnored BY <1>20 DEF CancelIgnored, Take
<1>21. CASE Cancel BY <1>21 DEF Cancel, Take, CancelStream, CancelCapture, MoveTo
<1>22. CASE CancelAwaited BY <1>22 DEF CancelAwaited, CancelCapture, MoveTo
<1>23. CASE CancelStopped BY <1>23 DEF CancelStopped, MoveTo
<1>24. CASE CancelNotified BY <1>24 DEF CancelNotified, MoveTo
<1>25. CASE ConsumerStops BY <1>25 DEF ConsumerStops, ConsumerEnds
<1>26. ASSUME NEW s \in Sids, StreamDone(s) \/ StreamFails(s) \/ StreamCancelled(s)
       PROVE StreamStep
  BY <1>26 DEF StreamDone, StreamFails, StreamCancelled
<1>27. ASSUME NEW s \in Sids, InjectThread(s) PROVE StreamStep
  BY <1>27 DEF InjectThread
<1>28. CASE MeterExits BY <1>28 DEF MeterExits
<1>29. CASE ConsumerKilled BY <1>29 DEF ConsumerKilled, ConsumerEnds
<1>30. CASE HotkeysRestart BY <1>30 DEF HotkeysRestart
<1>31. CASE ShutdownLocks BY <1>31 DEF ShutdownLocks, CancelStream, ShutdownCapture
<1>32. CASE ShutdownAwaited BY <1>32 DEF ShutdownAwaited, ShutdownCapture
<1>33. CASE ShutdownStopped BY <1>33 DEF ShutdownStopped
<1>34. CASE ShutdownHotkeys BY <1>34 DEF ShutdownHotkeys, BeginStop
<1>35. CASE ShutdownIndicator BY <1>35 DEF ShutdownIndicator
<1>36. ASSUME NEW e \in Events, Emit(e) PROVE StreamStep
  BY <1>36 DEF Emit
<1>37. ASSUME NEW p \in Patches, Patch(p) PROVE StreamStep
  BY <1>37 DEF Patch
<1>38. CASE RequestShutdown BY <1>38 DEF RequestShutdown
<1>40. CASE ProcessEnds BY <1>40 DEF ProcessEnds
<1>39. CASE UNCHANGED vars BY <1>39
<1> QED
  BY <1>1, <1>2, <1>3, <1>4, <1>5, <1>6, <1>7, <1>8, <1>9, <1>10, <1>11,
     <1>12, <1>13, <1>14, <1>15, <1>16, <1>17, <1>18, <1>19, <1>20, <1>21,
     <1>22, <1>23, <1>24, <1>25, <1>26, <1>27, <1>28, <1>29, <1>30, <1>31,
     <1>32, <1>33, <1>34, <1>35, <1>36, <1>37, <1>38, <1>39, <1>40
  DEF Next, Handler, Background, Shutdown, Environment, Terminated

\* A dictation that has not opened its capture has no stream task yet.
FreshStream == \A s \in Sids : s > sid \/ (s = sid /\ pc = "listenNotify")
                                  => stream[s] = "none"

\* The streams of dictations to come are fresh in every behaviour.
THEOREM StreamsFresh == Spec => []FreshStream
<1>1. Init => FreshStream
  BY DEF Init, FreshStream
<1>2. FreshStream /\ DataInv /\ [Next]_vars => FreshStream'
  <2> SUFFICES ASSUME FreshStream, DataInv, [Next]_vars PROVE FreshStream'
    OBVIOUS
  <2>1. StreamStep BY StreamSteps
  <2>2. ASSUME NEW s \in Sids, s > sid' \/ (s = sid' /\ pc' = "listenNotify")
        PROVE stream'[s] = "none"
    <3>1. s \in Nat /\ sid \in Nat BY Bounds DEF DataInv, DataType
    <3>2. CASE sid' = sid /\ (pc' = "listenNotify" => pc = "listenNotify")
      <4>1. stream[s] = "none" BY <2>2, <3>1, <3>2 DEF FreshStream
      <4>2. ~(s = sid /\ pc = "listenNotify" /\ pc' = "rest")
        BY <2>2, <3>1, <3>2
      <4> QED BY <2>1, <4>1, <4>2 DEF StreamStep, Live
    <3>3. CASE sid' = sid + 1 /\ UNCHANGED stream
      <4>1. s > sid BY <2>2, <3>1, <3>3
      <4> QED BY <4>1, <3>3 DEF FreshStream
    <3> QED BY <2>1, <3>2, <3>3 DEF StreamStep
  <2> QED BY <2>2 DEF FreshStream
<1> QED BY <1>1, <1>2, DataTyped, PTL DEF Spec

\* Strengthening of MicrophoneOwned: the handler can be suspended with a
\* recording session only while it awaits a cancelled stream task; opens one
\* only while the machine listens, or after a stream task has failed, which
\* stays failed; and shutdown resets it after closing it.
MicInv == /\ MicrophoneOwned
          /\ session = "recording" => pc \in {"rest", "cancelAwait"}
          /\ pc = "listenNotify" => st = "LISTENING" \/ (st = "ERROR" /\ StreamHasFailed)
          /\ sd = "sdStop" => session # "recording"

\* The strengthening is inductive.
THEOREM MicrophoneInv == Spec => []MicInv
<1>1. Init => MicInv
  BY Bounds DEF Init, MicInv, MicrophoneOwned
<1>2. MicInv /\ DataInv /\ FreshStream /\ [Next]_vars => MicInv'
  <2> SUFFICES ASSUME MicInv, DataInv, FreshStream, [Next]_vars PROVE MicInv'
    OBVIOUS
  <2>a. StreamHasFailed => StreamHasFailed'
    <3>1. ASSUME NEW s \in Sids, stream[s] = "failed" PROVE stream'[s] = "failed"
      BY <3>1, StreamSteps DEF StreamStep, FreshStream, Live
    <3> QED BY <3>1 DEF StreamHasFailed
  <2>b. ASSUME NEW s \in Sids, StreamFails(s) PROVE StreamHasFailed'
    BY <2>b DEF StreamFails, StreamHasFailed, DataInv, DataType
  <2> USE <2>a, Bounds DEF MicInv, MicrophoneOwned, HandlerMayStart, DataInv, DataType, Numbered
  <2>1. CASE ActivateIgnored BY <2>1 DEF ActivateIgnored, Take
  <2>2. CASE Activate BY <2>2 DEF Activate, Take, MoveTo
  <2>3. CASE CaptureStarts BY <2>3 DEF CaptureStarts
  <2>4. CASE CaptureFails BY <2>4 DEF CaptureFails, MoveTo
  <2>5. CASE DeactivateIgnored BY <2>5 DEF DeactivateIgnored, Take
  <2>6. CASE Deactivate BY <2>6 DEF Deactivate, Take, MoveTo
  <2>7. CASE PumpFailed BY <2>7 DEF PumpFailed, MoveTo
  <2>8. CASE TooShort BY <2>8 DEF TooShort, MoveTo
  <2>9. CASE ShortAwaited BY <2>9 DEF ShortAwaited, MoveTo
  <2>10. CASE LongEnough BY <2>10 DEF LongEnough, MoveTo
  <2>11. CASE Transcribe BY <2>11 DEF Transcribe, MoveTo, SttRaised, ResetSession
  <2>12. CASE BatchDone BY <2>12 DEF BatchDone, Finish, MoveTo
  <2>13. CASE BatchFails BY <2>13 DEF BatchFails, ResetSession
  <2>14. CASE StreamAwaited BY <2>14 DEF StreamAwaited, Finish, MoveTo, SttRaised, ResetSession
  <2>15. CASE TranscriptNotified BY <2>15 DEF TranscriptNotified, MoveTo
  <2>16. CASE InjectStarts BY <2>16 DEF InjectStarts
  <2>17. CASE InjectEnds BY <2>17 DEF InjectEnds, MoveTo
  <2>18. CASE ErrorNotified BY <2>18 DEF ErrorNotified, MoveTo
  <2>19. CASE IdleNotified BY <2>19 DEF IdleNotified, ResetSession
  <2>20. CASE CancelIgnored BY <2>20 DEF CancelIgnored, Take
  <2>21. CASE Cancel BY <2>21 DEF Cancel, Take, CancelCapture, MoveTo
  <2>22. CASE CancelAwaited BY <2>22 DEF CancelAwaited, CancelCapture, MoveTo
  <2>23. CASE CancelStopped BY <2>23 DEF CancelStopped, MoveTo
  <2>24. CASE CancelNotified BY <2>24 DEF CancelNotified, MoveTo
  <2>25. CASE ConsumerStops BY <2>25 DEF ConsumerStops, ConsumerEnds
  <2>26. ASSUME NEW s \in Sids, StreamDone(s) \/ StreamFails(s) \/ StreamCancelled(s)
         PROVE MicInv'
    BY <2>26, <2>b DEF StreamDone, StreamFails, StreamCancelled
  <2>27. ASSUME NEW s \in Sids, InjectThread(s) PROVE MicInv'
    BY <2>27 DEF InjectThread
  <2>28. CASE MeterExits BY <2>28 DEF MeterExits
  <2>29. CASE ConsumerKilled BY <2>29 DEF ConsumerKilled, ConsumerEnds
  <2>30. CASE HotkeysRestart BY <2>30 DEF HotkeysRestart
  <2>31. CASE ShutdownLocks BY <2>31 DEF ShutdownLocks, ShutdownCapture
  <2>32. CASE ShutdownAwaited BY <2>32 DEF ShutdownAwaited, ShutdownCapture
  <2>33. CASE ShutdownStopped BY <2>33 DEF ShutdownStopped
  <2>34. CASE ShutdownHotkeys BY <2>34 DEF ShutdownHotkeys, BeginStop
  <2>35. CASE ShutdownIndicator BY <2>35 DEF ShutdownIndicator
  <2>36. ASSUME NEW e \in Events, Emit(e) PROVE MicInv'
    BY <2>36 DEF Emit
  <2>37. ASSUME NEW p \in Patches, Patch(p) PROVE MicInv'
    BY <2>37 DEF Patch
  <2>38. CASE RequestShutdown BY <2>38 DEF RequestShutdown
  <2>40. CASE ProcessEnds BY <2>40 DEF ProcessEnds
  <2>39. CASE UNCHANGED vars BY <2>39
  <2> QED
    BY <2>1, <2>2, <2>3, <2>4, <2>5, <2>6, <2>7, <2>8, <2>9, <2>10, <2>11,
       <2>12, <2>13, <2>14, <2>15, <2>16, <2>17, <2>18, <2>19, <2>20, <2>21,
       <2>22, <2>23, <2>24, <2>25, <2>26, <2>27, <2>28, <2>29, <2>30, <2>31,
       <2>32, <2>33, <2>34, <2>35, <2>36, <2>37, <2>38, <2>39, <2>40
    DEF Next, Handler, Background, Shutdown, Environment, Terminated
<1> QED BY <1>1, <1>2, DataTyped, StreamsFresh, PTL DEF Spec

\* The microphone is open only for the latest dictation, held by the controller,
\* and unless a stream task has failed the machine is then LISTENING: whatever
\* fails, whichever handler is killed by a hotkey restart, during and after
\* shutdown.
THEOREM MicrophoneAlwaysOwned == Spec => []MicrophoneOwned
<1>1. MicInv => MicrophoneOwned
  BY DEF MicInv
<1> QED BY <1>1, MicrophoneInv, PTL

\* The dictation in hand has not been recorded yet.
Unrecorded == \A i \in DOMAIN history : history[i] < sid

\* Strengthening of HistoryInOrder and RecordedBeforePasted.  From its
\* activation to its outcome the dictation in hand is unrecorded and, unless
\* it is being cancelled, not discarded; a streaming one is served by its own
\* stream task; and what is being announced or injected is in the history.
Outcome == {"procNotify", "awaitStream", "transcribing"}
Capture == {"listenNotify", "stopping"}
DeliveryInv ==
    /\ HistoryInOrder /\ RecordedBeforePasted
    /\ \A i \in DOMAIN history : history[i] <= sid
    /\ \A s \in discarded : s <= sid /\ \A i \in DOMAIN history : history[i] # s
    /\ st = "LISTENING" \/ pc \in Capture \cup Outcome => Unrecorded
    /\ pc \in Capture \cup Outcome \/ (pc = "rest" /\ session = "recording")
          => sid \notin discarded
    /\ streaming /\ (session = "recording" \/ pc \in {"stopping", "procNotify"})
          => task = sid
    /\ pc = "awaitStream" => task = sid
    /\ pc \in Outcome => st \in {"PROCESSING", "ERROR"}
    /\ pc \in {"transcriptNotify", "injectNotify", "injecting"}
          => \E i \in DOMAIN history : history[i] = src
    /\ pc \in {"transcriptNotify", "injectNotify"} => thr[src] = "none"

\* Recording the dictation in hand keeps the history ordered, complete and free
\* of discarded dictations.
LEMMA Recording ==
  ASSUME history \in Seq(Sids), sid \in Sids, DeliveryInv, Unrecorded,
         sid \notin discarded, history' = Append(history, sid),
         UNCHANGED <<sid, thr, discarded>>, Bounds
  PROVE  /\ HistoryInOrder' /\ RecordedBeforePasted'
         /\ \A i \in DOMAIN history' : history'[i] <= sid
         /\ \A s \in discarded : s <= sid /\ \A i \in DOMAIN history' : history'[i] # s
         /\ \E i \in DOMAIN history' : history'[i] = sid
<1> DEFINE n == Len(history)
<1>1. /\ n \in Nat /\ DOMAIN history = 1..n /\ DOMAIN history' = 1..(n + 1)
      /\ \A i \in 1..n : history'[i] = history[i] /\ history[i] \in Sids
      /\ history'[n + 1] = sid
  OBVIOUS
<1>2. \A i \in 1..n : history[i] < sid /\ history[i] \in Nat
  BY <1>1, Bounds DEF Unrecorded
<1>3. HistoryInOrder'
  BY <1>1, <1>2 DEF HistoryInOrder, DeliveryInv
<1>4. RecordedBeforePasted'
  <2>1. ASSUME NEW s \in Sids, thr[s] # "none" PROVE \E i \in DOMAIN history' : history'[i] = s
    BY <1>1, <2>1 DEF RecordedBeforePasted, DeliveryInv
  <2> QED BY <2>1 DEF RecordedBeforePasted
<1>5. \A i \in DOMAIN history' : history'[i] <= sid
  BY <1>1, <1>2, Bounds
<1>6. \A s \in discarded : s <= sid /\ \A i \in DOMAIN history' : history'[i] # s
  <2>1. ASSUME NEW s \in discarded, NEW i \in 1..(n + 1) PROVE history'[i] # s
    <3>1. CASE i = n + 1 BY <1>1, <3>1
    <3>2. CASE i # n + 1 BY <1>1, <3>2 DEF DeliveryInv
    <3> QED BY <3>1, <3>2
  <2> QED BY <1>1, <2>1 DEF DeliveryInv
<1>7. \E i \in DOMAIN history' : history'[i] = sid
  BY <1>1
<1> HIDE DEF n
<1> QED BY <1>3, <1>4, <1>5, <1>6, <1>7

\* The strengthening is inductive.
THEOREM DeliveryInvariant == Spec => []DeliveryInv
<1>1. Init => DeliveryInv
  BY Bounds DEF Init, DeliveryInv, HistoryInOrder, RecordedBeforePasted, Outcome, Capture
<1>2. DeliveryInv /\ DataInv /\ MicInv /\ [Next]_vars => DeliveryInv'
  <2> SUFFICES ASSUME DeliveryInv, DataInv, MicInv, [Next]_vars PROVE DeliveryInv'
    OBVIOUS
  <2> USE Bounds DEF DataInv, DataType, MicInv, MicrophoneOwned, DeliveryInv, HistoryInOrder, RecordedBeforePasted, Unrecorded, Outcome, Capture, NotifyPcs, Numbered, HandlerMayStart
  <2>1. CASE ActivateIgnored BY <2>1 DEF ActivateIgnored, Take
  <2>2. CASE Activate BY <2>2 DEF Activate, Take, MoveTo
  <2>3. CASE CaptureStarts BY <2>3 DEF CaptureStarts
  <2>4. CASE CaptureFails BY <2>4 DEF CaptureFails, MoveTo
  <2>5. CASE DeactivateIgnored BY <2>5 DEF DeactivateIgnored, Take
  <2>6. CASE Deactivate BY <2>6 DEF Deactivate, Take, MoveTo
  <2>7. CASE PumpFailed BY <2>7 DEF PumpFailed, MoveTo
  <2>8. CASE TooShort BY <2>8 DEF TooShort, MoveTo
  <2>9. CASE ShortAwaited BY <2>9 DEF ShortAwaited, MoveTo
  <2>10. CASE LongEnough BY <2>10 DEF LongEnough, MoveTo
  <2>11. CASE Transcribe BY <2>11 DEF Transcribe, MoveTo, SttRaised, ResetSession
  <2>12. CASE BatchDone
    <3>1. CASE history' = history
      BY <2>12, <3>1 DEF BatchDone, Finish, MoveTo
    <3>2. CASE history' # history
      <4>1. /\ sid \in Sids /\ Unrecorded /\ sid \notin discarded
            /\ history' = Append(history, sid) /\ UNCHANGED <<sid, thr, discarded>>
            /\ pc' = "transcriptNotify" /\ st' = st /\ st # "LISTENING" /\ src' = sid
        BY <2>12, <3>2 DEF BatchDone, Finish
      <4>2. /\ HistoryInOrder' /\ RecordedBeforePasted'
            /\ \A i \in DOMAIN history' : history'[i] <= sid
            /\ \A s \in discarded : s <= sid /\ \A i \in DOMAIN history' : history'[i] # s
            /\ \E i \in DOMAIN history' : history'[i] = sid
        BY <4>1, Recording, Bounds
      <4>3. thr'[sid] = "none" BY <4>1, Bounds DEF DeliveryInv, RecordedBeforePasted, Unrecorded
      <4>4. session' # "recording" BY <2>12, <4>1 DEF BatchDone, Finish
      <4> QED BY <4>1, <4>2, <4>3, <4>4 DEF DeliveryInv
    <3> QED BY <3>1, <3>2
  <2>13. CASE BatchFails BY <2>13 DEF BatchFails, ResetSession
  <2>14. CASE StreamAwaited
    <3>1. CASE history' = history
      BY <2>14, <3>1 DEF StreamAwaited, Finish, MoveTo, SttRaised, ResetSession
    <3>2. CASE history' # history
      <4>1. /\ sid \in Sids /\ Unrecorded /\ sid \notin discarded
            /\ history' = Append(history, sid) /\ UNCHANGED <<sid, thr, discarded>>
            /\ pc' = "transcriptNotify" /\ st' = st /\ st # "LISTENING" /\ src' = sid
        BY <2>14, <3>2 DEF StreamAwaited, Finish, SttRaised, ResetSession
      <4>2. /\ HistoryInOrder' /\ RecordedBeforePasted'
            /\ \A i \in DOMAIN history' : history'[i] <= sid
            /\ \A s \in discarded : s <= sid /\ \A i \in DOMAIN history' : history'[i] # s
            /\ \E i \in DOMAIN history' : history'[i] = sid
        BY <4>1, Recording, Bounds
      <4>3. thr'[sid] = "none" BY <4>1, Bounds DEF DeliveryInv, RecordedBeforePasted, Unrecorded
      <4>4. session' # "recording" BY <2>14, <4>1 DEF StreamAwaited, Finish, SttRaised, ResetSession
      <4> QED BY <4>1, <4>2, <4>3, <4>4 DEF DeliveryInv
    <3> QED BY <3>1, <3>2
  <2>15. CASE TranscriptNotified BY <2>15 DEF TranscriptNotified, MoveTo
  <2>16. CASE InjectStarts BY <2>16 DEF InjectStarts
  <2>17. CASE InjectEnds BY <2>17 DEF InjectEnds, MoveTo
  <2>18. CASE ErrorNotified BY <2>18 DEF ErrorNotified, MoveTo
  <2>19. CASE IdleNotified BY <2>19 DEF IdleNotified, ResetSession
  <2>20. CASE CancelIgnored BY <2>20 DEF CancelIgnored, Take
  <2>21. CASE Cancel BY <2>21 DEF Cancel, Take, CancelCapture, MoveTo
  <2>22. CASE CancelAwaited BY <2>22 DEF CancelAwaited, CancelCapture, MoveTo
  <2>23. CASE CancelStopped BY <2>23 DEF CancelStopped, MoveTo
  <2>24. CASE CancelNotified BY <2>24 DEF CancelNotified, MoveTo
  <2>25. CASE ConsumerStops BY <2>25 DEF ConsumerStops, ConsumerEnds
  <2>26. ASSUME NEW s \in Sids, StreamDone(s) \/ StreamFails(s) \/ StreamCancelled(s)
         PROVE DeliveryInv'
    <3>1. CASE StreamDone(s) BY <3>1 DEF StreamDone
    <3>2. CASE StreamFails(s) BY <3>2 DEF StreamFails
    <3>3. CASE StreamCancelled(s) BY <3>3 DEF StreamCancelled
    <3> QED BY <2>26, <3>1, <3>2, <3>3
  <2>27. ASSUME NEW s \in Sids, InjectThread(s) PROVE DeliveryInv'
    BY <2>27 DEF InjectThread
  <2>28. CASE MeterExits BY <2>28 DEF MeterExits
  <2>29. CASE ConsumerKilled BY <2>29 DEF ConsumerKilled, ConsumerEnds
  <2>30. CASE HotkeysRestart BY <2>30 DEF HotkeysRestart
  <2>31. CASE ShutdownLocks BY <2>31 DEF ShutdownLocks, ShutdownCapture
  <2>32. CASE ShutdownAwaited BY <2>32 DEF ShutdownAwaited, ShutdownCapture
  <2>33. CASE ShutdownStopped BY <2>33 DEF ShutdownStopped
  <2>34. CASE ShutdownHotkeys BY <2>34 DEF ShutdownHotkeys, BeginStop
  <2>35. CASE ShutdownIndicator BY <2>35 DEF ShutdownIndicator
  <2>36. ASSUME NEW e \in Events, Emit(e) PROVE DeliveryInv'
    BY <2>36 DEF Emit
  <2>37. ASSUME NEW p \in Patches, Patch(p) PROVE DeliveryInv'
    BY <2>37 DEF Patch
  <2>38. CASE RequestShutdown BY <2>38 DEF RequestShutdown
  <2>40. CASE ProcessEnds BY <2>40 DEF ProcessEnds
  <2>39. CASE UNCHANGED vars BY <2>39
  <2> QED
    BY <2>1, <2>2, <2>3, <2>4, <2>5, <2>6, <2>7, <2>8, <2>9, <2>10, <2>11,
       <2>12, <2>13, <2>14, <2>15, <2>16, <2>17, <2>18, <2>19, <2>20, <2>21,
       <2>22, <2>23, <2>24, <2>25, <2>26, <2>27, <2>28, <2>29, <2>30, <2>31,
       <2>32, <2>33, <2>34, <2>35, <2>36, <2>37, <2>38, <2>39, <2>40
    DEF Next, Handler, Background, Shutdown, Environment, Terminated
<1> QED BY <1>1, <1>2, DataTyped, MicrophoneInv, PTL DEF Spec

\* Every dictation is recorded once at most and in the order of activation.
THEOREM HistoryAlwaysInOrder == Spec => []HistoryInOrder
<1>1. DeliveryInv => HistoryInOrder
  BY DEF DeliveryInv
<1> QED BY <1>1, DeliveryInvariant, PTL

\* No text is handed to the injector before it is in the history.
THEOREM AlwaysRecordedBeforePasted == Spec => []RecordedBeforePasted
<1>1. DeliveryInv => RecordedBeforePasted
  BY DEF DeliveryInv
<1> QED BY <1>1, DeliveryInvariant, PTL

\* Nothing of a cancelled or too short dictation is ever recorded or typed.
THEOREM CancelledNeverReachesUser == Spec => []CancelledNeverDelivered
<1>1. DeliveryInv /\ DataInv => CancelledNeverDelivered
  <2> SUFFICES ASSUME DeliveryInv, DataInv, NEW s \in discarded
               PROVE  thr[s] = "none" /\ \A i \in DOMAIN history : history[i] # s
    BY DEF CancelledNeverDelivered
  <2>1. \A i \in DOMAIN history : history[i] # s
    BY DEF DeliveryInv
  <2>2. thr[s] = "none"
    BY <2>1 DEF DeliveryInv, RecordedBeforePasted, DataInv, DataType
  <2> QED BY <2>1, <2>2
<1> QED BY <1>1, DeliveryInvariant, DataTyped, PTL

\* Each step of the daemon maps to a step of the delivery contract or leaves its
\* variables alone: the daemon implements the contract under every fault.
THEOREM ImplementsContract == Spec => ContractSpec
<1>1. Init => Contract!Init
  BY DEF Init, Contract!Init
<1>2. DataInv /\ MicInv /\ DeliveryInv /\ [Next]_vars
        => [Contract!Next]_(Contract!cvars)
  <2> SUFFICES ASSUME DataInv, MicInv, DeliveryInv, [Next]_vars
               PROVE  Contract!Next \/ UNCHANGED Contract!cvars
    OBVIOUS
  <2> DEFINE Quiet == UNCHANGED <<mic, history, discarded, thr>>
  <2> DEFINE Typed == {s \in Sids : thr[s] = "pasted"}
  <2> USE Bounds DEF DataInv, DataType, MicInv, MicrophoneOwned
  <2>1. ASSUME Quiet PROVE UNCHANGED Contract!cvars
    BY <2>1 DEF Contract!cvars
  <2>2. ASSUME NEW s \in Sids, s \notin discarded, mic = {}, Unrecorded, s = sid,
               mic' = {s}, UNCHANGED <<history, discarded, thr>>
        PROVE  Contract!Next
    <3>1. Contract!Newest(s) BY <2>2 DEF Contract!Newest, Unrecorded
    <3>2. Contract!Open(s) BY <2>2, <3>1 DEF Contract!Open
    <3> QED BY <3>2 DEF Contract!Next
  <2>3. ASSUME mic # {}, mic' = {}, NEW D \in SUBSET mic, discarded' = discarded \cup D,
               UNCHANGED <<history, thr>>
        PROVE  Contract!Next
    <3>1. Contract!Close(D) BY <2>3 DEF Contract!Close
    <3> QED BY <3>1 DEF Contract!Next
  <2>4. ASSUME NEW s \in Sids, Unrecorded, s = sid, discarded' = discarded \cup {s},
               UNCHANGED <<mic, history, thr>>
        PROVE  Contract!Next
    <3>1. ~Contract!Kept(s) BY <2>4 DEF Contract!Kept, Unrecorded
    <3>2. Contract!Drop(s) BY <2>4, <3>1 DEF Contract!Drop
    <3> QED BY <3>2 DEF Contract!Next
  <2>5. ASSUME NEW s \in Sids, s \notin discarded, mic = {}, Unrecorded, s = sid,
               history' = Append(history, s), UNCHANGED <<mic, discarded, thr>>
        PROVE  Contract!Next
    <3>1. Contract!Newest(s) BY <2>5 DEF Contract!Newest, Unrecorded
    <3>2. Contract!Keep(s) BY <2>5, <3>1 DEF Contract!Keep
    <3> QED BY <3>2 DEF Contract!Next
  <2>6. CASE CaptureStarts
    <3>1. sid \in Sids /\ sid \notin discarded /\ mic = {} /\ Unrecorded
      BY <2>6 DEF CaptureStarts, DeliveryInv, Capture, Numbered
    <3>2. mic' = {sid} /\ UNCHANGED <<history, discarded, thr>>
      BY <2>6, <3>1 DEF CaptureStarts
    <3> QED BY <2>2, <3>1, <3>2
  <2>7. CASE Deactivate
    <3>1. CASE session = "recording"
      <4>1. mic # {} /\ mic' = {} /\ discarded' = discarded \cup {}
            /\ UNCHANGED <<history, thr>>
        BY <2>7, <3>1 DEF Deactivate
      <4> QED BY <2>3, <4>1
    <3>2. CASE session # "recording" BY <2>7, <3>2, <2>1 DEF Deactivate
    <3> QED BY <3>1, <3>2
  <2>8. CASE TooShort
    <3>1. sid \in Sids /\ Unrecorded
      BY <2>8 DEF TooShort, DeliveryInv, Capture, Numbered
    <3> QED BY <2>4, <2>8, <3>1 DEF TooShort
  <2>9. CASE Cancel
    <3>1. sid \in Sids /\ Unrecorded
      BY <2>9 DEF Cancel, DeliveryInv, Numbered
    <3>2. CASE UNCHANGED mic
      BY <2>4, <2>9, <3>1, <3>2 DEF Cancel
    <3>3. CASE mic' # mic
      <4>1. mic # {} /\ mic' = {} /\ {sid} \in SUBSET mic
            /\ discarded' = discarded \cup {sid} /\ UNCHANGED <<history, thr>>
        BY <2>9, <3>3 DEF Cancel, CancelCapture
      <4> QED BY <2>3, <4>1
    <3> QED BY <3>2, <3>3
  <2>10. CASE BatchDone
    <3>1. CASE history' = history BY <2>1, <2>10, <3>1 DEF BatchDone
    <3>2. CASE history' # history
      <4>1. sid \in Sids /\ sid \notin discarded /\ mic = {} /\ Unrecorded
        BY <2>10 DEF BatchDone, DeliveryInv, Outcome, Numbered
      <4>2. history' = Append(history, sid) BY <2>10, <3>2 DEF BatchDone, Finish
      <4> QED BY <2>5, <2>10, <4>1, <4>2 DEF BatchDone
    <3> QED BY <3>1, <3>2
  <2>11. CASE StreamAwaited
    <3>1. CASE history' = history BY <2>1, <2>11, <3>1 DEF StreamAwaited
    <3>2. CASE history' # history
      <4>1. sid \in Sids /\ sid \notin discarded /\ mic = {} /\ Unrecorded /\ task = sid
        BY <2>11 DEF StreamAwaited, DeliveryInv, Outcome, Numbered
      <4>2. history' = Append(history, sid)
        BY <2>11, <3>2, <4>1 DEF StreamAwaited, Finish
      <4> QED BY <2>5, <2>11, <4>1, <4>2 DEF StreamAwaited
    <3> QED BY <3>1, <3>2
  <2>12. CASE InjectStarts
    <3>1. thr[src] = "none" BY <2>12 DEF InjectStarts, DeliveryInv
    <3>2. Typed' = Typed BY <2>12, <3>1 DEF InjectStarts
    <3> QED BY <2>12, <3>2 DEF InjectStarts, Contract!cvars
  <2>13. ASSUME NEW s \in Sids, InjectThread(s)
         PROVE  Contract!Next \/ UNCHANGED Contract!cvars
    <3>1. thr[s] = "live" /\ UNCHANGED <<mic, history, discarded>>
      BY <2>13 DEF InjectThread
    <3>2. CASE thr' = [thr EXCEPT ![s] = "pasted"]
      <4>1. Contract!Kept(s)
        BY <3>1 DEF Contract!Kept, DeliveryInv, RecordedBeforePasted
      <4>2. s \notin Typed /\ Typed' = Typed \cup {s} BY <3>1, <3>2
      <4>3. Contract!Type(s) BY <3>1, <4>1, <4>2 DEF Contract!Type
      <4> QED BY <4>3 DEF Contract!Next
    <3>3. CASE thr' = [thr EXCEPT ![s] = "failed"]
      <4>1. Typed' = Typed BY <3>1, <3>3
      <4> QED BY <3>1, <4>1 DEF Contract!cvars
    <3> QED BY <2>13, <3>2, <3>3 DEF InjectThread
  <2>14. CASE CancelAwaited
    <3>1. CASE session = "recording"
      <4>1. mic # {} /\ mic' = {} /\ discarded' = discarded \cup {}
            /\ UNCHANGED <<history, thr>>
        BY <2>14, <3>1 DEF CancelAwaited, CancelCapture
      <4> QED BY <2>3, <4>1
    <3>2. CASE session # "recording"
      BY <2>14, <3>2, <2>1 DEF CancelAwaited, CancelCapture
    <3> QED BY <3>1, <3>2
  <2>15. CASE ShutdownLocks \/ ShutdownAwaited
    <3>1. CASE UNCHANGED mic BY <2>1, <2>15, <3>1 DEF ShutdownLocks, ShutdownAwaited
    <3>2. CASE mic' # mic
      <4>1. mic # {} /\ mic' = {} /\ discarded' = discarded \cup {}
            /\ UNCHANGED <<history, thr>>
        BY <2>15, <3>2 DEF ShutdownLocks, ShutdownAwaited, ShutdownCapture
      <4> QED BY <2>3, <4>1
    <3> QED BY <3>1, <3>2
  <2>16. CASE \/ ActivateIgnored \/ Activate \/ CaptureFails \/ DeactivateIgnored
              \/ PumpFailed \/ ShortAwaited \/ LongEnough \/ Transcribe \/ BatchFails
              \/ TranscriptNotified \/ InjectEnds \/ ErrorNotified \/ IdleNotified
              \/ CancelIgnored \/ CancelStopped \/ CancelNotified \/ ConsumerStops
    BY <2>1, <2>16 DEF ActivateIgnored, Activate, CaptureFails, DeactivateIgnored,
       PumpFailed, ShortAwaited, LongEnough, Transcribe, BatchFails,
       TranscriptNotified, InjectEnds, ErrorNotified, IdleNotified, CancelIgnored,
       CancelStopped, CancelNotified, ConsumerStops
  <2>17. ASSUME NEW s \in Sids, StreamDone(s) \/ StreamFails(s) \/ StreamCancelled(s)
         PROVE  UNCHANGED Contract!cvars
    BY <2>1, <2>17 DEF StreamDone, StreamFails, StreamCancelled
  <2>18. CASE \/ MeterExits \/ ConsumerKilled \/ HotkeysRestart \/ ShutdownStopped
              \/ ShutdownHotkeys \/ ShutdownIndicator \/ RequestShutdown \/ ProcessEnds
              \/ UNCHANGED vars
    BY <2>1, <2>18 DEF MeterExits, ConsumerKilled, HotkeysRestart, ShutdownStopped,
       ShutdownHotkeys, ShutdownIndicator, RequestShutdown, ProcessEnds
  <2>19. ASSUME NEW e \in Events, Emit(e) PROVE UNCHANGED Contract!cvars
    BY <2>1, <2>19 DEF Emit
  <2>20. ASSUME NEW p \in Patches, Patch(p) PROVE UNCHANGED Contract!cvars
    BY <2>1, <2>20 DEF Patch
  <2> QED
    BY <2>6, <2>7, <2>8, <2>9, <2>10, <2>11, <2>12, <2>13, <2>14, <2>15, <2>16,
       <2>17, <2>18, <2>19, <2>20
    DEF Next, Handler, Background, Shutdown, Environment, Terminated
<1> QED
  BY <1>1, <1>2, DataTyped, MicrophoneInv, DeliveryInvariant, PTL
  DEF Spec, ContractSpec, Contract!Spec
=============================================================================
