---------------------------- MODULE HotkeysProofs ----------------------------
(***************************************************************************)
(* Theorems on Hotkeys, for every set of keys, hotkey, cancel binding, set *)
(* of modes and number of timer threads.                                   *)
(***************************************************************************)
EXTENDS Hotkeys, TLAPS

USE DEF vars, keyVars, sessionVars, timerVars, placeVars

\* The mode is fixed, and the listener's steps lead only to its steps.
THEOREM KeysTyped == Spec => []KeyType
<1> USE DEF KeyType, Places
<1>1. Init => KeyType
  BY DEF Init
<1>2. KeyType /\ [Next]_vars => KeyType'
  <2> SUFFICES ASSUME KeyType, [Next]_vars PROVE KeyType'
    OBVIOUS
  <2>1. ASSUME NEW k \in Keys, CancelPressed(k) PROVE KeyType'
    BY <2>1 DEF CancelPressed, Posted
  <2>2. ASSUME NEW k \in Keys, Press(k) PROVE KeyType'
    BY <2>2 DEF Press, Matches
  <2>3. ASSUME NEW k \in Keys, Release(k) PROVE KeyType'
    BY <2>3 DEF Release, Matches
  <2>4. CASE CompleteActive
    BY <2>4 DEF CompleteActive, CallCancel
  <2>5. CASE CompleteFirst
    BY <2>5 DEF CompleteFirst, StartPtt
  <2>6. CASE CompleteSecond
    BY <2>6 DEF CompleteSecond
  <2>7. CASE DoublePress
    BY <2>7 DEF DoublePress, CallCancel
  <2>8. CASE ToggleStarts
    BY <2>8 DEF ToggleStarts, StartToggle
  <2>9. CASE EndSession
    BY <2>9 DEF EndSession
  <2>10. CASE CancelTests
    BY <2>10 DEF CancelTests
  <2>11. CASE CancelRef
    BY <2>11 DEF CancelRef
  <2>12. CASE Disarm
    BY <2>12 DEF Disarm
  <2>13. CASE SchedulePtt
    BY <2>13 DEF SchedulePtt, CallCancel
  <2>14. CASE CreateTimer
    BY <2>14 DEF CreateTimer
  <2>15. CASE ArmTimer
    BY <2>15 DEF ArmTimer
  <2>16. CASE StartTimer
    BY <2>16 DEF StartTimer
  <2>17. CASE PostActivate
    BY <2>17 DEF PostActivate, Posted
  <2>18. CASE PostDeactivate
    BY <2>18 DEF PostDeactivate, Posted
  <2>19. CASE ReleaseDisarms
    BY <2>19 DEF ReleaseDisarms, CallCancel, Matches
  <2>20. CASE ReleasedBinding
    BY <2>20 DEF ReleasedBinding, CallCancel
  <2>21. ASSUME NEW t \in Timers, TimerFires(t) PROVE KeyType'
    BY <2>21 DEF TimerFires, TimerStep
  <2>22. ASSUME NEW t \in Timers, TimerClearsRef(t) PROVE KeyType'
    BY <2>22 DEF TimerClearsRef, TimerStep
  <2>23. ASSUME NEW t \in Timers, TimerClearsFlag(t) PROVE KeyType'
    BY <2>23 DEF TimerClearsFlag, TimerStep
  <2>24. ASSUME NEW t \in Timers, TimerReadsActive(t) PROVE KeyType'
    BY <2>24 DEF TimerReadsActive, TimerStep
  <2>25. ASSUME NEW t \in Timers, TimerReadsKeys(t) PROVE KeyType'
    BY <2>25 DEF TimerReadsKeys, TimerStep
  <2>26. ASSUME NEW t \in Timers, TimerActivates(t) PROVE KeyType'
    BY <2>26 DEF TimerActivates, TimerStep, StartPtt
  <2>27. ASSUME NEW t \in Timers, TimerPosts(t) PROVE KeyType'
    BY <2>27 DEF TimerPosts, TimerStep, Posted
  <2>28. CASE WindowCloses
    BY <2>28 DEF WindowCloses
  <2>29. CASE UNCHANGED vars
    BY <2>29
  <2> QED BY <2>1, <2>2, <2>3, <2>4, <2>5, <2>6, <2>7, <2>8, <2>9, <2>10, <2>11, <2>12,
           <2>13, <2>14, <2>15, <2>16, <2>17, <2>18, <2>19, <2>20, <2>21, <2>22, <2>23,
           <2>24, <2>25, <2>26, <2>27, <2>28, <2>29
    DEF Next, Listener, ListenerDead, TimerThread
<1> QED BY <1>1, <1>2, PTL DEF Spec

\* Every flag is a Boolean.
THEOREM FlagsTyped == Spec => []FlagType
<1> USE DEF FlagType
<1>1. Init => FlagType
  BY DEF Init
<1>2. FlagType /\ [Next]_vars => FlagType'
  <2> SUFFICES ASSUME FlagType, [Next]_vars PROVE FlagType'
    OBVIOUS
  <2>1. ASSUME NEW k \in Keys, CancelPressed(k) PROVE FlagType'
    BY <2>1 DEF CancelPressed, Posted
  <2>2. ASSUME NEW k \in Keys, Press(k) PROVE FlagType'
    BY <2>2 DEF Press, Matches
  <2>3. ASSUME NEW k \in Keys, Release(k) PROVE FlagType'
    BY <2>3 DEF Release, Matches
  <2>4. CASE CompleteActive
    BY <2>4 DEF CompleteActive, CallCancel
  <2>5. CASE CompleteFirst
    BY <2>5 DEF CompleteFirst, StartPtt
  <2>6. CASE CompleteSecond
    BY <2>6 DEF CompleteSecond
  <2>7. CASE DoublePress
    BY <2>7 DEF DoublePress, CallCancel
  <2>8. CASE ToggleStarts
    BY <2>8 DEF ToggleStarts, StartToggle
  <2>9. CASE EndSession
    BY <2>9 DEF EndSession
  <2>10. CASE CancelTests
    BY <2>10 DEF CancelTests
  <2>11. CASE CancelRef
    BY <2>11 DEF CancelRef
  <2>12. CASE Disarm
    BY <2>12 DEF Disarm
  <2>13. CASE SchedulePtt
    BY <2>13 DEF SchedulePtt, CallCancel
  <2>14. CASE CreateTimer
    BY <2>14 DEF CreateTimer
  <2>15. CASE ArmTimer
    BY <2>15 DEF ArmTimer
  <2>16. CASE StartTimer
    BY <2>16 DEF StartTimer
  <2>17. CASE PostActivate
    BY <2>17 DEF PostActivate, Posted
  <2>18. CASE PostDeactivate
    BY <2>18 DEF PostDeactivate, Posted
  <2>19. CASE ReleaseDisarms
    BY <2>19 DEF ReleaseDisarms, CallCancel, Matches
  <2>20. CASE ReleasedBinding
    BY <2>20 DEF ReleasedBinding, CallCancel
  <2>21. ASSUME NEW t \in Timers, TimerFires(t) PROVE FlagType'
    BY <2>21 DEF TimerFires, TimerStep
  <2>22. ASSUME NEW t \in Timers, TimerClearsRef(t) PROVE FlagType'
    BY <2>22 DEF TimerClearsRef, TimerStep
  <2>23. ASSUME NEW t \in Timers, TimerClearsFlag(t) PROVE FlagType'
    BY <2>23 DEF TimerClearsFlag, TimerStep
  <2>24. ASSUME NEW t \in Timers, TimerReadsActive(t) PROVE FlagType'
    BY <2>24 DEF TimerReadsActive, TimerStep
  <2>25. ASSUME NEW t \in Timers, TimerReadsKeys(t) PROVE FlagType'
    BY <2>25 DEF TimerReadsKeys, TimerStep
  <2>26. ASSUME NEW t \in Timers, TimerActivates(t) PROVE FlagType'
    BY <2>26 DEF TimerActivates, TimerStep, StartPtt
  <2>27. ASSUME NEW t \in Timers, TimerPosts(t) PROVE FlagType'
    BY <2>27 DEF TimerPosts, TimerStep, Posted
  <2>28. CASE WindowCloses
    BY <2>28 DEF WindowCloses
  <2>29. CASE UNCHANGED vars
    BY <2>29
  <2> QED BY <2>1, <2>2, <2>3, <2>4, <2>5, <2>6, <2>7, <2>8, <2>9, <2>10, <2>11, <2>12,
           <2>13, <2>14, <2>15, <2>16, <2>17, <2>18, <2>19, <2>20, <2>21, <2>22, <2>23,
           <2>24, <2>25, <2>26, <2>27, <2>28, <2>29
    DEF Next, Listener, ListenerDead, TimerThread
<1> QED BY <1>1, <1>2, PTL DEF Spec

\* The hold timer's reference is None or a timer, every thread where it can be.
THEOREM TimersTyped == Spec => []TimerType
<1> USE DEF TimerType, Pending
<1>1. Init => TimerType
  BY DEF Init
<1>2. TimerType /\ [Next]_vars => TimerType'
  <2> SUFFICES ASSUME TimerType, [Next]_vars PROVE TimerType'
    OBVIOUS
  <2>1. ASSUME NEW k \in Keys, CancelPressed(k) PROVE TimerType'
    BY <2>1 DEF CancelPressed, Posted
  <2>2. ASSUME NEW k \in Keys, Press(k) PROVE TimerType'
    BY <2>2 DEF Press, Matches
  <2>3. ASSUME NEW k \in Keys, Release(k) PROVE TimerType'
    BY <2>3 DEF Release, Matches
  <2>4. CASE CompleteActive
    BY <2>4 DEF CompleteActive, CallCancel
  <2>5. CASE CompleteFirst
    BY <2>5 DEF CompleteFirst, StartPtt
  <2>6. CASE CompleteSecond
    BY <2>6 DEF CompleteSecond
  <2>7. CASE DoublePress
    BY <2>7 DEF DoublePress, CallCancel
  <2>8. CASE ToggleStarts
    BY <2>8 DEF ToggleStarts, StartToggle
  <2>9. CASE EndSession
    BY <2>9 DEF EndSession
  <2>10. CASE CancelTests
    BY <2>10 DEF CancelTests
  <2>11. CASE CancelRef
    BY <2>11 DEF CancelRef
  <2>12. CASE Disarm
    BY <2>12 DEF Disarm
  <2>13. CASE SchedulePtt
    BY <2>13 DEF SchedulePtt, CallCancel
  <2>14. CASE CreateTimer
    BY <2>14 DEF CreateTimer
  <2>15. CASE ArmTimer
    BY <2>15 DEF ArmTimer
  <2>16. CASE StartTimer
    BY <2>16 DEF StartTimer
  <2>17. CASE PostActivate
    BY <2>17 DEF PostActivate, Posted
  <2>18. CASE PostDeactivate
    BY <2>18 DEF PostDeactivate, Posted
  <2>19. CASE ReleaseDisarms
    BY <2>19 DEF ReleaseDisarms, CallCancel, Matches
  <2>20. CASE ReleasedBinding
    BY <2>20 DEF ReleasedBinding, CallCancel
  <2>21. ASSUME NEW t \in Timers, TimerFires(t) PROVE TimerType'
    BY <2>21 DEF TimerFires, TimerStep
  <2>22. ASSUME NEW t \in Timers, TimerClearsRef(t) PROVE TimerType'
    BY <2>22 DEF TimerClearsRef, TimerStep
  <2>23. ASSUME NEW t \in Timers, TimerClearsFlag(t) PROVE TimerType'
    BY <2>23 DEF TimerClearsFlag, TimerStep
  <2>24. ASSUME NEW t \in Timers, TimerReadsActive(t) PROVE TimerType'
    BY <2>24 DEF TimerReadsActive, TimerStep
  <2>25. ASSUME NEW t \in Timers, TimerReadsKeys(t) PROVE TimerType'
    BY <2>25 DEF TimerReadsKeys, TimerStep
  <2>26. ASSUME NEW t \in Timers, TimerActivates(t) PROVE TimerType'
    BY <2>26 DEF TimerActivates, TimerStep, StartPtt
  <2>27. ASSUME NEW t \in Timers, TimerPosts(t) PROVE TimerType'
    BY <2>27 DEF TimerPosts, TimerStep, Posted
  <2>28. CASE WindowCloses
    BY <2>28 DEF WindowCloses
  <2>29. CASE UNCHANGED vars
    BY <2>29
  <2> QED BY <2>1, <2>2, <2>3, <2>4, <2>5, <2>6, <2>7, <2>8, <2>9, <2>10, <2>11, <2>12,
           <2>13, <2>14, <2>15, <2>16, <2>17, <2>18, <2>19, <2>20, <2>21, <2>22, <2>23,
           <2>24, <2>25, <2>26, <2>27, <2>28, <2>29
    DEF Next, Listener, ListenerDead, TimerThread
<1> QED BY <1>1, <1>2, PTL DEF Spec

\* TypeOK holds in every behaviour.
THEOREM TypeCorrect == Spec => []TypeOK
<1>1. KeyType /\ FlagType /\ TimerType => TypeOK
  BY DEF TypeOK
<1> QED BY <1>1, KeysTyped, FlagsTyped, TimersTyped, PTL

\* Strengthening of WaitingTimerKnown.  A timer that is not late is referenced
\* from its creation to its firing or cancelling, flagged from the step before
\* its start, and meanwhile no other timer's thread has fields to clear: they
\* were past it at the creation, and a later timer is created only after this
\* one was cancelled.
Fresh(t) == t \notin late /\ timer[t] \in {"created", "waiting"}
TimerInv ==
    /\ \A t \in Timers : Fresh(t) =>
          /\ ref = t
          /\ \A u \in Timers : u # t => timer[u] \notin Pending
          /\ timer[t] = "waiting" \/ lpc = "start" => armed
    /\ \A t \in Timers : timer[t] = "created" => lpc \in {"arm", "start"}
    /\ lpc \in {"disarm", "create"} => \A t \in Timers : ~Fresh(t)

\* The strengthening is inductive.
THEOREM TimerInvariant == Spec => []TimerInv
<1> USE DEF TimerInv, Fresh, TimerType, Pending
<1>1. Init => TimerInv
  BY DEF Init
<1>2. TimerInv /\ KeyType /\ FlagType /\ TimerType /\ [Next]_vars => TimerInv'
  <2> SUFFICES ASSUME TimerInv, KeyType, FlagType, TimerType, [Next]_vars PROVE TimerInv'
    OBVIOUS
  <2>1. ASSUME NEW k \in Keys, CancelPressed(k) PROVE TimerInv'
    BY <2>1, TimersAssumption DEF CancelPressed, Posted
  <2>2. ASSUME NEW k \in Keys, Press(k) PROVE TimerInv'
    BY <2>2, TimersAssumption DEF Press, Matches
  <2>3. ASSUME NEW k \in Keys, Release(k) PROVE TimerInv'
    BY <2>3, TimersAssumption DEF Release, Matches
  <2>4. CASE CompleteActive
    BY <2>4, TimersAssumption DEF CompleteActive, CallCancel
  <2>5. CASE CompleteFirst
    BY <2>5, TimersAssumption DEF CompleteFirst, StartPtt
  <2>6. CASE CompleteSecond
    BY <2>6, TimersAssumption DEF CompleteSecond
  <2>7. CASE DoublePress
    BY <2>7, TimersAssumption DEF DoublePress, CallCancel
  <2>8. CASE ToggleStarts
    BY <2>8, TimersAssumption DEF ToggleStarts, StartToggle
  <2>9. CASE EndSession
    BY <2>9, TimersAssumption DEF EndSession
  <2>10. CASE CancelTests
    BY <2>10, TimersAssumption DEF CancelTests
  <2>11. CASE CancelRef
    BY <2>11, TimersAssumption DEF CancelRef
  <2>12. CASE Disarm
    BY <2>12, TimersAssumption DEF Disarm
  <2>13. CASE SchedulePtt
    BY <2>13, TimersAssumption DEF SchedulePtt, CallCancel
  <2>14. CASE CreateTimer
    BY <2>14, TimersAssumption DEF CreateTimer
  <2>15. CASE ArmTimer
    BY <2>15, TimersAssumption DEF ArmTimer
  <2>16. CASE StartTimer
    BY <2>16, TimersAssumption DEF StartTimer
  <2>17. CASE PostActivate
    BY <2>17, TimersAssumption DEF PostActivate, Posted
  <2>18. CASE PostDeactivate
    BY <2>18, TimersAssumption DEF PostDeactivate, Posted
  <2>19. CASE ReleaseDisarms
    BY <2>19, TimersAssumption DEF ReleaseDisarms, CallCancel, Matches
  <2>20. CASE ReleasedBinding
    BY <2>20, TimersAssumption DEF ReleasedBinding, CallCancel
  <2>21. ASSUME NEW t \in Timers, TimerFires(t) PROVE TimerInv'
    BY <2>21, TimersAssumption DEF TimerFires, TimerStep
  <2>22. ASSUME NEW t \in Timers, TimerClearsRef(t) PROVE TimerInv'
    BY <2>22, TimersAssumption DEF TimerClearsRef, TimerStep
  <2>23. ASSUME NEW t \in Timers, TimerClearsFlag(t) PROVE TimerInv'
    BY <2>23, TimersAssumption DEF TimerClearsFlag, TimerStep
  <2>24. ASSUME NEW t \in Timers, TimerReadsActive(t) PROVE TimerInv'
    BY <2>24, TimersAssumption DEF TimerReadsActive, TimerStep
  <2>25. ASSUME NEW t \in Timers, TimerReadsKeys(t) PROVE TimerInv'
    BY <2>25, TimersAssumption DEF TimerReadsKeys, TimerStep
  <2>26. ASSUME NEW t \in Timers, TimerActivates(t) PROVE TimerInv'
    BY <2>26, TimersAssumption DEF TimerActivates, TimerStep, StartPtt
  <2>27. ASSUME NEW t \in Timers, TimerPosts(t) PROVE TimerInv'
    BY <2>27, TimersAssumption DEF TimerPosts, TimerStep, Posted
  <2>28. CASE WindowCloses
    BY <2>28, TimersAssumption DEF WindowCloses
  <2>29. CASE UNCHANGED vars
    BY <2>29, TimersAssumption
  <2> QED BY <2>1, <2>2, <2>3, <2>4, <2>5, <2>6, <2>7, <2>8, <2>9, <2>10, <2>11, <2>12,
           <2>13, <2>14, <2>15, <2>16, <2>17, <2>18, <2>19, <2>20, <2>21, <2>22, <2>23,
           <2>24, <2>25, <2>26, <2>27, <2>28, <2>29
    DEF Next, Listener, ListenerDead, TimerThread
<1> QED BY <1>1, <1>2, KeysTyped, FlagsTyped, TimersTyped, PTL DEF Spec

\* In every order of the listener's and the timers' steps, a waiting hold timer
\* is flagged and referenced, unless it was created before an earlier timer's
\* thread had cleared the two fields.
THEOREM WaitingTimerAlwaysKnown == Spec => []WaitingTimerKnown
<1>1. TimerInv => WaitingTimerKnown
  BY DEF TimerInv, WaitingTimerKnown, Fresh
<1> QED BY <1>1, TimerInvariant, PTL

\* Without the hold timer, which only mode both uses, the listener alone runs:
\* no timer is ever created or armed; a dictation that the controller runs
\* belongs to the session, but for the moment before DEACTIVATE is posted; the
\* binding is held when it is found complete, and throughout a push-to-talk
\* session, but for the rest of the callback of its release.
OneThread ==
    mode # "both" =>
        /\ \A t \in Timers : timer[t] = "idle"
        /\ ~armed /\ ref = NoTimer
        /\ lpc \notin {"schedule", "create", "arm", "start", "cancelRef", "dead"}
        /\ lpc \in {"cancel", "disarm"} => back \in {"end", "toggle"}
        /\ lpc \in {"double", "toggle"} => mode = "toggle"
        /\ lpc \in {"cancel", "disarm"} /\ back = "toggle" => mode = "toggle"
        /\ lpc = "complete" => Matches(pressed)
        /\ lpc = "postActivate" => active
        /\ listening => active \/ lpc = "postDeactivate"
        /\ active => ptt \/ toggle
        /\ ptt => /\ mode = "ptt"
                  /\ \/ Matches(pressed) \/ lpc \in {"tokenUp", "released", "end"}
                     \/ lpc \in {"cancel", "disarm"} /\ back = "end"

\* The strengthening is inductive.
THEOREM OneThreadInvariant == Spec => []OneThread
<1> USE DEF OneThread, TimerType, KeyType, Places
<1>1. Init => OneThread
  BY DEF Init
<1>2. OneThread /\ KeyType /\ FlagType /\ TimerType /\ [Next]_vars => OneThread'
  <2> SUFFICES ASSUME OneThread, KeyType, FlagType, TimerType, [Next]_vars PROVE OneThread'
    OBVIOUS
  <2>1. ASSUME NEW k \in Keys, CancelPressed(k) PROVE OneThread'
    BY <2>1 DEF CancelPressed, Posted, Matches
  <2>2. ASSUME NEW k \in Keys, Press(k) PROVE OneThread'
    BY <2>2 DEF Press, Matches
  <2>3. ASSUME NEW k \in Keys, Release(k) PROVE OneThread'
    BY <2>3 DEF Release, Matches
  <2>4. CASE CompleteActive
    BY <2>4 DEF CompleteActive, CallCancel
  <2>5. CASE CompleteFirst
    BY <2>5 DEF CompleteFirst, StartPtt, ToggleEnabled
  <2>6. CASE CompleteSecond
    BY <2>6 DEF CompleteSecond, ToggleEnabled
  <2>7. CASE DoublePress
    BY <2>7 DEF DoublePress, CallCancel
  <2>8. CASE ToggleStarts
    BY <2>8 DEF ToggleStarts, StartToggle
  <2>9. CASE EndSession
    BY <2>9 DEF EndSession
  <2>10. CASE CancelTests
    BY <2>10 DEF CancelTests
  <2>11. CASE CancelRef
    BY <2>11 DEF CancelRef
  <2>12. CASE Disarm
    BY <2>12 DEF Disarm
  <2>13. CASE SchedulePtt
    BY <2>13 DEF SchedulePtt, CallCancel
  <2>14. CASE CreateTimer
    BY <2>14 DEF CreateTimer
  <2>15. CASE ArmTimer
    BY <2>15 DEF ArmTimer
  <2>16. CASE StartTimer
    BY <2>16 DEF StartTimer
  <2>17. CASE PostActivate
    BY <2>17 DEF PostActivate, Posted
  <2>18. CASE PostDeactivate
    BY <2>18 DEF PostDeactivate, Posted
  <2>19. CASE ReleaseDisarms
    BY <2>19 DEF ReleaseDisarms, CallCancel, Matches
  <2>20. CASE ReleasedBinding
    BY <2>20 DEF ReleasedBinding, CallCancel, PttEnabled
  <2>21. ASSUME NEW t \in Timers, TimerFires(t) PROVE OneThread'
    BY <2>21 DEF TimerFires, TimerStep
  <2>22. ASSUME NEW t \in Timers, TimerClearsRef(t) PROVE OneThread'
    BY <2>22 DEF TimerClearsRef, TimerStep
  <2>23. ASSUME NEW t \in Timers, TimerClearsFlag(t) PROVE OneThread'
    BY <2>23 DEF TimerClearsFlag, TimerStep
  <2>24. ASSUME NEW t \in Timers, TimerReadsActive(t) PROVE OneThread'
    BY <2>24 DEF TimerReadsActive, TimerStep
  <2>25. ASSUME NEW t \in Timers, TimerReadsKeys(t) PROVE OneThread'
    BY <2>25 DEF TimerReadsKeys, TimerStep
  <2>26. ASSUME NEW t \in Timers, TimerActivates(t) PROVE OneThread'
    BY <2>26 DEF TimerActivates, TimerStep, StartPtt
  <2>27. ASSUME NEW t \in Timers, TimerPosts(t) PROVE OneThread'
    BY <2>27 DEF TimerPosts, TimerStep, Posted
  <2>28. CASE WindowCloses
    BY <2>28 DEF WindowCloses
  <2>29. CASE UNCHANGED vars
    BY <2>29
  <2> QED BY <2>1, <2>2, <2>3, <2>4, <2>5, <2>6, <2>7, <2>8, <2>9, <2>10, <2>11, <2>12,
           <2>13, <2>14, <2>15, <2>16, <2>17, <2>18, <2>19, <2>20, <2>21, <2>22, <2>23,
           <2>24, <2>25, <2>26, <2>27, <2>28, <2>29
    DEF Next, Listener, ListenerDead, TimerThread
<1> QED BY <1>1, <1>2, KeysTyped, FlagsTyped, TimersTyped, PTL DEF Spec

\* In the modes ptt and toggle the manager is in a session whenever the
\* controller dictates.
THEOREM SessionAlwaysKnown == Spec => []SessionKnown
<1>1. OneThread => SessionKnown
  BY DEF OneThread, SessionKnown, Quiet
<1> QED BY <1>1, OneThreadInvariant, PTL

\* In the modes ptt and toggle no push-to-talk dictation survives the release.
THEOREM PttAlwaysEndsWithRelease == Spec => []PttEndsWithRelease
<1>1. OneThread => PttEndsWithRelease
  BY DEF OneThread, PttEndsWithRelease, Quiet
<1> QED BY <1>1, OneThreadInvariant, PTL
=============================================================================
