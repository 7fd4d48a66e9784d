---------------------------- MODULE ClientProofs ----------------------------
(***************************************************************************)
(* The programs beside the daemon: the doctor (Doctor), the dashboard      *)
(* (Dashboard) and its settings screen (SettingsScreen); and the parts of  *)
(* the system side by side (MCParts).                                      *)
(***************************************************************************)
EXTENDS MCParts, DaemonProofs, OutputProofs, SequenceTheorems, TLAPS

-----------------------------------------------------------------------------
(***************************************************************************)
(* For every set of providers: the state of the doctor has its type, and   *)
(* a report of nothing but PASS is right.  The invariant says what each    *)
(* check that has been made, and has reported nothing but PASS, vouches    *)
(* for.                                                                    *)
(***************************************************************************)

Before == {"basics", "config", "key", "providers", "hotkeys", "inject", "vocabulary"}

\* What the checks so far vouch for.
Vouched ==
    /\ check # "basics" => world.writable
    /\ check \notin {"basics", "config"} => toml \in {"none", "valid"}
    /\ check \notin {"basics", "config", "key"} => world.keyring
    /\ check \notin {"basics", "config", "key", "providers"} => AllProviders \subseteq world.keys
    /\ check \notin Before \ {"inject", "vocabulary"} => world.windows
    /\ check \notin Before \ {"vocabulary"} => setup.inject
    /\ check \notin Before => world.terms = "some"
    /\ check \in {"live", "ended"} => world.mics # "none"

DoctorInv ==
    /\ DoctorTypeOK
    /\ stage # "before" => check \in {"ended", "crashed"}
    /\ reported \subseteq {"PASS"} /\ check # "crashed" => Vouched
    /\ DoctorIsRight

\* The state is always of its type.
LEMMA DoctorTypeStep == DoctorTypeOK /\ [DoctorNext]_doctorVars => DoctorTypeOK'
<1> SUFFICES ASSUME DoctorTypeOK, [DoctorNext]_doctorVars PROVE DoctorTypeOK'
    OBVIOUS
<1> USE DEF DoctorTypeOK, Status, factVars
<1>1. CASE UNCHANGED doctorVars
  BY <1>1 DEF doctorVars
<1>2. CASE CheckBasics
  BY <1>2 DEF CheckBasics, Reports
<1>3. CASE CheckConfig
  BY <1>3 DEF CheckConfig, Reports, Loadable, LoadedFile
<1>4. CASE CheckConfigCrashes \/ CheckKeyCrashes
  BY <1>4 DEF CheckConfigCrashes, CheckKeyCrashes, Crashes
<1>5. CASE CheckKey
  BY <1>5 DEF CheckKey, Reports
<1>6. CASE CheckProviders
  BY <1>6 DEF CheckProviders, Reports
<1>7. CASE CheckHotkeys
  BY <1>7 DEF CheckHotkeys, Reports
<1>8. CASE CheckInject
  BY <1>8 DEF CheckInject, Reports
<1>9. CASE CheckVocabulary
  BY <1>9 DEF CheckVocabulary, Reports
<1>10. CASE CheckRest
  BY <1>10 DEF CheckRest, Reports
<1>11. CASE CheckDaemon
  BY <1>11 DEF CheckDaemon, Reports
<1>12. CASE CheckAudio
  BY <1>12 DEF CheckAudio, Reports
<1>13. CASE CheckLive
  <2>1. PICK s \in SUBSET Status : Reports("live", "ended", s)
    BY <1>13 DEF CheckLive
  <2>2. clipboard' \in {"users", "empty"} /\ toml' = toml
    BY <1>13 DEF CheckLive
  <2> QED
    BY <2>1, <2>2 DEF Reports
<1>14. CASE StartDaemon
  BY <1>14 DEF StartDaemon, LoadedFile
<1>15. CASE Dictate
  BY <1>15 DEF Dictate
<1>16. CASE StopDaemon
  BY <1>16 DEF StopDaemon
<1> QED
  BY <1>1, <1>2, <1>3, <1>4, <1>5, <1>6, <1>7, <1>8, <1>9, <1>10, <1>11, <1>12, <1>13, <1>14,
     <1>15, <1>16 DEF DoctorNext

\* With what the checks vouch for, a dictation works.
LEMMA VouchedWorks ==
  ASSUME DoctorTypeOK, Vouched, check = "ended", world.mics # "others",
         setup.preferred \in AllProviders \/ setup.fallback
  PROVE  StartWorks /\ DictationWorks
<1>1. StartWorks
  BY DEF Vouched, Before, StartWorks, Loadable
<1>2. DictationWorks
  <2> DEFINE wanted  == {setup.preferred} \cup (IF setup.fallback THEN AllProviders ELSE {})
                          \cup (IF setup.streaming THEN Streaming ELSE {})
             usable == (IF setup.streaming THEN Streaming ELSE AllProviders) \cap world.keys
  <2>1. AllProviders \subseteq world.keys /\ Streaming \subseteq AllProviders /\ Streaming # {}
    BY DoctorAssumption DEF Vouched, Before, AllProviders
  <2>2. wanted \cap usable # {}
    BY <2>1
  <2> QED
    BY <2>2 DEF Vouched, Before, DictationWorks, DoctorTypeOK, World
<1> QED
  BY <1>1, <1>2

\* A report of nothing but PASS is right: every step keeps the invariant.
LEMMA DoctorStep == DoctorInv /\ [DoctorNext]_doctorVars => DoctorInv'
<1> SUFFICES ASSUME DoctorInv, [DoctorNext]_doctorVars PROVE DoctorInv'
    OBVIOUS
<1>t. DoctorTypeOK /\ DoctorTypeOK'
  BY DoctorTypeStep DEF DoctorInv
<1> DEFINE Rest == /\ (stage # "before" => check \in {"ended", "crashed"})'
                   /\ (reported \subseteq {"PASS"} /\ check # "crashed" => Vouched)'
                   /\ DoctorIsRight'
<1> SUFFICES Rest
  BY <1>t DEF DoctorInv
\* A check that is made before any dictation.
<1>c. ASSUME NEW c \in Before \cup {"rest", "daemon", "audio", "live"}, check = c
      PROVE  stage = "before" /\ (reported \subseteq {"PASS"} => Vouched)
  BY <1>c DEF DoctorInv, Before
<1> USE DEF factVars, Before
<1>1. CASE UNCHANGED doctorVars
  BY <1>1 DEF DoctorInv, doctorVars, Vouched, DoctorIsRight
<1>2. CASE CheckBasics
  BY <1>2, <1>c DEF CheckBasics, Reports, Vouched, DoctorIsRight
<1>3. CASE CheckConfig
  BY <1>3, <1>c, <1>t DEF CheckConfig, Reports, Loadable, LoadedFile, Vouched, DoctorIsRight, DoctorTypeOK
<1>4. CASE CheckConfigCrashes \/ CheckKeyCrashes
  BY <1>4, <1>c DEF CheckConfigCrashes, CheckKeyCrashes, Crashes, DoctorIsRight
<1>5. CASE CheckKey
  BY <1>5, <1>c DEF CheckKey, KeyReadable, Reports, Vouched, DoctorIsRight
<1>6. CASE CheckProviders
  <2>1. check = "providers" /\ check' = "hotkeys" /\ stage' = stage /\ toml' = toml
        /\ setup' = setup /\ world' = world /\ reported \subseteq reported'
    BY <1>6 DEF CheckProviders, Reports
  <2>2. reported' \subseteq {"PASS"} => AllProviders \subseteq world.keys
    BY <1>6 DEF CheckProviders, Reports, HasKey
  <2> QED
    BY <2>1, <2>2, <1>c DEF Vouched, DoctorIsRight
<1>7. CASE CheckHotkeys
  BY <1>7, <1>c DEF CheckHotkeys, Reports, Vouched, DoctorIsRight
<1>8. CASE CheckInject
  BY <1>8, <1>c DEF CheckInject, Reports, Vouched, DoctorIsRight
<1>9. CASE CheckVocabulary
  BY <1>9, <1>c, <1>t DEF CheckVocabulary, Reports, Vouched, DoctorIsRight, DoctorTypeOK, World
<1>10. CASE CheckRest
  BY <1>10, <1>c DEF CheckRest, Reports, Vouched, DoctorIsRight
<1>11. CASE CheckDaemon
  BY <1>11, <1>c DEF CheckDaemon, Reports, Vouched, DoctorIsRight
<1>12. CASE CheckAudio
  BY <1>12, <1>c DEF CheckAudio, Reports, Vouched, DoctorIsRight
<1>13. CASE CheckLive
  <2>1. check = "live" /\ check' = "ended" /\ stage' = stage /\ toml' = toml
        /\ setup' = setup /\ world' = world /\ reported \subseteq reported'
    BY <1>13 DEF CheckLive, Reports
  <2> QED
    BY <2>1, <1>c DEF Vouched, DoctorIsRight
<1>14. CASE StartDaemon
  <2>1. check' = check /\ reported' = reported /\ setup' = setup /\ world' = world
        /\ check \in {"ended", "crashed"}
    BY <1>14 DEF StartDaemon, Over
  <2>2. toml \in {"none", "valid"} => toml' = toml
    BY <1>14 DEF StartDaemon, LoadedFile
  <2>3. StartWorks => stage' = "before"
    BY <1>14 DEF StartDaemon, Over
  <2> QED
    BY <2>1, <2>2, <2>3, <1>t, VouchedWorks DEF DoctorInv, Vouched, DoctorIsRight
<1>15. CASE Dictate
  <2>1. UNCHANGED <<toml, setup, world, check, reported, server>> /\ server # "none"
        /\ check \in {"ended", "crashed"}
    BY <1>15 DEF Dictate, Over
  <2>2. DictationWorks /\ server = "current" => stage' = "dictated"
    BY <1>15 DEF Dictate
  <2>3. server \in {"none", "current", "edited", "stale"}
    BY <1>t DEF DoctorTypeOK
  <2> QED
    BY <2>1, <2>2, <2>3, <1>t, VouchedWorks DEF DoctorInv, Vouched, DoctorIsRight
<1>16. CASE StopDaemon
  BY <1>16 DEF StopDaemon, Over, DoctorInv, Vouched, DoctorIsRight
<1> QED
  BY <1>1, <1>2, <1>3, <1>4, <1>5, <1>6, <1>7, <1>8, <1>9, <1>10, <1>11, <1>12, <1>13, <1>14,
     <1>15, <1>16 DEF DoctorNext

\* The report of the doctor and what it read are always of their types.
THEOREM DoctorTypeCorrect == DoctorSpec => []DoctorTypeOK
<1>1. DoctorInit => DoctorTypeOK
  BY DEF DoctorInit, DoctorTypeOK
<1> QED
  BY <1>1, DoctorTypeStep, PTL DEF DoctorSpec

\* Whatever providers there are, after a report of nothing but PASS the running daemon
\* dictates, and one that is started when it has been stopped starts and dictates
\* (cli/doctor.py against the code it speaks for), outside the four cases that
\* DoctorIsRight names.
THEOREM DoctorAlwaysRight == DoctorSpec => []DoctorIsRight
<1>1. DoctorInit => DoctorInv
  BY DEF DoctorInit, DoctorInv, DoctorTypeOK, Vouched, Before, DoctorIsRight
<1>2. DoctorInv => DoctorIsRight
  BY DEF DoctorInv
<1> QED
  BY <1>1, <1>2, DoctorStep, PTL DEF DoctorSpec

-----------------------------------------------------------------------------
(***************************************************************************)
(* For any number of refreshes, changes and restarts: what the dashboard   *)
(* shows at rest is true.  The invariant orders the answers that the       *)
(* refreshes hold by age and says what the newest of them knows.           *)
(***************************************************************************)

\* A state event is on its way; a refresh is about to ask the daemon.
StatePending == \E i \in DOMAIN events : events[i][1] = "state"
Asking == \E w \in Workers : ref[w] \in {"begin", "status"}

\* The event connection and the loop.
FeedKnown ==
    /\ loop = "mount" => \A w \in Workers : ref[w] = "rest"
    /\ loop \in {"mount", "connect", "sleep"} => stream = "none" /\ events = <<>>
    /\ stream = "joining" => events = <<>>
    /\ stream # "none" => up /\ known
    /\ ~missed => stream = "up"
    /\ stream = "up" /\ ~due =>
          \A i \in DOMAIN events : events[i][1] = "transcript" =>
             \E j \in DOMAIN events : j > i /\ events[j][1] = "state"

\* An answer is older than another or the other is older than it.
OrderKnown ==
    /\ old \subseteq Answered
    /\ \A w \in Answered : earlier[w] \subseteq Answered \ {w}
    /\ \A v, w \in Answered : v \in earlier[w] => w \notin earlier[v]

\* A refresh that has reported its status, and neither been overtaken nor seen
\* another fail since, has the daemon connected.
ConnectionKnown ==
    \A w \in Answered \ old : ref[w] # "gotStatus" => connected

\* If the daemon has been listened to all the time and nothing that would make the
\* dashboard ask is on its way, the newest answer, in the hands of a refresh that
\* has not been overtaken, says how the daemon is; without such a refresh the
\* screen shows it, or the last refresh to end had failed or been overtaken.
NewestKnown ==
    ~missed /\ ~StatePending /\ ~Asking =>
       \/ \E w \in Answered \ old :
             /\ earlier[w] = Answered \ {w}
             /\ status[w] = dstate
             /\ ref[w] = "gotHistory" /\ ~due => history[w] = hist
       \/ /\ Answered \subseteq old
          /\ Answered = {} /\ ~behind /\ ~due
                => shown = dstate /\ entries = [i \in 1..hist |-> i]

DashInv == DashTypeOK /\ FeedKnown /\ OrderKnown /\ ConnectionKnown /\ NewestKnown

DashEvents == {<<"state", s>> : s \in DStates} \cup {<<"transcript", n>> : n \in 1..MaxChanges}

-----------------------------------------------------------------------------
\* The first event, and those that are left when it has been taken.
LEMMA EventTaken ==
  ASSUME DashTypeOK, NEW e, TakesEvent(e)
  PROVE  /\ events[1][1] = e /\ Head(events) = events[1] /\ 1 \in DOMAIN events
         /\ e = "state" => Head(events)[2] \in DStates
         /\ e = "transcript" => Head(events)[2] \in 1..MaxChanges
         /\ events' \in Seq(DashEvents)
         /\ Len(events) \in Nat /\ DOMAIN events = 1..Len(events)
         /\ \A i \in DOMAIN events' : i + 1 \in DOMAIN events /\ events'[i] = events[i + 1]
         /\ \A i \in DOMAIN events : i > 1 => i - 1 \in DOMAIN events'
<1>1. events \in Seq(DashEvents) /\ events # <<>>
  BY DEF DashTypeOK, DashEvents, TakesEvent
<1>2. Head(events) \in DashEvents /\ Head(events) = events[1]
  BY <1>1
<1>3. /\ e = "state" => Head(events)[2] \in DStates
      /\ e = "transcript" => Head(events)[2] \in 1..MaxChanges
  BY <1>2 DEF DashEvents, TakesEvent
<1>4. /\ events' \in Seq(DashEvents) /\ Len(events') = Len(events) - 1
      /\ \A i \in 1..Len(events') : events'[i] = events[i + 1]
  BY <1>1, HeadTailProperties DEF TakesEvent
<1>5. Len(events) \in Nat \ {0} /\ DOMAIN events = 1..Len(events) /\ DOMAIN events' = 1..(Len(events) - 1)
  BY <1>1, <1>4
<1> QED
  BY <1>2, <1>3, <1>4, <1>5 DEF TakesEvent

\* The daemon tells of a change.
LEMMA Told ==
  ASSUME DashTypeOK, NEW e \in DashEvents, Tells(e)
  PROVE  /\ events' \in Seq(DashEvents) /\ missed' \in BOOLEAN
         /\ stream = "up" => /\ Len(events) \in Nat /\ DOMAIN events = 1..Len(events)
                             /\ DOMAIN events' = 1..(Len(events) + 1)
                             /\ events'[Len(events) + 1] = e
                             /\ \A i \in DOMAIN events : events'[i] = events[i]
<1>1. events \in Seq(DashEvents)
  BY DEF DashTypeOK, DashEvents
<1> QED
  BY <1>1 DEF Tells, DashTypeOK

\* What is loaded is a list.
LEMMA CountingIsASeq ==
  ASSUME NEW n \in Nat, NEW S, \A i \in 1..n : i \in S
  PROVE  [i \in 1..n |-> i] \in Seq(S)
OBVIOUS

\* The variables keep their types.
LEMMA DashTypeStep == DashTypeOK /\ [DashNext]_dashVars => DashTypeOK'
<1> SUFFICES ASSUME DashTypeOK, [DashNext]_dashVars PROVE DashTypeOK'
  OBVIOUS
<1>e. ASSUME NEW s \in Seq(DashEvents) PROVE s \in Seq({<<"state", t>> : t \in DStates}
                      \cup {<<"transcript", n>> : n \in 1..MaxChanges})
  BY <1>e DEF DashEvents
<1>s. ASSUME NEW s \in DStates \cup {"none"}, Shell(s), connected' \in BOOLEAN
      PROVE  shown' \in DStates \cup {"none", "offline"}
  BY <1>s DEF Shell
<1>r. ASSUME Refreshes
      PROVE  /\ ref' \in [Workers -> RefreshPlaces]
             /\ UNCHANGED <<status, history, earlier, old, behind>>
  BY <1>r DEF Refreshes, ghostVars, DashTypeOK, RefreshPlaces
<1>w. ASSUME NEW w \in Workers, Fails(w)
      PROVE  /\ ref' \in [Workers -> RefreshPlaces]
             /\ earlier' \in [Workers -> SUBSET Workers] /\ old' \subseteq Workers
             /\ behind' \in BOOLEAN /\ UNCHANGED <<status, history>>
  BY <1>w DEF Fails, Forgotten, Answered, DashTypeOK, RefreshPlaces
<1> USE DEF daemonVars, feedVars, screenVars, ghostVars, refVars
<1>1. CASE UNCHANGED dashVars
  BY <1>1 DEF dashVars, DashTypeOK
<1>2. ASSUME NEW s \in DStates, StateChanges(s) PROVE DashTypeOK'
  <2>1. events' \in Seq(DashEvents) /\ missed' \in BOOLEAN
    BY <1>2, Told DEF StateChanges, DashEvents
  <2>2. changes' \in 0..MaxChanges /\ dstate' \in DStates
    BY <1>2, DashboardAssumption DEF StateChanges, DashTypeOK
  <2> QED BY <1>2, <1>e, <2>1, <2>2 DEF StateChanges, DashTypeOK
<1>2s. ASSUME NEW s \in DStates, StateSlips(s) PROVE DashTypeOK'
  <2>1. changes' \in 0..MaxChanges /\ dstate' \in DStates
    BY <1>2s, DashboardAssumption DEF StateSlips, DashTypeOK
  <2> QED BY <1>2s, <2>1 DEF StateSlips, DashTypeOK
<1>3. CASE Transcribes
  <2>1. hist + 1 \in 1..MaxChanges /\ hist' \in 0..MaxChanges
    BY <1>3, DashboardAssumption DEF Transcribes, DashTypeOK
  <2>2. events' \in Seq(DashEvents) /\ missed' \in BOOLEAN
    BY <1>3, <2>1, Told DEF Transcribes, DashEvents
  <2> QED BY <1>3, <1>e, <2>1, <2>2 DEF Transcribes, DashTypeOK
<1>4. CASE GoesDown
  <2>1. downs' \in 0..MaxRestarts
    BY <1>4, DashboardAssumption DEF GoesDown, DashTypeOK
  <2> QED BY <1>4, <2>1 DEF GoesDown, DashTypeOK
<1>5. CASE ComesUp
  <2>1. 0 \in 0..MaxChanges /\ "idle" \in DStates
    BY DashboardAssumption DEF DStates
  <2> QED BY <1>5, <2>1 DEF ComesUp, DashTypeOK
<1>6. CASE Mount
  BY <1>6, <1>r DEF Mount, DashTypeOK
<1>7. CASE LoopConnects
  BY <1>7 DEF LoopConnects, DashTypeOK
<1>8. CASE Joins \/ LoopEnds \/ LoopWakes
  BY <1>8 DEF Joins, LoopEnds, LoopWakes, DashTypeOK
<1>9. CASE OnState
  <2>1. Head(events)[2] \in DStates /\ events' \in Seq(DashEvents)
    BY <1>9, EventTaken DEF OnState
  <2>2. shown' \in DStates \cup {"none", "offline"}
    BY <1>9, <1>s, <2>1 DEF OnState, DashTypeOK
  <2> QED BY <1>9, <1>e, <1>r, <2>1, <2>2 DEF OnState, DashTypeOK
<1>10. CASE OnTranscript
  <2>1. Head(events)[2] \in 1..MaxChanges /\ events' \in Seq(DashEvents)
    BY <1>10, EventTaken DEF OnTranscript
  <2>2. shown' \in DStates \cup {"none", "offline"}
    BY <1>10, <1>s DEF OnTranscript, DashTypeOK
  <2>3. entries' \in Seq(1..MaxChanges)
    BY <1>10, <2>1 DEF OnTranscript, DashTypeOK
  <2> QED BY <1>10, <1>e, <2>1, <2>2, <2>3 DEF OnTranscript, DashTypeOK
<1>11. ASSUME NEW w \in Workers, RefreshOffline(w) \/ RefreshFails(w) \/ RefreshClosed(w)
       PROVE  DashTypeOK'
  <2>1. shown' \in DStates \cup {"none", "offline"} /\ connected' \in BOOLEAN
    BY <1>11, <1>s DEF RefreshOffline, RefreshFails, RefreshClosed, DashTypeOK
  <2>2. Fails(w)
    BY <1>11 DEF RefreshOffline, RefreshFails, RefreshClosed
  <2>3. UNCHANGED <<daemonVars, feedVars, last, entries, missed>>
    BY <1>11 DEF RefreshOffline, RefreshFails, RefreshClosed
  <2> QED BY <1>w, <2>1, <2>2, <2>3 DEF DashTypeOK
<1>11b. ASSUME NEW w \in Workers, RefreshBegins(w) PROVE DashTypeOK'
  BY <1>11b DEF RefreshBegins, DashTypeOK, RefreshPlaces
<1>12. ASSUME NEW w \in Workers, AnswersStatus(w) \/ AnswersHistory(w) PROVE DashTypeOK'
  <2>1. Answered \subseteq Workers /\ missed \in BOOLEAN /\ earlier \in [Workers -> SUBSET Workers]
    BY DEF Answered, DashTypeOK
  <2>2. missed' \in BOOLEAN
    BY <1>12, <2>1 DEF AnswersStatus, AnswersHistory
  <2>3. earlier' \in [Workers -> SUBSET Workers]
    BY <1>12, <2>1 DEF AnswersStatus, AnswersHistory
  <2>4. /\ ref' \in [Workers -> RefreshPlaces]
        /\ status' \in [Workers -> DStates] /\ history' \in [Workers -> 0..MaxChanges]
        /\ UNCHANGED <<daemonVars, feedVars, screenVars, old, behind>>
    BY <1>12 DEF AnswersStatus, AnswersHistory, DashTypeOK, RefreshPlaces
  <2> QED BY <2>2, <2>3, <2>4 DEF DashTypeOK
<1>13. ASSUME NEW w \in Workers, GotStatus(w) PROVE DashTypeOK'
  <2>1. status[w] \in DStates /\ shown' \in DStates \cup {"none", "offline"}
    BY <1>13, <1>s DEF GotStatus, DashTypeOK
  <2>2. old' \subseteq Workers
    BY <1>13 DEF GotStatus, DashTypeOK
  <2>3. ref' \in [Workers -> RefreshPlaces]
    BY <1>13 DEF GotStatus, DashTypeOK, RefreshPlaces
  <2> QED BY <1>13, <2>1, <2>2, <2>3 DEF GotStatus, DashTypeOK
<1>14. ASSUME NEW w \in Workers, GotHistory(w) PROVE DashTypeOK'
  <2>1. status[w] \in DStates /\ shown' \in DStates \cup {"none", "offline"}
    BY <1>14, <1>s DEF GotHistory, DashTypeOK
  <2>2. entries' \in Seq(1..MaxChanges)
    <3>1. history[w] \in Nat /\ \A i \in 1..history[w] : i \in 1..MaxChanges
      BY DashboardAssumption DEF DashTypeOK
    <3>2. [i \in 1..history[w] |-> i] \in Seq(1..MaxChanges)
      BY <3>1, CountingIsASeq
    <3> QED BY <1>14, <3>2 DEF GotHistory
  <2>3. /\ earlier' \in [Workers -> SUBSET Workers] /\ old' \subseteq Workers /\ behind' \in BOOLEAN
        /\ ref' \in [Workers -> RefreshPlaces]
    BY <1>14 DEF GotHistory, Forgotten, DashTypeOK, RefreshPlaces
  <2> QED BY <1>14, <2>1, <2>2, <2>3 DEF GotHistory, DashTypeOK
<1> QED
  BY <1>1, <1>2, <1>2s, <1>3, <1>4, <1>5, <1>6, <1>7, <1>8, <1>9, <1>10, <1>11, <1>11b, <1>12,
     <1>13, <1>14
  DEF DashNext, EventLoop, Refresh

-----------------------------------------------------------------------------
\* The connection, step by step.
LEMMA FeedStep == DashTypeOK /\ FeedKnown /\ [DashNext]_dashVars => FeedKnown'
<1> SUFFICES ASSUME DashTypeOK, FeedKnown, [DashNext]_dashVars PROVE FeedKnown'
  OBVIOUS
<1> USE DEF FeedKnown, daemonVars, feedVars, screenVars, refVars
<1>t. stream \in {"none", "joining", "up"} /\ loop \in {"mount", "connect", "stream", "sleep"}
  BY DEF DashTypeOK
<1>1. CASE UNCHANGED dashVars
  BY <1>1 DEF dashVars
<1>2. ASSUME NEW s \in DStates, StateChanges(s) PROVE FeedKnown'
  <2>1. CASE stream = "up"
    <3>1. /\ Len(events) \in Nat /\ DOMAIN events = 1..Len(events)
          /\ DOMAIN events' = 1..(Len(events) + 1)
          /\ events'[Len(events) + 1][1] = "state"
      <4>1. <<"state", s>> \in DashEvents /\ Tells(<<"state", s>>)
        BY <1>2 DEF StateChanges, DashEvents
      <4>2. events'[Len(events) + 1] = <<"state", s>>
        BY <4>1, <2>1, Told
      <4>3. <<"state", s>>[1] = "state"
        OBVIOUS
      <4> QED BY <4>1, <4>2, <4>3, <2>1, Told
    <3>2. \A i \in DOMAIN events' : events'[i][1] = "transcript" =>
             \E j \in DOMAIN events' : j > i /\ events'[j][1] = "state"
      <4> SUFFICES ASSUME NEW i \in DOMAIN events', events'[i][1] = "transcript"
                   PROVE  Len(events) + 1 \in DOMAIN events' /\ Len(events) + 1 > i
        BY <3>1
      <4> QED BY <3>1
    <3> QED BY <1>2, <2>1, <3>2 DEF StateChanges, Tells
  <2>2. CASE stream # "up"
    BY <1>2, <2>2 DEF StateChanges, Tells
  <2> QED BY <2>1, <2>2
<1>2s. ASSUME NEW s \in DStates, StateSlips(s) PROVE FeedKnown'
  BY <1>2s DEF StateSlips
<1>3. CASE Transcribes
  BY <1>3 DEF Transcribes, Tells
<1>4. CASE GoesDown
  BY <1>4, <1>t DEF GoesDown
<1>5. CASE ComesUp
  BY <1>5, <1>t DEF ComesUp
<1>6. CASE Mount
  BY <1>6 DEF Mount
<1>7. CASE LoopConnects
  BY <1>7 DEF LoopConnects
<1>8. CASE Joins
  <2>1. DOMAIN events = {}
    BY <1>8 DEF Joins
  <2> QED BY <1>8, <2>1 DEF Joins
<1>9. CASE LoopEnds \/ LoopWakes
  BY <1>9 DEF LoopEnds, LoopWakes
<1>10. CASE OnState \/ OnTranscript
  <2>1. PICK e \in {"state", "transcript"} : TakesEvent(e)
    BY <1>10 DEF OnState, OnTranscript
  <2>2. UNCHANGED <<stream, loop, up, known, missed, due>> /\ loop # "mount"
    BY <1>10 DEF OnState, OnTranscript, TakesEvent
  <2>3. /\ Len(events) \in Nat /\ DOMAIN events = 1..Len(events)
        /\ \A i \in DOMAIN events' : i + 1 \in DOMAIN events /\ events'[i] = events[i + 1]
        /\ \A i \in DOMAIN events : i > 1 => i - 1 \in DOMAIN events'
        /\ events # <<>>
    BY <2>1, EventTaken DEF TakesEvent
  <2>4. ASSUME stream = "up", ~due, NEW i \in DOMAIN events',
               events'[i][1] = "transcript"
        PROVE  \E j \in DOMAIN events' : j > i /\ events'[j][1] = "state"
    <3>1. i + 1 \in DOMAIN events /\ events[i + 1][1] = "transcript" /\ i + 1 \in Nat /\ i \in Nat
      <4>1. events' \in Seq(DashEvents)
        BY <2>1, EventTaken
      <4>2. i \in 1..Len(events')
        BY <4>1
      <4> QED BY <2>3, <2>4, <4>2
    <3>2. PICK j \in DOMAIN events : j > i + 1 /\ events[j][1] = "state"
      BY <2>4, <3>1
    <3>3. j \in Nat /\ j > 1 /\ j - 1 \in DOMAIN events' /\ j - 1 > i /\ events'[j - 1] = events[j]
      BY <2>3, <3>1, <3>2
    <3> QED BY <3>2, <3>3
  <2> QED BY <2>2, <2>3, <2>4
<1>11. ASSUME NEW w \in Workers, RefreshOffline(w) PROVE FeedKnown'
  BY <1>11 DEF RefreshOffline
<1>11b. ASSUME NEW w \in Workers, RefreshBegins(w) PROVE FeedKnown'
  BY <1>11b DEF RefreshBegins
<1>12. ASSUME NEW w \in Workers, RefreshFails(w) PROVE FeedKnown'
  BY <1>12 DEF RefreshFails
<1>13. ASSUME NEW w \in Workers, RefreshClosed(w) PROVE FeedKnown'
  BY <1>13 DEF RefreshClosed
<1>14. ASSUME NEW w \in Workers, AnswersStatus(w) PROVE FeedKnown'
  BY <1>14 DEF AnswersStatus
<1>15. ASSUME NEW w \in Workers, AnswersHistory(w) PROVE FeedKnown'
  BY <1>15 DEF AnswersHistory
<1>16. ASSUME NEW w \in Workers, GotStatus(w) PROVE FeedKnown'
  BY <1>16 DEF GotStatus
<1>17. ASSUME NEW w \in Workers, GotHistory(w) PROVE FeedKnown'
  BY <1>17 DEF GotHistory
<1> QED
  BY <1>1, <1>2, <1>2s, <1>3, <1>4, <1>5, <1>6, <1>7, <1>8, <1>9, <1>10, <1>11, <1>11b, <1>12,
     <1>13, <1>14, <1>15, <1>16, <1>17
  DEF DashNext, EventLoop, Refresh

\* What a worker's end and its answer do to the order of the answers.
LEMMA WorkerEnds ==
  ASSUME DashTypeOK, OrderKnown, NEW w \in Workers, ref' = [ref EXCEPT ![w] = "rest"],
         earlier' = Forgotten(w), old' \subseteq Answered \ {w}
  PROVE  OrderKnown' /\ Answered' = Answered \ {w}
<1>1. Answered' = Answered \ {w}
  BY DEF Answered, DashTypeOK
<1>2. old' \subseteq Answered'
  BY <1>1 DEF OrderKnown
<1>3. \A v \in Answered' : earlier'[v] = earlier[v] \ {w}
  BY <1>1 DEF Forgotten, Answered
<1> QED
  BY <1>1, <1>2, <1>3 DEF OrderKnown

\* An answer is the newest.
LEMMA WorkerAnswered ==
  ASSUME DashTypeOK, OrderKnown, NEW w \in Workers, AnswersStatus(w)
  PROVE  /\ OrderKnown' /\ Answered' = Answered \cup {w} /\ w \notin Answered
         /\ earlier'[w] = Answered
<1>1. Answered' = Answered \cup {w} /\ w \notin Answered
  BY DEF Answered, DashTypeOK, AnswersStatus
<1>2. earlier'[w] = Answered /\ \A v \in Workers \ {w} : earlier'[v] = earlier[v]
  BY DEF DashTypeOK, AnswersStatus
<1>3. old' = old
  BY DEF AnswersStatus
<1> QED
  BY <1>1, <1>2, <1>3 DEF OrderKnown, Answered

\* The order of the answers, step by step.
LEMMA OrderStep == DashTypeOK /\ OrderKnown /\ [DashNext]_dashVars => OrderKnown'
<1> SUFFICES ASSUME DashTypeOK, OrderKnown, [DashNext]_dashVars PROVE OrderKnown'
  OBVIOUS
<1>k. ASSUME Answered' = Answered, UNCHANGED <<earlier, old>> PROVE OrderKnown'
  BY <1>k DEF OrderKnown
<1>n. ASSUME UNCHANGED ref PROVE Answered' = Answered
  BY <1>n DEF Answered
<1>r. ASSUME Refreshes PROVE Answered' = Answered /\ UNCHANGED <<earlier, old>>
  BY <1>r DEF Refreshes, Answered, DashTypeOK, RefreshPlaces, ghostVars
<1> USE DEF refVars, ghostVars
<1>1. CASE UNCHANGED dashVars
  BY <1>1, <1>k, <1>n DEF dashVars
<1>2. ASSUME NEW s \in DStates, StateChanges(s) PROVE OrderKnown'
  BY <1>2, <1>k, <1>n DEF StateChanges
<1>2s. ASSUME NEW s \in DStates, StateSlips(s) PROVE OrderKnown'
  BY <1>2s, <1>k, <1>n DEF StateSlips
<1>3. CASE Transcribes \/ GoesDown \/ ComesUp
  BY <1>3, <1>k, <1>n DEF Transcribes, GoesDown, ComesUp
<1>4. CASE Mount \/ OnState
  BY <1>4, <1>k, <1>r DEF Mount, OnState
<1>5. CASE LoopConnects \/ Joins \/ LoopEnds \/ LoopWakes \/ OnTranscript
  BY <1>5, <1>k, <1>n DEF LoopConnects, Joins, LoopEnds, LoopWakes, OnTranscript
<1>6. ASSUME NEW w \in Workers, RefreshOffline(w) \/ RefreshFails(w) \/ RefreshClosed(w)
      PROVE  OrderKnown'
  <2>1. Fails(w)
    BY <1>6 DEF RefreshOffline, RefreshFails, RefreshClosed
  <2>2. old' \subseteq Answered \ {w}
    BY <2>1 DEF Fails, OrderKnown
  <2> QED BY <2>1, <2>2, WorkerEnds DEF Fails
<1>6b. ASSUME NEW w \in Workers, RefreshBegins(w) PROVE OrderKnown'
  BY <1>6b, <1>k DEF RefreshBegins, Answered, DashTypeOK
<1>7. ASSUME NEW w \in Workers, AnswersStatus(w) PROVE OrderKnown'
  BY <1>7, WorkerAnswered
<1>8. ASSUME NEW w \in Workers, AnswersHistory(w) PROVE OrderKnown'
  BY <1>8, <1>k DEF AnswersHistory, Answered, DashTypeOK
<1>9. ASSUME NEW w \in Workers, GotStatus(w) PROVE OrderKnown'
  <2>1. Answered' = Answered /\ w \in Answered
    BY <1>9 DEF GotStatus, Answered, DashTypeOK
  <2> QED BY <1>9, <2>1 DEF GotStatus, OrderKnown
<1>10. ASSUME NEW w \in Workers, GotHistory(w) PROVE OrderKnown'
  <2>1. w \in Answered
    BY <1>10 DEF GotHistory, Answered
  <2>2. old' \subseteq Answered \ {w}
    BY <1>10, <2>1 DEF GotHistory, OrderKnown
  <2> QED BY <1>10, <2>1, <2>2, WorkerEnds DEF GotHistory
<1> QED
  BY <1>1, <1>2, <1>2s, <1>3, <1>4, <1>5, <1>6, <1>6b, <1>7, <1>8, <1>9, <1>10
  DEF DashNext, EventLoop, Refresh

-----------------------------------------------------------------------------
\* The connection of a refresh, step by step.
LEMMA ConnectionStep ==
  DashTypeOK /\ FeedKnown /\ OrderKnown /\ ConnectionKnown /\ [DashNext]_dashVars
     => ConnectionKnown'
<1> SUFFICES ASSUME DashTypeOK, FeedKnown, OrderKnown, ConnectionKnown, [DashNext]_dashVars
             PROVE  ConnectionKnown'
  OBVIOUS
<1>k. ASSUME UNCHANGED <<ref, old, connected>> PROVE ConnectionKnown'
  BY <1>k DEF ConnectionKnown, Answered
<1>r. ASSUME Refreshes PROVE \A v \in Workers : v \in Answered' => v \in Answered /\ ref'[v] = ref[v]
  BY <1>r DEF Refreshes, Answered, DashTypeOK
<1> USE DEF refVars, ghostVars, screenVars
<1>1. CASE UNCHANGED dashVars
  BY <1>1, <1>k DEF dashVars
<1>2. ASSUME NEW s \in DStates, StateChanges(s) \/ StateSlips(s) PROVE ConnectionKnown'
  BY <1>2, <1>k DEF StateChanges, StateSlips
<1>3. CASE Transcribes \/ GoesDown \/ ComesUp
  BY <1>3, <1>k DEF Transcribes, GoesDown, ComesUp
<1>4. CASE Mount
  <2>1. Answered' = {}
    BY <1>4, <1>r DEF Mount, Answered, FeedKnown
  <2> QED BY <2>1 DEF ConnectionKnown
<1>5. CASE OnState
  BY <1>5, <1>r DEF OnState, Refreshes, ConnectionKnown, Answered
<1>6. CASE LoopConnects \/ Joins \/ LoopEnds \/ LoopWakes \/ OnTranscript
  BY <1>6, <1>k DEF LoopConnects, Joins, LoopEnds, LoopWakes, OnTranscript
<1>7. ASSUME NEW w \in Workers, RefreshOffline(w) \/ RefreshFails(w) \/ RefreshClosed(w)
      PROVE  ConnectionKnown'
  <2>1. Fails(w)
    BY <1>7 DEF RefreshOffline, RefreshFails, RefreshClosed
  <2>2. Answered' = Answered \ {w} /\ Answered' \subseteq old'
    BY <2>1 DEF Fails, Answered, DashTypeOK
  <2> QED BY <2>2 DEF ConnectionKnown
<1>8. ASSUME NEW w \in Workers, RefreshBegins(w) PROVE ConnectionKnown'
  BY <1>8 DEF RefreshBegins, ConnectionKnown, Answered, DashTypeOK
<1>9. ASSUME NEW w \in Workers, AnswersStatus(w) PROVE ConnectionKnown'
  BY <1>9 DEF AnswersStatus, ConnectionKnown, Answered, DashTypeOK
<1>10. ASSUME NEW w \in Workers, AnswersHistory(w) PROVE ConnectionKnown'
  BY <1>10 DEF AnswersHistory, ConnectionKnown, Answered, DashTypeOK
<1>11. ASSUME NEW w \in Workers, GotStatus(w) PROVE ConnectionKnown'
  BY <1>11 DEF GotStatus, ConnectionKnown
<1>12. ASSUME NEW w \in Workers, GotHistory(w) PROVE ConnectionKnown'
  BY <1>12 DEF GotHistory, ConnectionKnown, Answered, DashTypeOK
<1> QED
  BY <1>1, <1>2, <1>3, <1>4, <1>5, <1>6, <1>7, <1>8, <1>9, <1>10, <1>11, <1>12
  DEF DashNext, EventLoop, Refresh

-----------------------------------------------------------------------------
\* The newest answer, step by step.
LEMMA NewestStep == DashInv /\ [DashNext]_dashVars => NewestKnown'
<1> SUFFICES ASSUME DashInv, [DashNext]_dashVars, ~missed', ~StatePending', ~Asking'
             PROVE  NewestKnown'
  BY DEF NewestKnown
<1> USE DEF DashInv
<1>f. ~missed => stream = "up" /\ up /\ known
  BY DEF FeedKnown
<1>k. ASSUME Answered' = Answered, StatePending' = StatePending, Asking' = Asking,
             missed' = missed, UNCHANGED <<dstate, hist, due, status, history, ref, shown, entries, ghostVars>>
      PROVE  NewestKnown'
  BY <1>k DEF NewestKnown, ghostVars
<1>n. ASSUME UNCHANGED ref PROVE Answered' = Answered /\ Asking' = Asking
  BY <1>n DEF Answered, Asking
<1>e. ASSUME UNCHANGED events PROVE StatePending' = StatePending
  BY <1>e DEF StatePending
<1>r. ASSUME Refreshes PROVE Asking'
  BY <1>r DEF Refreshes, Asking, DashTypeOK
<1> USE DEF daemonVars, feedVars, screenVars, refVars
<1>1. CASE UNCHANGED dashVars
  BY <1>1, <1>k, <1>n, <1>e DEF dashVars
<1>2. ASSUME NEW s \in DStates, StateChanges(s) PROVE NewestKnown'
  <2>1. <<"state", s>> \in DashEvents /\ Tells(<<"state", s>>) /\ stream' = stream
    BY <1>2 DEF StateChanges, DashEvents
  <2>2. stream = "up"
    BY <2>1, <1>f DEF Tells
  <2>3. /\ Len(events) + 1 \in DOMAIN events' /\ events'[Len(events) + 1] = <<"state", s>>
    BY <2>1, <2>2, Told
  <2>4. <<"state", s>>[1] = "state"
    OBVIOUS
  <2> QED BY <2>3, <2>4 DEF StatePending
<1>2s. ASSUME NEW s \in DStates, StateSlips(s) PROVE NewestKnown'
  BY <1>2s DEF StateSlips
<1>3. CASE Transcribes
  <2>1. stream = "up" /\ ~missed
    BY <1>3 DEF Transcribes, Tells, FeedKnown
  <2>2. Answered' = Answered /\ Asking' = Asking
    BY <1>3, <1>n DEF Transcribes
  <2>3. hist + 1 \in 1..MaxChanges
    BY <1>3, DashboardAssumption DEF Transcribes, DashTypeOK
  <2>4. <<"transcript", hist + 1>> \in DashEvents /\ Tells(<<"transcript", hist + 1>>)
    BY <1>3, <2>3 DEF Transcribes, DashEvents
  <2>5. StatePending => StatePending'
    BY <2>1, <2>4, Told DEF StatePending
  <2>6. due' /\ UNCHANGED <<dstate, status, history, ref, shown, entries, ghostVars>>
    BY <1>3 DEF Transcribes
  <2> QED BY <2>1, <2>2, <2>5, <2>6 DEF NewestKnown, ghostVars
<1>4. CASE GoesDown \/ ComesUp
  BY <1>4, <1>f DEF GoesDown, ComesUp
<1>5. CASE Mount \/ OnState
  BY <1>5, <1>r DEF Mount, OnState
<1>6. CASE LoopConnects \/ Joins \/ LoopEnds \/ LoopWakes
  <2>1. missed' = missed
    BY <1>6 DEF LoopConnects, Joins, LoopEnds, LoopWakes
  <2> QED BY <1>6, <2>1, <1>f DEF LoopConnects, Joins, LoopEnds, LoopWakes, FeedKnown
<1>7. CASE OnTranscript
  <2>1. /\ TakesEvent("transcript") /\ missed' = missed /\ UNCHANGED refVars
        /\ UNCHANGED <<dstate, hist, due, stream>>
    BY <1>7 DEF OnTranscript
  <2>2. /\ 1 \in DOMAIN events /\ events[1][1] = "transcript"
        /\ \A i \in DOMAIN events : i > 1 => i - 1 \in DOMAIN events'
        /\ \A i \in DOMAIN events' : events'[i] = events[i + 1]
        /\ Len(events) \in Nat /\ DOMAIN events = 1..Len(events)
    BY <2>1, EventTaken
  <2>3. ~StatePending
    <3> SUFFICES ASSUME NEW i \in DOMAIN events, events[i][1] = "state" PROVE FALSE
      BY DEF StatePending
    <3>1. i > 1 /\ i - 1 \in DOMAIN events' /\ i \in Nat
      BY <2>2
    <3>2. events'[i - 1] = events[(i - 1) + 1] /\ (i - 1) + 1 = i
      BY <2>2, <3>1
    <3> QED BY <3>1, <3>2 DEF StatePending
  <2>4. due
    BY <2>1, <2>2, <2>3, <1>f DEF FeedKnown, StatePending
  <2>5. Answered' = Answered /\ ~Asking
    BY <2>1, <1>n
  <2> QED BY <2>1, <2>3, <2>4, <2>5 DEF NewestKnown, ghostVars
<1>8. ASSUME NEW w \in Workers, RefreshOffline(w) \/ RefreshFails(w) \/ RefreshClosed(w)
      PROVE  NewestKnown'
  <2>1. Fails(w)
    BY <1>8 DEF RefreshOffline, RefreshFails, RefreshClosed
  <2>2. Answered' = Answered \ {w} /\ Answered' \subseteq old' /\ behind'
    BY <2>1 DEF Fails, Answered, DashTypeOK
  <2> QED BY <2>2 DEF NewestKnown
<1>8b. ASSUME NEW w \in Workers, RefreshBegins(w) PROVE NewestKnown'
  BY <1>8b DEF RefreshBegins, Asking, DashTypeOK
<1>9. ASSUME NEW w \in Workers, AnswersStatus(w) PROVE NewestKnown'
  <2>1. Answered' = Answered \cup {w} /\ w \notin Answered /\ earlier'[w] = Answered
    BY <1>9, WorkerAnswered
  <2>2. old' = old /\ w \notin old /\ status'[w] = dstate' /\ ref'[w] = "gotStatus"
    BY <1>9, <2>1 DEF AnswersStatus, OrderKnown, DashTypeOK
  <2>3. w \in Answered' \ old' /\ earlier'[w] = Answered' \ {w}
    BY <2>1, <2>2
  <2> QED BY <2>2, <2>3 DEF NewestKnown
<1>10. ASSUME NEW w \in Workers, AnswersHistory(w) PROVE NewestKnown'
  <2>1. /\ Answered' = Answered /\ Asking' = Asking /\ StatePending' = StatePending
        /\ missed' = missed /\ UNCHANGED <<dstate, hist, due, status, shown, entries, ghostVars>>
    BY <1>10 DEF AnswersHistory, Answered, Asking, StatePending, DashTypeOK
  <2>2. history'[w] = hist /\ \A v \in Workers \ {w} : history'[v] = history[v] /\ ref'[v] = ref[v]
    BY <1>10 DEF AnswersHistory, DashTypeOK
  <2>3. Answered \subseteq Workers
    BY DEF Answered
  <2> QED BY <2>1, <2>2, <2>3 DEF NewestKnown, ghostVars
<1>11. ASSUME NEW w \in Workers, GotStatus(w) PROVE NewestKnown'
  <2>1. /\ Answered' = Answered /\ Asking' = Asking /\ w \in Answered
        /\ StatePending' = StatePending /\ missed' = missed
        /\ UNCHANGED <<dstate, hist, due, entries, status, history, earlier, behind>>
        /\ old' = old \cup earlier[w] /\ ref'[w] = "history"
        /\ \A v \in Workers \ {w} : ref'[v] = ref[v]
    BY <1>11 DEF GotStatus, Answered, Asking, StatePending, DashTypeOK
  <2>2. ASSUME NEW v \in Answered \ old, earlier[v] = Answered \ {v} PROVE v \notin old'
    BY <2>1, <2>2 DEF OrderKnown
  <2>3. Answered # {} /\ Answered \subseteq Workers
    BY <2>1 DEF Answered
  <2> QED BY <2>1, <2>2, <2>3 DEF NewestKnown
<1>12. ASSUME NEW w \in Workers, GotHistory(w) PROVE NewestKnown'
  <2>1. /\ Asking' = Asking /\ w \in Answered
        /\ StatePending' = StatePending /\ missed' = missed
        /\ UNCHANGED <<dstate, hist, due, status, history, connected>>
        /\ old' = (old \cup earlier[w]) \ {w} /\ behind' = (w \in old)
        /\ \A v \in Workers \ {w} : ref'[v] = ref[v]
        /\ earlier' = Forgotten(w) /\ ref[w] = "gotHistory"
        /\ entries' = [i \in 1..history[w] |-> i] /\ Shell(status[w])
    BY <1>12 DEF GotHistory, Answered, Asking, StatePending, DashTypeOK
  <2>2. Answered' = Answered \ {w}
    BY <1>12 DEF GotHistory, Answered, DashTypeOK
  <2>3. /\ Answered \subseteq Workers
        /\ \A v \in Workers \ {w} : earlier'[v] = earlier[v] \ {w}
    BY <2>1 DEF Forgotten, Answered
  <2>4. CASE Answered \subseteq old
    BY <2>1, <2>2, <2>4 DEF NewestKnown
  <2>5. ASSUME NEW v \in Answered \ old, earlier[v] = Answered \ {v}, status[v] = dstate,
               ref[v] = "gotHistory" /\ ~due => history[v] = hist
        PROVE  NewestKnown'
    <3>1. CASE v = w
      <4>1. Answered' \subseteq old' /\ shown' = dstate
        BY <2>1, <2>2, <2>5, <3>1 DEF Shell, ConnectionKnown
      <4> QED BY <2>1, <2>5, <3>1, <4>1 DEF NewestKnown
    <3>2. CASE v # w
      <4>1. v \in Answered' \ old' /\ earlier'[v] = Answered' \ {v}
        BY <2>1, <2>2, <2>3, <2>5, <3>2 DEF OrderKnown
      <4> QED BY <2>1, <2>3, <2>5, <3>2, <4>1 DEF NewestKnown
    <3> QED BY <3>1, <3>2
  <2> QED BY <2>1, <2>4, <2>5 DEF NewestKnown
<1> QED
  BY <1>1, <1>2, <1>2s, <1>3, <1>4, <1>5, <1>6, <1>7, <1>8, <1>8b, <1>9, <1>10, <1>11, <1>12
  DEF DashNext, EventLoop, Refresh

\* The invariant holds at the beginning, and then always.
LEMMA DashStarts == DashInit => DashInv
<1> SUFFICES ASSUME DashInit PROVE DashInv
  OBVIOUS
<1>1. DashTypeOK
  <2>1. 0 \in 0..MaxChanges /\ 0 \in 0..MaxRestarts /\ "idle" \in DStates
    BY DashboardAssumption DEF DStates
  <2>2. /\ events \in Seq({<<"state", s>> : s \in DStates}
                          \cup {<<"transcript", n>> : n \in 1..MaxChanges})
        /\ entries \in Seq(1..MaxChanges)
    BY DEF DashInit
  <2>3. /\ ref \in [Workers -> RefreshPlaces]
        /\ status \in [Workers -> DStates] /\ history \in [Workers -> 0..MaxChanges]
        /\ earlier \in [Workers -> SUBSET Workers]
    BY <2>1 DEF DashInit, RefreshPlaces
  <2> QED BY <2>1, <2>2, <2>3 DEF DashInit, DashTypeOK
<1>2. DOMAIN events = {} /\ Answered = {} /\ old = {}
  BY DEF DashInit, Answered
<1> QED
  BY <1>1, <1>2 DEF DashInit, DashInv, FeedKnown, OrderKnown, ConnectionKnown, NewestKnown

LEMMA DashInductive == DashSpec => []DashInv
<1>1. DashInv /\ [DashNext]_dashVars => DashInv'
  BY DashTypeStep, FeedStep, OrderStep, ConnectionStep, NewestStep DEF DashInv
<1> QED
  BY <1>1, DashStarts, PTL DEF DashSpec

\* The dashboard's variables keep their types: its event loop, its screen and
\* the workers of refresh_dashboard.
THEOREM DashTypeCorrect == DashSpec => []DashTypeOK
<1>1. DashInv => DashTypeOK
  BY DEF DashInv
<1> QED
  BY <1>1, DashInductive, PTL

\* At rest the dashboard shows the daemon's state and its transcripts, each
\* once, for any number of overlapping refreshes, changes and restarts (outside
\* the cases ScreenIsTrue names): the answer that is newest among the refreshes
\* that have one is up to date, so the refresh that has it puts the screen right.
THEOREM ScreenAlwaysTrue == DashSpec => []ScreenIsTrue
<1>1. DashInv => ScreenIsTrue
  <2> SUFFICES ASSUME DashInv, DashRests, ~missed, ~behind, ~due
               PROVE  shown = dstate /\ entries = [i \in 1..hist |-> i]
    BY DEF ScreenIsTrue
  <2>1. Answered = {} /\ ~Asking /\ DOMAIN events = {}
    BY DEF DashRests, Answered, Asking
  <2> QED BY <2>1 DEF DashInv, NewestKnown, StatePending
<1> QED
  BY <1>1, DashInductive, PTL

-----------------------------------------------------------------------------
(***************************************************************************)
(* For any number of changes, on the screen and by others: the types, and  *)
(* that the settings are kept.  The invariant says what is still to be     *)
(* sent, and what the fields show meanwhile.                               *)
(***************************************************************************)

\* The changes of a setting that the screen has yet to send.
Unsent(k) == {i \in DOMAIN msgs : msgs[i].do = "set" /\ msgs[i].key = k}

\* The fields that have not been touched show what was chosen last, or get_config
\* has brought it.
ScreenKnown ==
    /\ scr \in {"closed", "asking"} => msgs = <<>>
    /\ scr # "open" => saving = "no"
    /\ edited \subseteq {"form", "sound"}
    /\ scr = "asking" =>
          /\ \A k \in {"now", "both"} \ foreign : got[k] = wish[k]
          /\ "form" \notin foreign => Whole(got["form"]) = Whole(wish["form"])
    /\ scr \in {"sounds", "open"} =>
          /\ \A k \in {"now", "both"} \ foreign : widget[k] = wish[k]
          /\ "form" \notin foreign \cup edited => widget["form"] = Whole(wish["form"])
          /\ Whole(widget["form"]) = widget["form"]

\* The last change of a setting that is still on its way carries what was chosen
\* last; with none on its way the daemon has it.
SentKnown ==
    /\ \A k \in {"now", "both"} \ foreign :
          /\ Unsent(k) = {} => store[k] = wish[k]
          /\ \A i \in Unsent(k) : msgs[i].val = wish[k] \/ \E j \in Unsent(k) : j > i
    /\ "form" \notin foreign => Whole(store["form"]) = Whole(wish["form"])

\* The sound: on screen is the daemon's, unless another is being chosen.
SoundKnown ==
    "sound" \notin foreign =>
        /\ saving = "clear" => wish["sound"] = 0
        /\ saving # "clear" => store["sound"] = wish["sound"]
        /\ scr = "open" /\ saving = "no" /\ "sound" \notin edited => widget["sound"] = store["sound"]

SetInv == SetTypeOK /\ ScreenKnown /\ SentKnown /\ SoundKnown

-----------------------------------------------------------------------------
\* The first message, and those that are left when it has been taken.
LEMMA MessageTaken ==
  ASSUME SetTypeOK, NEW o, Takes1(o)
  PROVE  /\ 1 \in DOMAIN msgs /\ msgs[1] = Head(msgs) /\ msgs[1].do = o /\ msgs' \in Seq(Messages)
         /\ Head(msgs).val \in Stored
         /\ o = "set" => Head(msgs).key \in {"now", "both"}
         /\ DOMAIN msgs \subseteq Nat /\ DOMAIN msgs' \subseteq Nat
         /\ \A i \in DOMAIN msgs : i >= 1
         /\ \A i \in DOMAIN msgs' : i >= 1 /\ i + 1 \in DOMAIN msgs /\ msgs'[i] = msgs[i + 1]
         /\ \A i \in DOMAIN msgs : i # 1 => i - 1 \in DOMAIN msgs' /\ msgs'[i - 1] = msgs[i]
<1>1. msgs \in Seq(Messages) /\ msgs # <<>>
  BY DEF SetTypeOK, Takes1
<1>2. Head(msgs) \in Messages /\ Head(msgs) = msgs[1] /\ Head(msgs).do = o
  BY <1>1 DEF Takes1
<1>3. /\ Head(msgs).val \in Stored
      /\ o = "set" => Head(msgs).key \in {"now", "both"}
  BY <1>2 DEF Messages
<1>4. /\ msgs' \in Seq(Messages) /\ Len(msgs') = Len(msgs) - 1
      /\ \A i \in 1..Len(msgs') : msgs'[i] = msgs[i + 1]
  BY <1>1, HeadTailProperties DEF Takes1
<1>5. Len(msgs) \in Nat \ {0} /\ DOMAIN msgs = 1..Len(msgs) /\ DOMAIN msgs' = 1..(Len(msgs) - 1)
  BY <1>1, <1>4
<1>6. \A i \in DOMAIN msgs : i # 1 => i - 1 \in DOMAIN msgs' /\ msgs'[i - 1] = msgs[i]
  <2> TAKE i \in DOMAIN msgs
  <2> HAVE i # 1
  <2>1. i - 1 \in 1..Len(msgs') /\ (i - 1) + 1 = i
    BY <1>4, <1>5
  <2> QED BY <1>4, <1>5, <2>1
<1> QED
  BY <1>2, <1>3, <1>4, <1>5, <1>6

\* A message that is added changes nothing before it.
LEMMA MessageAdded ==
  ASSUME SetTypeOK, NEW m \in Messages, msgs' = Append(msgs, m)
  PROVE  /\ msgs' \in Seq(Messages) /\ Len(msgs) \in Nat
         /\ DOMAIN msgs = 1..Len(msgs) /\ DOMAIN msgs' = 1..(Len(msgs) + 1)
         /\ msgs'[Len(msgs) + 1] = m /\ \A i \in DOMAIN msgs : msgs'[i] = msgs[i]
BY DEF SetTypeOK

\* What the screen announces when it is filled in.
LEMMA FilledMessages ==
  ASSUME SetTypeOK, Fills
  PROVE  /\ msgs' \in Seq(Messages)
         /\ \A i \in DOMAIN msgs' : msgs'[i].do = "set" /\ msgs'[i].val = got[msgs'[i].key]
<1>1. /\ Changed("now", got["now"]) \in Messages /\ Changed("both", got["both"]) \in Messages
      /\ \A k : /\ Changed(k, got[k]).do = "set" /\ Changed(k, got[k]).key = k
                /\ Changed(k, got[k]).val = got[k]
  BY DEF SetTypeOK, SettingValues, Settings4, Messages, Changed
<1> HIDE DEF Changed
<1> DEFINE a == Changed("now", got["now"])
           b == Changed("both", got["both"])
<1>2. a \in Messages /\ b \in Messages /\ a.do = "set" /\ b.do = "set"
      /\ a.val = got[a.key] /\ b.val = got[b.key]
  BY <1>1
<1>3. msgs' \in {<<>>, <<a>>, <<b>>, <<a, b>>}
  BY DEF Fills
<1> HIDE DEF a, b
<1>4. CASE msgs' = <<>>
  BY <1>4
<1>5. CASE msgs' = <<a>>
  BY <1>2, <1>5
<1>6. CASE msgs' = <<b>>
  BY <1>2, <1>6
<1>7. CASE msgs' = <<a, b>>
  <2>1. DOMAIN msgs' = 1..2 /\ msgs'[1] = a /\ msgs'[2] = b /\ msgs' \in Seq(Messages)
    BY <1>2, <1>7
  <2> QED BY <1>2, <2>1
<1> QED
  BY <1>3, <1>4, <1>5, <1>6, <1>7

LEMMA NumbersStored == 0 \in Stored /\ 0 \in 0..MaxSets /\ 0..MaxSets \subseteq Stored
BY SettingsAssumption DEF Stored

\* A message is about settings, and what is done about it leaves a configuration.
LEMMA SendsTypes ==
  ASSUME NEW m \in Messages
  PROVE  Sends(m) \subseteq Settings4
<1>1. m.do \in {"set", "save", "builtin", "import"} /\ (m.do = "set" => m.key \in {"now", "both"})
  BY DEF Messages
<1> QED BY <1>1 DEF Sends, Settings4

LEMMA DoneTypes ==
  ASSUME SetTypeOK, msgs # <<>>
  PROVE  Done(Head(msgs)) \in SettingValues /\ Sends(Head(msgs)) \subseteq Settings4
<1> DEFINE m == Head(msgs)
<1>1. m \in Messages
  BY DEF SetTypeOK
<1>2. /\ m.do \in {"set", "save", "builtin", "import"} /\ m.val \in Stored
      /\ m.do = "set" => m.key \in Settings4
  BY <1>1 DEF Messages, Settings4
<1>3. Sends(m) \subseteq Settings4
  BY <1>1, SendsTypes
<1> HIDE DEF m
<1>4. store \in SettingValues /\ widget \in SettingValues /\ 0 \in Stored
      /\ \A k \in Settings4 : store[k] \in Stored /\ widget[k] \in Stored
  BY SettingsAssumption DEF SetTypeOK, SettingValues, Stored
<1>5. store \in [Settings4 -> Stored]
  BY <1>4 DEF SettingValues
<1>6. "both" \in Settings4 /\ "form" \in Settings4 /\ "sound" \in Settings4
  BY DEF Settings4
<1>7. CASE m.do = "set"
  <2>1. Done(m) = [store EXCEPT ![m.key] = m.val]
    BY <1>7 DEF Done
  <2>2. [store EXCEPT ![m.key] = m.val] \in [Settings4 -> Stored]
    BY <1>2, <1>5
  <2> QED BY <1>3, <2>1, <2>2 DEF SettingValues, m
<1>8. CASE m.do = "save"
  <2> DEFINE v == IF widget["sound"] # 0 THEN widget["sound"] ELSE store["sound"]
             x == widget["form"]
             y == widget["both"]
  <2>1. Done(m) = [store EXCEPT !["form"] = x, !["both"] = y, !["sound"] = v]
    BY <1>5, <1>6, <1>8 DEF Done
  <2>2. v \in Stored /\ x \in Stored /\ y \in Stored
    BY <1>4, <1>6
  <2> HIDE DEF v, x, y
  <2>3. [store EXCEPT !["form"] = x, !["both"] = y, !["sound"] = v] \in [Settings4 -> Stored]
    BY <1>5, <1>6, <2>2
  <2> QED BY <1>3, <2>1, <2>3 DEF SettingValues, m
<1>9. CASE m.do = "builtin"
  <2>1. Done(m) = [store EXCEPT !["sound"] = 0]
    BY <1>9 DEF Done
  <2>2. [store EXCEPT !["sound"] = 0] \in [Settings4 -> Stored]
    BY <1>4, <1>5, <1>6
  <2> QED BY <1>3, <2>1, <2>2 DEF SettingValues, m
<1>10. CASE m.do = "import"
  <2>1. Done(m) = [store EXCEPT !["sound"] = m.val, !["both"] = m.val]
    BY <1>10 DEF Done
  <2>2. [store EXCEPT !["sound"] = m.val, !["both"] = m.val] \in [Settings4 -> Stored]
    BY <1>2, <1>5, <1>6
  <2> QED BY <1>3, <2>1, <2>2 DEF SettingValues, m
<1> QED BY <1>2, <1>3, <1>7, <1>8, <1>9, <1>10 DEF m

\* The settings of the configuration, once a message has been dealt with.
LEMMA DoneValues ==
  ASSUME SetTypeOK, msgs # <<>>
  PROVE  /\ Head(msgs).do = "set" /\ Head(msgs).key \in {"now", "both"} =>
              \A k \in Settings4 : Done(Head(msgs))[k] =
                 IF k = Head(msgs).key THEN Head(msgs).val ELSE store[k]
         /\ Head(msgs).do = "save" =>
              /\ Done(Head(msgs))["now"] = store["now"]
              /\ Done(Head(msgs))["form"] = widget["form"]
              /\ Done(Head(msgs))["both"] = widget["both"]
              /\ Done(Head(msgs))["sound"] = IF widget["sound"] # 0 THEN widget["sound"]
                                             ELSE store["sound"]
         /\ Head(msgs).do = "builtin" =>
              \A k \in Settings4 : Done(Head(msgs))[k] = IF k = "sound" THEN 0 ELSE store[k]
         /\ Head(msgs).do = "import" =>
              \A k \in Settings4 : Done(Head(msgs))[k] =
                 IF k \in {"sound", "both"} THEN Head(msgs).val ELSE store[k]
<1>1. DOMAIN store = Settings4 /\ {"now", "form", "both", "sound"} = Settings4
  BY DEF SetTypeOK, SettingValues, Settings4
<1> DEFINE m == Head(msgs)
<1> HIDE DEF m
<1>2. ASSUME m.do = "set", m.key \in {"now", "both"}, NEW k \in Settings4
      PROVE  Done(m)[k] = IF k = m.key THEN m.val ELSE store[k]
  BY <1>1, <1>2 DEF Done
<1>3. ASSUME m.do = "save"
      PROVE  /\ Done(m)["now"] = store["now"] /\ Done(m)["form"] = widget["form"]
             /\ Done(m)["both"] = widget["both"]
             /\ Done(m)["sound"] = IF widget["sound"] # 0 THEN widget["sound"] ELSE store["sound"]
  BY <1>1, <1>3 DEF Done
<1>4. ASSUME m.do = "builtin", NEW k \in Settings4
      PROVE  Done(m)[k] = IF k = "sound" THEN 0 ELSE store[k]
  BY <1>1, <1>4 DEF Done
<1>5. ASSUME m.do = "import", NEW k \in Settings4
      PROVE  Done(m)[k] = IF k \in {"sound", "both"} THEN m.val ELSE store[k]
  BY <1>1, <1>5 DEF Done
<1> QED BY <1>2, <1>3, <1>4, <1>5 DEF m

LEMMA DoneElsewhere ==
  ASSUME SetTypeOK, msgs # <<>>, NEW k \in Settings4, k \notin Sends(Head(msgs))
  PROVE  Done(Head(msgs))[k] = store[k]
<1>1. Head(msgs) \in Messages
  BY DEF SetTypeOK
<1>2. /\ Head(msgs).do \in {"set", "save", "builtin", "import"}
      /\ Head(msgs).do = "set" => Head(msgs).key \in {"now", "both"}
  BY <1>1 DEF Messages
<1>3. CASE Head(msgs).do = "set"
  BY <1>2, <1>3, DoneValues DEF Sends
<1>4. CASE Head(msgs).do = "save"
  <2>1. k = "now"
    BY <1>4 DEF Sends, Settings4
  <2> QED BY <1>4, <2>1, DoneValues
<1>5. CASE Head(msgs).do = "builtin"
  BY <1>5, DoneValues DEF Sends
<1>6. CASE Head(msgs).do = "import"
  BY <1>6, DoneValues DEF Sends
<1> QED BY <1>2, <1>3, <1>4, <1>5, <1>6

LEMMA UnhandledAre ==
  ASSUME NEW x
  PROVE  x \in Unhandled <=> \/ \E i \in DOMAIN msgs : x \in Sends(msgs[i])
                             \/ x = "sound" /\ saving = "clear"
<1> DEFINE A == UNION {Sends(msgs[i]) : i \in DOMAIN msgs}
           B == IF saving = "clear" THEN {"sound"} ELSE {}
<1>1. x \in A <=> \E i \in DOMAIN msgs : x \in Sends(msgs[i])
  BY Zenon
<1>2. x \in B <=> x = "sound" /\ saving = "clear"
  BY Zenon
<1>3. Unhandled = A \cup B
  BY Zenon DEF Unhandled
<1> HIDE DEF A, B
<1> QED BY <1>1, <1>2, <1>3

\* A whole percentage is shown as it is.
LEMMA WholeIsShown ==
  ASSUME NEW v \in Stored
  PROVE  Whole(Whole(v)) = Whole(v)
BY SettingsAssumption DEF Whole, Stored

LEMMA BetweenStored ==
  ASSUME NEW n \in 0..MaxSets
  PROVE  MaxSets + n \in Stored
BY SettingsAssumption DEF Stored

LEMMA WholeKept ==
  ASSUME NEW v \in 0..MaxSets
  PROVE  Whole(v) = v
BY SettingsAssumption DEF Whole

\* The variables keep their types.
LEMMA SetTypeStep == SetTypeOK /\ [SetNext]_setVars => SetTypeOK'
<1> SUFFICES ASSUME SetTypeOK, [SetNext]_setVars PROVE SetTypeOK'
  OBVIOUS
<1>t. /\ store \in SettingValues /\ widget \in SettingValues /\ got \in SettingValues
      /\ wish \in SettingValues /\ sets \in 0..MaxSets
      /\ foreign \subseteq Settings4 /\ edited \subseteq Settings4
      /\ 0 \in Stored /\ MaxSets \in Nat /\ 0..MaxSets \subseteq Stored
  BY SettingsAssumption DEF SetTypeOK, Stored
<1>x. ASSUME NEW f \in SettingValues, NEW k \in Settings4, NEW v \in Stored
      PROVE  [f EXCEPT ![k] = v] \in SettingValues
  BY <1>x DEF SettingValues
<1>v. ASSUME NEW f \in SettingValues, NEW k \in Settings4 PROVE f[k] \in Stored
  BY <1>v DEF SettingValues
<1>c. ASSUME Counts PROVE sets' \in 0..MaxSets
  BY <1>c, <1>t DEF Counts
<1>d. msgs # <<>> => Done(Head(msgs)) \in SettingValues /\ Sends(Head(msgs)) \subseteq Settings4
  BY <1>t, DoneTypes
<1>s. ASSUME RefreshSounds PROVE widget' \in SettingValues /\ foreign' \subseteq Settings4
  <2>1. store["sound"] \in Stored /\ "sound" \in Settings4
    BY <1>t, <1>v DEF Settings4
  <2>2. [widget EXCEPT !["sound"] = store["sound"]] \in SettingValues
        /\ [widget EXCEPT !["sound"] = 0] \in SettingValues
    BY <1>t, <1>x, <2>1
  <2> QED BY <1>s, <1>t, <2>1, <2>2 DEF RefreshSounds
<1>k. "now" \in Settings4 /\ "both" \in Settings4 /\ "form" \in Settings4 /\ "sound" \in Settings4
  BY DEF Settings4
<1> USE DEF paneVars, wishVars
<1>1. CASE UNCHANGED setVars
  BY <1>1 DEF setVars, SetTypeOK
<1>2. CASE Opens \/ Closes
  BY <1>2 DEF Opens, Closes, SetTypeOK
<1>3. CASE Fills
  <2>1. Whole(got["form"]) \in Stored
    BY <1>t, <1>v, <1>k DEF Whole, Stored
  <2>2. [got EXCEPT !["sound"] = 0] \in SettingValues /\ got["form"] \in Stored
    BY <1>t, <1>x, <1>v, <1>k
  <2>3. widget' = [[got EXCEPT !["sound"] = 0] EXCEPT !["form"] = Whole(got["form"])]
    BY <1>3, <1>t, <1>k DEF Fills, SettingValues
  <2>4. widget' \in SettingValues
    BY <1>x, <1>k, <2>1, <2>2, <2>3
  <2> QED BY <1>3, <2>4, FilledMessages DEF Fills, SetTypeOK
<1>4. CASE Lists
  BY <1>4, <1>s DEF Lists, SetTypeOK
<1>5. CASE HandleChange
  <2>1. store' \in SettingValues /\ msgs' \in Seq(Messages)
    BY <1>5, <1>d, MessageTaken DEF HandleChange, Takes1
  <2> QED BY <1>5, <2>1 DEF HandleChange, SetTypeOK
<1>6. CASE Refuses
  BY <1>6, MessageTaken DEF Refuses, SetTypeOK
<1>7. CASE Saves
  <2>1. msgs' \in Seq(Messages)
    BY <1>7, MessageTaken DEF Saves
  <2>2. store' \in SettingValues /\ wish' \in SettingValues
    <3>1. store' \in SettingValues
      BY <1>7, <1>d DEF Saves, Takes1
    <3>2. wish' = [k \in Settings4 |-> IF k \in edited THEN widget[k] ELSE wish[k]]
      BY <1>7 DEF Saves
    <3>3. \A k \in Settings4 : widget[k] \in Stored /\ wish[k] \in Stored
      BY <1>t, <1>v
    <3> QED BY <3>1, <3>2, <3>3 DEF SettingValues
  <2> QED BY <1>7, <2>1, <2>2 DEF Saves, SetTypeOK
<1>8. CASE ClearsSound
  <2>1. store' \in SettingValues
    BY <1>8, <1>t, <1>x, <1>k DEF ClearsSound
  <2> QED BY <1>8, <2>1 DEF ClearsSound, SetTypeOK
<1>9. CASE SavedSounds
  BY <1>9, <1>s DEF SavedSounds, SetTypeOK
<1>10. CASE TakesBuiltin
  <2>1. store' \in SettingValues /\ wish' \in SettingValues
    BY <1>10, <1>t, <1>d, <1>x, <1>k DEF TakesBuiltin, Takes1
  <2> QED BY <1>10, <2>1, MessageTaken DEF TakesBuiltin, SetTypeOK
<1>11. CASE ImportsSound
  <2>1. Head(msgs).val \in Stored /\ msgs' \in Seq(Messages) /\ msgs # <<>>
    BY <1>11, MessageTaken DEF ImportsSound, Takes1
  <2>2. store' \in SettingValues /\ wish' \in SettingValues /\ foreign' \subseteq Settings4
        /\ saving' \in {"no", "clear", "list"}
    <3>1. [wish EXCEPT !["sound"] = Head(msgs).val] \in SettingValues
      BY <1>t, <1>x, <1>k, <2>1
    <3> QED BY <1>11, <1>t, <1>d, <1>k, <2>1, <3>1 DEF ImportsSound, SetTypeOK
  <2> QED BY <1>11, <2>1, <2>2 DEF ImportsSound, SetTypeOK
<1>12. ASSUME NEW k \in Settings4, Toggles(k) PROVE SetTypeOK'
  <2>1. sets' \in 0..MaxSets
    BY <1>12, <1>c DEF Toggles
  <2>2. Changed(k, sets') \in Messages
    BY <1>12, <1>t, <2>1 DEF Toggles, Changed, Messages
  <2>3. msgs' \in Seq(Messages)
    BY <1>12, <2>2, MessageAdded DEF Toggles
  <2>4. widget' \in SettingValues /\ wish' \in SettingValues
    BY <1>12, <1>t, <1>x, <2>1 DEF Toggles
  <2> QED BY <1>12, <2>1, <2>3, <2>4 DEF Toggles, SetTypeOK
<1>13. ASSUME NEW k \in Settings4, Types(k) PROVE SetTypeOK'
  <2>1. sets' \in 0..MaxSets
    BY <1>13, <1>c DEF Types
  <2>2. widget' \in SettingValues
    BY <1>13, <1>t, <1>x, <2>1 DEF Types
  <2> QED BY <1>13, <2>1, <2>2 DEF Types, SetTypeOK
<1>14. ASSUME NEW k \in Settings4, OthersSet(k) PROVE SetTypeOK'
  <2>1. sets' \in 0..MaxSets
    BY <1>14, <1>c DEF OthersSet
  <2>2. PICK v \in {sets'} \cup (IF k = "form" THEN {MaxSets + sets'} ELSE {}) :
           store' = [store EXCEPT ![k] = v] /\ wish' = [wish EXCEPT ![k] = v]
    BY <1>14 DEF OthersSet
  <2>3. v \in Stored
    <3>1. CASE k = "form"
      <4>1. v = sets' \/ v = MaxSets + sets'
        BY <2>2, <3>1
      <4>2. MaxSets + sets' \in Stored
        BY <2>1, BetweenStored
      <4> QED BY <1>t, <2>1, <4>1, <4>2
    <3>2. CASE k # "form"
      BY <1>t, <2>1, <2>2, <3>2
    <3> QED BY <3>1, <3>2
  <2>4. store' \in SettingValues /\ wish' \in SettingValues
    BY <1>t, <1>x, <2>2, <2>3
  <2> QED BY <1>14, <2>1, <2>4 DEF OthersSet, SetTypeOK
<1>15. ASSUME NEW o \in {"save", "builtin", "import"}, Presses(o) PROVE SetTypeOK'
  <2>1. sets' \in 0..MaxSets
    BY <1>15, <1>t, <1>c DEF Presses
  <2>2. PICK m \in Messages : msgs' = Append(msgs, m)
    BY <1>15, <1>t, <2>1 DEF Presses, Press, Messages
  <2> QED BY <1>15, <2>1, <2>2, MessageAdded DEF Presses, SetTypeOK
<1>16. CASE HandlerFails
  <2>1. store' \in SettingValues
    BY <1>16, <1>t, <1>d, <1>x, <1>k DEF HandlerFails
  <2>2. foreign' \subseteq Settings4
    <3>1. Unhandled \subseteq Settings4
      <4> SUFFICES ASSUME NEW l \in Unhandled PROVE l \in Settings4
        OBVIOUS
      <4>1. \A i \in DOMAIN msgs : msgs[i] \in Messages
        BY DEF SetTypeOK
      <4> QED BY <1>k, <4>1, SendsTypes, UnhandledAre
    <3> QED BY <1>16, <1>t, <3>1 DEF HandlerFails
  <2>3. <<>> \in Seq(Messages)
    OBVIOUS
  <2> QED BY <1>16, <2>1, <2>2, <2>3 DEF HandlerFails, SetTypeOK
<1> QED
  BY <1>1, <1>2, <1>3, <1>4, <1>5, <1>6, <1>7, <1>8, <1>9, <1>10, <1>11, <1>12, <1>13, <1>14, <1>15, <1>16
  DEF SetNext, Screen

\* The fields.
LEMMA ScreenStep == SetInv /\ [SetNext]_setVars => ScreenKnown'
<1> SUFFICES ASSUME SetInv, [SetNext]_setVars PROVE ScreenKnown'
  OBVIOUS
<1>t. /\ store \in SettingValues /\ widget \in SettingValues /\ got \in SettingValues
      /\ wish \in SettingValues /\ scr \in {"closed", "asking", "sounds", "open"}
  BY DEF SetInv, SetTypeOK
<1>u. ScreenKnown
  BY DEF SetInv
<1> USE DEF paneVars, wishVars, SettingValues, Settings4, ScreenKnown
<1>1. CASE UNCHANGED setVars
  BY <1>1, <1>u DEF setVars
<1>2. CASE Opens
  <2>1. /\ \A k \in {"now", "both"} \ foreign : store[k] = wish[k]
        /\ "form" \notin foreign => Whole(store["form"]) = Whole(wish["form"])
    <3>1. msgs = <<>> /\ saving = "no"
      BY <1>2, <1>u DEF Opens
    <3>2. \A k : Unsent(k) = {}
      BY <3>1 DEF Unsent
    <3> QED BY <3>1, <3>2 DEF SetInv, SentKnown
  <2> QED BY <1>2, <1>u, <2>1 DEF Opens
<1>3. CASE Fills
  <2>1. got["form"] \in Stored
    BY <1>t
  <2>2. Whole(Whole(got["form"])) = Whole(got["form"])
    BY <2>1, WholeIsShown
  <2> QED BY <1>3, <1>t, <1>u, <2>2 DEF Fills
<1>4. CASE Lists
  BY <1>4, <1>t, <1>u DEF Lists, RefreshSounds
<1>5. CASE Closes
  BY <1>5, <1>u DEF Closes
<1>6. CASE HandleChange \/ Refuses
  BY <1>6, <1>u DEF HandleChange, Refuses, Takes1
<1>7. CASE Saves
  <2>1. /\ scr = "open" /\ edited \subseteq {"form", "sound"} /\ Whole(widget["form"]) = widget["form"]
        /\ scr' = scr /\ widget' = widget /\ edited' = {} /\ foreign' = foreign
        /\ \A k \in {"now", "both"} \ foreign : widget[k] = wish[k]
        /\ "form" \notin foreign \cup edited => widget["form"] = Whole(wish["form"])
    BY <1>7, <1>u DEF Saves, Takes1
  <2>2. \A k \in Settings4 : wish'[k] = IF k \in edited THEN widget[k] ELSE wish[k]
    BY <1>7 DEF Saves
  <2>3. \A k \in {"now", "both"} \ foreign : widget'[k] = wish'[k]
    BY <2>1, <2>2
  <2>4. "form" \notin foreign => widget'["form"] = Whole(wish'["form"])
    BY <2>1, <2>2
  <2> QED BY <2>1, <2>3, <2>4
<1>8. CASE ClearsSound
  BY <1>8, <1>u DEF ClearsSound
<1>9. CASE SavedSounds
  BY <1>9, <1>t, <1>u DEF SavedSounds, RefreshSounds
<1>10. CASE TakesBuiltin
  BY <1>10, <1>t, <1>u DEF TakesBuiltin, Takes1
<1>11. CASE ImportsSound
  BY <1>11, <1>t, <1>u DEF ImportsSound, Takes1
<1>12. ASSUME NEW k \in Settings4, Toggles(k) PROVE ScreenKnown'
  BY <1>12, <1>t, <1>u DEF Toggles
<1>13. ASSUME NEW k \in Settings4, Types(k) PROVE ScreenKnown'
  <2>1. Whole(sets') = sets'
    BY <1>13, WholeKept, SettingsAssumption DEF SetInv, SetTypeOK, Types, Counts
  <2> QED BY <1>13, <1>t, <1>u, <2>1 DEF Types
<1>14. ASSUME NEW k \in Settings4, OthersSet(k) PROVE ScreenKnown'
  BY <1>14, <1>t, <1>u DEF OthersSet
<1>15. ASSUME NEW o \in {"save", "builtin", "import"}, Presses(o) PROVE ScreenKnown'
  BY <1>15, <1>u DEF Presses
<1>16. CASE HandlerFails
  BY <1>16, <1>u DEF HandlerFails
<1> QED
  BY <1>1, <1>2, <1>3, <1>4, <1>5, <1>6, <1>7, <1>8, <1>9, <1>10, <1>11, <1>12, <1>13, <1>14, <1>15, <1>16
  DEF SetNext, Screen

\* The changes of a setting on their way: none is added, none is taken.
LEMMA SentStays ==
  ASSUME SentKnown, NEW k \in {"now", "both"} \ foreign, Unsent(k)' = Unsent(k),
         \A i \in Unsent(k) : msgs'[i] = msgs[i], wish'[k] = wish[k],
         Unsent(k) = {} => store'[k] \in {store[k], wish[k]}
  PROVE  /\ Unsent(k)' = {} => store'[k] = wish'[k]
         /\ \A i \in Unsent(k)' : msgs'[i].val = wish'[k] \/ \E j \in Unsent(k)' : j > i
BY DEF SentKnown

\* The first message is taken.
LEMMA SentTaken ==
  ASSUME SetTypeOK, SentKnown, NEW k \in {"now", "both"} \ foreign, NEW o, Takes1(o), wish'[k] = wish[k],
         store'[k] \in {store[k], wish[k]} \/ 1 \in Unsent(k),
         1 \in Unsent(k) => store'[k] = Head(msgs).val
  PROVE  /\ Unsent(k)' = {} => store'[k] = wish'[k]
         /\ \A i \in Unsent(k)' : msgs'[i].val = wish'[k] \/ \E j \in Unsent(k)' : j > i
<1>1. /\ 1 \in DOMAIN msgs /\ msgs[1] = Head(msgs)
      /\ DOMAIN msgs \subseteq Nat /\ DOMAIN msgs' \subseteq Nat
      /\ \A i \in DOMAIN msgs : i >= 1
      /\ \A i \in DOMAIN msgs' : i >= 1 /\ i + 1 \in DOMAIN msgs /\ msgs'[i] = msgs[i + 1]
      /\ \A i \in DOMAIN msgs : i # 1 => i - 1 \in DOMAIN msgs' /\ msgs'[i - 1] = msgs[i]
  BY MessageTaken
<1>2. \A i \in Unsent(k)' : i + 1 \in Unsent(k) /\ msgs'[i] = msgs[i + 1] /\ i \in Nat
  BY <1>1 DEF Unsent
<1>3. \A i \in Unsent(k) : i # 1 => i - 1 \in Unsent(k)' /\ i \in Nat /\ i >= 1
  BY <1>1 DEF Unsent
<1>4. \A i \in Unsent(k) : msgs[i].val = wish[k] \/ \E j \in Unsent(k) : j > i
  BY DEF SentKnown
<1>5. ASSUME Unsent(k)' = {} PROVE store'[k] = wish'[k]
  <2>1. CASE 1 \in Unsent(k)
    <3>1. \A j \in Unsent(k) : ~(j > 1)
      BY <1>3, <1>5
    <3>2. msgs[1].val = wish[k]
      BY <1>4, <2>1, <3>1
    <3> QED BY <1>1, <2>1, <3>2
  <2>2. CASE 1 \notin Unsent(k)
    <3>1. Unsent(k) = {}
      BY <1>3, <1>5, <2>2
    <3>2. store[k] = wish[k]
      BY <3>1 DEF SentKnown
    <3> QED BY <2>2, <3>2
  <2> QED BY <2>1, <2>2
<1>6. ASSUME NEW i \in Unsent(k)', msgs'[i].val # wish'[k] PROVE \E j \in Unsent(k)' : j > i
  <2>1. PICK j \in Unsent(k) : j > i + 1
    BY <1>2, <1>4, <1>6
  <2>2. j - 1 \in Unsent(k)' /\ j - 1 > i
    BY <1>2, <1>3, <2>1
  <2> QED BY <2>2
<1> QED
  BY <1>5, <1>6

\* The changes on their way, step by step.
LEMMA SentStep == SetInv /\ [SetNext]_setVars => SentKnown'
<1> SUFFICES ASSUME SetInv, [SetNext]_setVars PROVE SentKnown'
  OBVIOUS
<1>t. /\ store \in SettingValues /\ widget \in SettingValues /\ got \in SettingValues
      /\ wish \in SettingValues
  BY DEF SetInv, SetTypeOK
<1>u. SetTypeOK /\ ScreenKnown /\ SentKnown
  BY DEF SetInv
<1> DEFINE Fine(k) == /\ Unsent(k)' = {} => store'[k] = wish'[k]
                      /\ \A i \in Unsent(k)' : msgs'[i].val = wish'[k]
                                               \/ \E j \in Unsent(k)' : j > i
<1>g. ASSUME foreign \subseteq foreign',
             "form" \notin foreign' => Whole(store'["form"]) = Whole(wish'["form"]),
             \A k \in {"now", "both"} \ foreign' : Fine(k)
      PROVE  SentKnown'
  BY <1>g DEF SentKnown
<1>m. ASSUME UNCHANGED msgs, NEW k PROVE Unsent(k)' = Unsent(k)
  BY <1>m DEF Unsent
<1>a. ASSUME NEW m \in Messages, msgs' = Append(msgs, m), NEW k, m.do # "set" \/ m.key # k
      PROVE  Unsent(k)' = Unsent(k) /\ \A i \in Unsent(k) : msgs'[i] = msgs[i]
  <2>1. /\ Len(msgs) \in Nat /\ DOMAIN msgs = 1..Len(msgs) /\ DOMAIN msgs' = 1..(Len(msgs) + 1)
        /\ msgs'[Len(msgs) + 1] = m /\ \A i \in DOMAIN msgs : msgs'[i] = msgs[i]
    BY <1>u, <1>a, MessageAdded
  <2> QED BY <1>a, <2>1 DEF Unsent
<1>n. ASSUME UNCHANGED msgs, foreign \subseteq foreign',
             "form" \notin foreign' => Whole(store'["form"]) = Whole(wish'["form"]),
             \A k \in {"now", "both"} \ foreign' : wish'[k] = wish[k] /\ store'[k] \in {store[k], wish[k]}
      PROVE  SentKnown'
  <2>1. ASSUME NEW k \in {"now", "both"} \ foreign' PROVE Fine(k)
    BY <1>n, <1>m, <1>u, <2>1, SentStays
  <2> HIDE DEF Fine
  <2> QED BY <1>n, <1>g, <2>1
<1>f. "form" \notin foreign => Whole(store["form"]) = Whole(wish["form"])
  BY <1>u DEF SentKnown
<1> HIDE DEF Fine
<1> USE DEF paneVars, wishVars
<1>1. CASE UNCHANGED setVars
  BY <1>1, <1>n, <1>f DEF setVars
<1>2. CASE Opens \/ Closes
  BY <1>2, <1>n, <1>f DEF Opens, Closes
<1>3. CASE Fills
  <2>1. ASSUME NEW k \in {"now", "both"} \ foreign' PROVE Fine(k)
    <3>1. /\ \A i \in DOMAIN msgs' : msgs'[i].do = "set" /\ msgs'[i].val = got[msgs'[i].key]
          /\ msgs = <<>> /\ scr = "asking"
      BY <1>3, <1>u, FilledMessages DEF Fills, ScreenKnown
    <3>2. Unsent(k) = {}
      BY <3>1 DEF Unsent
    <3>3. store[k] = wish[k] /\ got[k] = wish[k] /\ k \in Settings4 \ foreign
      BY <1>3, <1>u, <2>1, <3>1, <3>2 DEF Fills, SentKnown, ScreenKnown, Settings4
    <3>4. \A i \in Unsent(k)' : msgs'[i].val = got[k]
      BY <3>1 DEF Unsent
    <3> QED BY <1>3, <3>3, <3>4 DEF Fills, Fine
  <2> QED BY <1>3, <1>g, <1>f, <2>1 DEF Fills
<1>4. CASE Lists
  BY <1>4, <1>n, <1>f DEF Lists, RefreshSounds
<1>5. CASE HandleChange
  <2>1. Takes1("set") /\ UNCHANGED <<wish, foreign>> /\ store' = Done(Head(msgs)) /\ msgs # <<>>
    BY <1>5 DEF HandleChange, Takes1
  <2>2. Head(msgs).key \in {"now", "both"} /\ msgs[1] = Head(msgs) /\ msgs[1].do = "set"
        /\ 1 \in DOMAIN msgs
    BY <1>u, <2>1, MessageTaken
  <2>v. \A k \in Settings4 : store'[k] = IF k = Head(msgs).key THEN Head(msgs).val ELSE store[k]
    BY <1>u, <2>1, <2>2, DoneValues
  <2>3. ASSUME NEW k \in {"now", "both"} \ foreign' PROVE Fine(k)
    <3>1. 1 \in Unsent(k) <=> Head(msgs).key = k
      BY <2>2 DEF Unsent
    <3>2. (Head(msgs).key = k => store'[k] = Head(msgs).val)
          /\ (Head(msgs).key # k => store'[k] = store[k])
      BY <2>v, <2>3 DEF Settings4
    <3> QED BY <1>u, <2>1, <2>3, <3>1, <3>2, SentTaken DEF Fine
  <2>4. store'["form"] = store["form"]
    BY <2>2, <2>v DEF Settings4
  <2> QED BY <1>g, <1>f, <2>1, <2>3, <2>4
<1>h. ASSUME NEW o \in {"save", "builtin", "import"}, Takes1(o), foreign \subseteq foreign',
             "form" \notin foreign' => Whole(store'["form"]) = Whole(wish'["form"]),
             \A k \in {"now", "both"} \ foreign' : wish'[k] = wish[k] /\ store'[k] \in {store[k], wish[k]}
      PROVE  SentKnown'
  <2>1. msgs[1].do # "set"
    BY <1>u, <1>h, MessageTaken
  <2>2. ASSUME NEW k \in {"now", "both"} \ foreign' PROVE Fine(k)
    <3>1. 1 \notin Unsent(k)
      BY <2>1 DEF Unsent
    <3> QED BY <1>u, <1>h, <2>2, <3>1, SentTaken DEF Fine
  <2> QED BY <1>h, <1>g, <2>2
<1>6. CASE Refuses
  BY <1>6, <1>h, <1>f DEF Refuses
<1>7. CASE Saves
  <2>1. /\ UNCHANGED foreign /\ Takes1("save") /\ scr = "open" /\ edited \subseteq {"form", "sound"}
        /\ msgs # <<>> /\ Head(msgs).do = "save"
    BY <1>7, <1>u DEF Saves, Takes1, ScreenKnown
  <2>2. \A k \in {"now", "both"} \ foreign : widget[k] = wish[k]
    BY <1>u, <2>1 DEF ScreenKnown
  <2>3. "form" \notin foreign \cup edited => Whole(widget["form"]) = Whole(wish["form"])
    <3>1. wish["form"] \in Stored
      BY <1>t DEF SettingValues, Settings4
    <3> QED BY <1>u, <2>1, <3>1, WholeIsShown DEF ScreenKnown
  <2>4. store'["now"] = store["now"] /\ store'["both"] = widget["both"] /\ store'["form"] = widget["form"]
    BY <1>7, <1>u, <2>1, DoneValues DEF Saves
  <2>5. \A k \in Settings4 : wish'[k] = IF k \in edited THEN widget[k] ELSE wish[k]
    BY <1>7 DEF Saves
  <2> QED BY <1>h, <2>1, <2>2, <2>3, <2>4, <2>5 DEF Settings4
<1>8. CASE ClearsSound
  <2>1. \A k \in {"now", "both", "form"} : store'[k] = store[k]
    BY <1>8, <1>t DEF ClearsSound, SettingValues, Settings4
  <2> QED BY <1>8, <1>n, <1>f, <2>1 DEF ClearsSound
<1>9. CASE SavedSounds
  BY <1>9, <1>n, <1>f DEF SavedSounds, RefreshSounds
<1>10. CASE TakesBuiltin
  <2>1. \A k \in {"now", "both", "form"} : store'[k] = store[k] /\ wish'[k] = wish[k]
    <3>1. msgs # <<>> /\ Head(msgs).do = "builtin" /\ store' = Done(Head(msgs))
          /\ wish' = [wish EXCEPT !["sound"] = 0]
      BY <1>10 DEF TakesBuiltin, Takes1
    <3>2. \A k \in Settings4 : store'[k] = IF k = "sound" THEN 0 ELSE store[k]
      BY <1>u, <3>1, DoneValues
    <3> QED BY <1>t, <3>1, <3>2 DEF SettingValues, Settings4
  <2> QED BY <1>10, <1>h, <1>f, <2>1 DEF TakesBuiltin
<1>11. CASE ImportsSound
  <2>1. foreign \subseteq foreign'
        /\ \A k \in {"now", "both", "form"} \ foreign' : store'[k] = store[k] /\ wish'[k] = wish[k]
    <3>1. msgs # <<>> /\ Head(msgs).do = "import"
      BY <1>11 DEF ImportsSound, Takes1
    <3>2. \A k \in Settings4 : Done(Head(msgs))[k] =
                 IF k \in {"sound", "both"} THEN Head(msgs).val ELSE store[k]
      BY <1>u, <3>1, DoneValues
    <3>3. \A k \in {"now", "both", "form"} : wish'[k] = wish[k]
      BY <1>11, <1>t DEF ImportsSound, SettingValues, Settings4
    <3>0. Sends(Head(msgs)) = {"sound", "both"}
      BY <3>1 DEF Sends
    <3>a. \/ store' = store /\ foreign' = foreign
          \/ store' = Done(Head(msgs)) /\ foreign' = foreign \cup {"sound", "both"}
          \/ store' = Done(Head(msgs)) /\ foreign' = foreign \cup {"both"}
      BY <1>11, <3>0 DEF ImportsSound
    <3>4. foreign \subseteq foreign' /\ (store' = store \/ (store' = Done(Head(msgs)) /\ "both" \in foreign'))
      BY <3>a
    <3> QED BY <3>2, <3>3, <3>4 DEF Settings4
  <2> QED BY <1>11, <1>h, <1>f, <2>1 DEF ImportsSound
<1>12. ASSUME NEW k \in Settings4, Toggles(k) PROVE SentKnown'
  <2>1. /\ k \in {"now", "both"} /\ wish' = [wish EXCEPT ![k] = sets']
        /\ msgs' = Append(msgs, Changed(k, sets')) /\ UNCHANGED <<store, foreign>>
    BY <1>12 DEF Toggles
  <2>2. sets' \in 0..MaxSets
    BY <1>12, <1>u, SettingsAssumption DEF Toggles, Counts, SetTypeOK
  <2>3. /\ Changed(k, sets') \in Messages
        /\ Changed(k, sets').do = "set" /\ Changed(k, sets').key = k /\ Changed(k, sets').val = sets'
    BY <2>1, <2>2, NumbersStored DEF Changed, Messages
  <2>4. ASSUME NEW l \in {"now", "both"} \ foreign' PROVE Fine(l)
    <3>1. CASE l = k
      <4>1. /\ Len(msgs) \in Nat /\ DOMAIN msgs' = 1..(Len(msgs) + 1)
            /\ msgs'[Len(msgs) + 1] = Changed(k, sets')
        BY <1>u, <2>1, <2>3, MessageAdded
      <4>2. wish'[l] = sets'
        BY <1>t, <2>1, <3>1 DEF SettingValues
      <4>3. Len(msgs) + 1 \in Unsent(l)' /\ msgs'[Len(msgs) + 1].val = wish'[l]
        BY <2>3, <3>1, <4>1, <4>2 DEF Unsent
      <4>4. \A i \in Unsent(l)' : i = Len(msgs) + 1 \/ Len(msgs) + 1 > i
        BY <4>1 DEF Unsent
      <4> QED BY <4>3, <4>4 DEF Fine
    <3>2. CASE l # k
      <4>1. wish'[l] = wish[l]
        BY <1>t, <2>1, <3>2 DEF SettingValues
      <4>2. Unsent(l)' = Unsent(l) /\ \A i \in Unsent(l) : msgs'[i] = msgs[i]
        BY <1>a, <2>1, <2>3, <3>2
      <4> QED BY <1>u, <2>1, <2>4, <4>1, <4>2, SentStays DEF Fine
    <3> QED BY <3>1, <3>2
  <2>5. wish'["form"] = wish["form"]
    BY <1>t, <2>1 DEF SettingValues, Settings4
  <2> QED BY <1>g, <1>f, <2>1, <2>4, <2>5
<1>13. ASSUME NEW k \in Settings4, Types(k) PROVE SentKnown'
  BY <1>13, <1>n, <1>f DEF Types
<1>14. ASSUME NEW k \in Settings4, OthersSet(k) PROVE SentKnown'
  <2>1. /\ UNCHANGED <<msgs, scr>> /\ foreign \subseteq foreign'
        /\ \E v : store' = [store EXCEPT ![k] = v] /\ wish' = [wish EXCEPT ![k] = v]
        /\ scr # "closed" => k \in foreign'
    BY <1>14 DEF OthersSet
  <2>2. \A l \in Settings4 \ {k} : store'[l] = store[l] /\ wish'[l] = wish[l]
    BY <1>t, <2>1 DEF SettingValues
  <2>3. store'[k] = wish'[k]
    BY <1>t, <1>14, <2>1 DEF SettingValues
  <2>4. ASSUME NEW l \in {"now", "both"} \ foreign' PROVE Fine(l)
    <3>1. CASE l = k
      <4>1. msgs' = <<>>
        BY <1>u, <2>1, <2>4, <3>1 DEF ScreenKnown, SetTypeOK
      <4>2. Unsent(l)' = {}
        BY <4>1 DEF Unsent
      <4> QED BY <2>3, <3>1, <4>2 DEF Fine
    <3>2. CASE l # k
      <4>1. wish'[l] = wish[l] /\ store'[l] = store[l]
        BY <2>2, <2>4, <3>2 DEF Settings4
      <4> QED BY <1>u, <1>m, <2>1, <2>4, <4>1, SentStays DEF Fine
    <3> QED BY <3>1, <3>2
  <2>5. "form" \notin foreign' => Whole(store'["form"]) = Whole(wish'["form"])
    BY <1>f, <2>1, <2>2, <2>3 DEF Settings4
  <2> QED BY <1>g, <2>1, <2>4, <2>5
<1>15. ASSUME NEW o \in {"save", "builtin", "import"}, Presses(o) PROVE SentKnown'
  <2>1. UNCHANGED <<store, wish, foreign>>
    BY <1>15 DEF Presses
  <2>2. sets' \in 0..MaxSets
    BY <1>15, <1>u, SettingsAssumption DEF Presses, Counts, SetTypeOK
  <2>3. PICK m \in Messages : msgs' = Append(msgs, m) /\ m.do # "set"
    BY <1>15, <2>2, NumbersStored DEF Presses, Press, Messages
  <2>4. ASSUME NEW k \in {"now", "both"} \ foreign' PROVE Fine(k)
    BY <1>u, <1>a, <2>1, <2>3, <2>4, SentStays DEF Fine
  <2> QED BY <1>g, <1>f, <2>1, <2>4
<1>16. CASE HandlerFails
  <2>1. ASSUME NEW k \in {"now", "both", "form"} \ foreign'
        PROVE  store'[k] = store[k] /\ Unsent(k) = {} /\ Unsent(k)' = {} /\ wish'[k] = wish[k]
               /\ k \notin foreign
    <3>1. k \in Settings4 /\ foreign \subseteq foreign' /\ msgs' = <<>> /\ wish' = wish
      BY <1>16, <2>1 DEF HandlerFails, Settings4
    <3>2. ASSUME NEW i \in DOMAIN msgs PROVE k \notin Sends(msgs[i])
      BY <1>16, <2>1, <3>2, UnhandledAre DEF HandlerFails
    <3>3. Unsent(k) = {}
      BY <3>2 DEF Unsent, Sends
    <3>4. Unsent(k)' = {}
      BY <3>1 DEF Unsent
    <3>5. [store EXCEPT !["sound"] = 0][k] = store[k]
      BY <1>t, <2>1 DEF SettingValues, Settings4
    <3>6. msgs # <<>> => Done(Head(msgs))[k] = store[k]
      <4>1. msgs # <<>> => 1 \in DOMAIN msgs /\ msgs[1] = Head(msgs)
        BY <1>u DEF SetTypeOK
      <4> QED BY <1>u, <3>1, <3>2, <4>1, DoneElsewhere
    <3>7. store'[k] = store[k]
      BY <1>16, <3>5, <3>6 DEF HandlerFails
    <3> QED BY <3>1, <3>3, <3>4, <3>7, <2>1
  <2>2. \A k \in {"now", "both"} \ foreign' : Fine(k)
    BY <1>u, <2>1 DEF SentKnown, Fine
  <2>3. "form" \notin foreign' => Whole(store'["form"]) = Whole(wish'["form"])
    BY <1>f, <2>1
  <2>4. foreign \subseteq foreign'
    BY <1>16 DEF HandlerFails
  <2> QED BY <1>g, <2>2, <2>3, <2>4
<1> QED
  BY <1>1, <1>2, <1>3, <1>4, <1>5, <1>6, <1>7, <1>8, <1>9, <1>10, <1>11, <1>12, <1>13, <1>14, <1>15, <1>16
  DEF SetNext, Screen

\* The sound.
LEMMA SoundStep == SetInv /\ [SetNext]_setVars => SoundKnown'
<1> SUFFICES ASSUME SetInv, [SetNext]_setVars PROVE SoundKnown'
  OBVIOUS
<1>t. /\ store \in SettingValues /\ widget \in SettingValues /\ wish \in SettingValues
      /\ saving \in {"no", "clear", "list"}
  BY DEF SetInv, SetTypeOK
<1>u. SoundKnown /\ (scr # "open" => saving = "no")
  BY DEF SetInv, ScreenKnown
<1> USE DEF paneVars, wishVars, SettingValues, Settings4, SoundKnown
<1>1. CASE UNCHANGED setVars
  BY <1>1, <1>u DEF setVars
<1>2. CASE Opens \/ Closes
  BY <1>2, <1>u DEF Opens, Closes
<1>3. CASE Fills
  BY <1>3, <1>t, <1>u DEF Fills
<1>4. CASE Lists
  BY <1>4, <1>t, <1>u DEF Lists, RefreshSounds
<1>5. CASE HandleChange
  <2>1. Head(msgs).key \in {"now", "both"} /\ msgs # <<>> /\ Head(msgs).do = "set"
        /\ store' = Done(Head(msgs))
    BY <1>5, MessageTaken DEF HandleChange, SetInv, Takes1
  <2>2. store'["sound"] = store["sound"]
    BY <2>1, DoneValues DEF SetInv
  <2> QED BY <1>5, <1>u, <2>2 DEF HandleChange, Takes1
<1>6. CASE Refuses
  BY <1>6, <1>u DEF Refuses, Takes1
<1>7. CASE Saves
  <2>1. store'["sound"] = IF widget["sound"] # 0 THEN widget["sound"] ELSE store["sound"]
    BY <1>7, DoneValues DEF Saves, SetInv, Takes1
  <2>2. wish'["sound"] = IF "sound" \in edited THEN widget["sound"] ELSE wish["sound"]
    BY <1>7 DEF Saves
  <2> QED BY <1>7, <1>u, <2>1, <2>2 DEF Saves, Takes1
<1>8. CASE ClearsSound
  BY <1>8, <1>t, <1>u DEF ClearsSound
<1>9. CASE SavedSounds
  BY <1>9, <1>t, <1>u DEF SavedSounds, RefreshSounds
<1>10. CASE TakesBuiltin
  <2>1. store'["sound"] = 0
    BY <1>10, DoneValues DEF TakesBuiltin, SetInv, Takes1
  <2> QED BY <1>10, <1>t, <1>u, <2>1 DEF TakesBuiltin, Takes1
<1>11. CASE ImportsSound
  <2>1. Done(Head(msgs))["sound"] = Head(msgs).val
    BY <1>11, DoneValues DEF ImportsSound, SetInv, Takes1
  <2>2. Takes1("import") => "sound" \in Sends(Head(msgs))
    BY DEF Takes1, Sends
  <2> QED BY <1>11, <1>t, <1>u, <2>1, <2>2 DEF ImportsSound, Takes1
<1>12. ASSUME NEW k \in Settings4, Toggles(k) PROVE SoundKnown'
  BY <1>12, <1>t, <1>u DEF Toggles
<1>13. ASSUME NEW k \in Settings4, Types(k) PROVE SoundKnown'
  BY <1>13, <1>t, <1>u DEF Types
<1>14. ASSUME NEW k \in Settings4, OthersSet(k) PROVE SoundKnown'
  BY <1>14, <1>t, <1>u DEF OthersSet
<1>15. ASSUME NEW o \in {"save", "builtin", "import"}, Presses(o) PROVE SoundKnown'
  BY <1>15, <1>u DEF Presses
<1>16. CASE HandlerFails
  <2> SUFFICES ASSUME "sound" \notin foreign' PROVE store'["sound"] = wish'["sound"]
    BY <1>16 DEF HandlerFails
  <2>1. saving # "clear" /\ "sound" \notin foreign /\ wish' = wish
    <3>1. foreign' = foreign \cup Unhandled /\ wish' = wish
      BY <1>16 DEF HandlerFails
    <3>2. saving = "clear" => "sound" \in Unhandled
      BY UnhandledAre, Zenon
    <3> HIDE DEF SoundKnown
    <3> QED BY <3>1, <3>2
  <2>2. ASSUME msgs # <<>> PROVE Done(Head(msgs))["sound"] = store["sound"]
    <3>1. 1 \in DOMAIN msgs /\ msgs[1] = Head(msgs) /\ SetTypeOK
      BY <2>2 DEF SetInv, SetTypeOK
    <3>2. "sound" \notin Sends(Head(msgs))
      BY <1>16, <3>1, UnhandledAre DEF HandlerFails
    <3> QED BY <2>2, <3>1, <3>2, DoneElsewhere
  <2>3. store'["sound"] = store["sound"]
    BY <1>16, <2>1, <2>2 DEF HandlerFails
  <2> QED BY <1>u, <2>1, <2>3
<1> QED
  BY <1>1, <1>2, <1>3, <1>4, <1>5, <1>6, <1>7, <1>8, <1>9, <1>10, <1>11, <1>12, <1>13, <1>14, <1>15, <1>16
  DEF SetNext, Screen

\* The invariant holds at the beginning, and then always.
LEMMA SetStarts == SetInit => SetInv
<1> SUFFICES ASSUME SetInit PROVE SetInv
  OBVIOUS
<1>1. \A k : Unsent(k) = {}
  BY DEF SetInit, Unsent
<1>2. 0 \in 0..MaxSets /\ 0 \in Stored
  BY NumbersStored
<1>3. SetTypeOK
  BY <1>2 DEF SetInit, SetTypeOK, SettingValues
<1> QED
  BY <1>1, <1>3 DEF SetInit, SetInv, ScreenKnown, SentKnown, SoundKnown, Settings4

LEMMA SetInductive == SetSpec => []SetInv
<1>1. SetInv /\ [SetNext]_setVars => SetInv'
  BY SetTypeStep, ScreenStep, SentStep, SoundStep DEF SetInv
<1> QED
  BY <1>1, SetStarts, PTL DEF SetSpec

\* The variables of the settings screen and of the configuration it shows keep
\* their types.
THEOREM SetTypeCorrect == SetSpec => []SetTypeOK
<1>1. SetInv => SetTypeOK
  BY DEF SetInv
<1> QED
  BY <1>1, SetInductive, PTL

\* Whatever the screen sends by itself when it opens, and whatever a Save sends
\* along, every setting outside the exceptions of SettingsKept is, once the screen
\* has handled its messages, as it was chosen last, the volume to the whole
\* percentage: for any number of changes.
THEOREM SettingsAlwaysKept == SetSpec => []SettingsKept
<1>1. SetInv => SettingsKept
  <2> SUFFICES ASSUME SetInv, msgs = <<>>, saving = "no", NEW k \in Settings4 \ foreign
               PROVE  Whole(store[k]) = Whole(wish[k])
    BY DEF SettingsKept
  <2>1. Unsent(k) = {}
    BY DEF Unsent
  <2> QED BY <2>1 DEF SetInv, SentKnown, SoundKnown, Settings4
<1> QED
  BY <1>1, SetInductive, PTL

-----------------------------------------------------------------------------
(***************************************************************************)
(* The parts, side by side as the run Parts checks them, one of which moves: *)
(* it is a run of each of them, and every variable has its type.           *)
(***************************************************************************)

partsVars == <<part, dashVars, lifeVars, confVars, pillVars, injVars,
               sttVars, provVars, textVars, setVars, doctorVars>>

\* What the parts do, each seen by itself.
PartsSteps ==
    /\ UNCHANGED part
    /\ [DashNext]_dashVars /\ [LifeNext]_lifeVars /\ [ConfNext]_confVars
    /\ [PillNext]_pillVars /\ [InjNext]_injVars /\ [SttNext]_sttVars
    /\ [ProvNext]_provVars /\ [TextNext]_textVars /\ [SetNext]_setVars
    /\ [DoctorNext]_doctorVars

\* Nothing has been said.
LEMMA EmptyTranscript ==
  ASSUME raw = <<>>, text = <<>>, did = "none", passes = {}
  PROVE  TextInit
<1> DEFINE ts == <<>>
<1>1. ts \in Seq(Spoken \cup {"."}) /\ Len(ts) = 0 /\ ts \in [1..0 -> Spoken \cup {"."}]
  OBVIOUS
<1>2. Spaced(ts) = <<>>
  BY <1>1, SpacedType
<1>3. 0 \in 0..MaxText
  <2>1. MaxText \in Nat
    BY TextAssumption
  <2> QED BY <2>1
<1> HIDE DEF ts
<1>4. raw = Spaced(ts)
  BY <1>2
<1>5. \E n \in 0..MaxText : \E us \in [1..n -> Spoken \cup {"."}] : raw = Spaced(us)
  BY <1>1, <1>3, <1>4
<1>6. passes \in SUBSET {"fillers", "repeats", "space", "duplicates", "punctuation"}
  OBVIOUS
<1> QED BY <1>5, <1>6 DEF TextInit

LEMMA PartsInits ==
  PartsInit => /\ part \in Parts
               /\ DashInit /\ LifeInit /\ ConfInit /\ PillInit /\ InjInit
               /\ SttInit /\ ProvInit /\ TextInit /\ SetInit /\ DoctorInit
BY EmptyTranscript DEF PartsInit

LEMMA PartsStepwise == [PartsNext]_partsVars => PartsSteps
<1>1. CASE PartsNext
  BY <1>1 DEF PartsNext, PartsSteps
<1>2. CASE UNCHANGED partsVars
  BY <1>2 DEF partsVars, PartsSteps
<1> QED BY <1>1, <1>2

\* A behaviour of the run in which the parts stand side by side is one of each of them:
\* what is proved of a part holds in the run.
THEOREM EachPart ==
  PartsSpec => /\ DashSpec /\ LifeSpec /\ ConfSpec /\ PillSpec /\ InjSpec
               /\ SttSpec /\ ProvSpec /\ TextSpec /\ SetSpec /\ DoctorSpec
<1>1. PartsSpec => PartsInit /\ [][PartsNext]_partsVars
  BY PTL DEF PartsSpec, partsVars
<1>2. PartsSteps => /\ [DashNext]_dashVars /\ [LifeNext]_lifeVars /\ [ConfNext]_confVars
                    /\ [PillNext]_pillVars /\ [InjNext]_injVars /\ [SttNext]_sttVars
                    /\ [ProvNext]_provVars /\ [TextNext]_textVars /\ [SetNext]_setVars
                    /\ [DoctorNext]_doctorVars
  BY DEF PartsSteps
<1> QED BY <1>1, <1>2, PartsInits, PartsStepwise, PTL
         DEF DashSpec, LifeSpec, ConfSpec, PillSpec, InjSpec, SttSpec, ProvSpec, TextSpec,
             SetSpec, DoctorSpec

\* The part that moves stays the same one.
LEMMA PartStays == PartsSpec => [](part \in Parts)
<1>1. PartsInit => part \in Parts
  BY PartsInits
<1>2. part \in Parts /\ [PartsNext]_partsVars => (part \in Parts)'
  BY PartsStepwise DEF PartsSteps
<1> QED BY <1>1, <1>2, PTL DEF PartsSpec, partsVars

\* Whatever part moves, the variables of all of them have their types.
THEOREM PartsTypeCorrect == PartsSpec => []PartsTypeOK
<1>1. /\ part \in Parts
      /\ DashTypeOK /\ LifeTypeOK /\ ConfTypeOK /\ PillTypeOK /\ InjTypeOK
      /\ SttTypeOK /\ ProvTypeOK /\ TextTypeOK /\ SetTypeOK /\ DoctorTypeOK
      => PartsTypeOK
  BY DEF PartsTypeOK
<1> QED BY <1>1, PartStays, EachPart, DashTypeCorrect, LifeTypeCorrect, ConfTypeCorrect,
           PillTypeCorrect, InjTypeCorrect, SttTypeCorrect, ProvTypeCorrect, TextTypeCorrect,
           SetTypeCorrect, DoctorTypeCorrect, PTL

=============================================================================
