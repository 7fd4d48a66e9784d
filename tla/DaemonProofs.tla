---------------------------- MODULE DaemonProofs ----------------------------
(***************************************************************************)
(* The daemon around a dictation: its processes (DaemonLifecycle), its     *)
(* dock pill (PillHost) and its configuration (DaemonConfig).              *)
(***************************************************************************)
EXTENDS DaemonLifecycle, PillHost, DaemonConfig, SequenceTheorems, TLAPS

-----------------------------------------------------------------------------
(***************************************************************************)
(* For any number of processes and commands: the files and the processes   *)
(* have their types, and the daemon that serves is the one that            *)
(* daemon.json names.  By itself that does not last: a second daemon that  *)
(* has passed the check would remove the file.  The invariant says that    *)
(* none has.                                                               *)
(***************************************************************************)

\* A process that has passed acquire's check and has not released yet.
Holding == {"clear", "lock", "bind", "serving", "stopping"}

OneHolds ==
    \A p, q \in Pids : proc[p] \in Holding /\ proc[q] \in Holding => p = q

LifeInv == LifeTypeOK /\ (overlap \/ OneHolds) /\ ServerIsNamed

\* Every process is at a place of the model, and the files name processes.
LEMMA LifeTypeStep == LifeTypeOK /\ [LifeNext]_lifeVars => LifeTypeOK'
<1> SUFFICES ASSUME LifeTypeOK, [LifeNext]_lifeVars PROVE LifeTypeOK'
    OBVIOUS
<1> USE DEF LifeTypeOK, Starting, filesVars
<1>1. CASE UNCHANGED lifeVars
  BY <1>1 DEF lifeVars
<1>2. ASSUME NEW p \in Pids, Check(p) \/ Clear(p) \/ WriteLock(p) \/ Serve(p) PROVE LifeTypeOK'
  BY <1>2 DEF Check, Clear, WriteLock, Serve, Busy, Running
<1>3. ASSUME NEW p \in Pids, Signal(p) \/ StopServing(p) \/ Release(p) \/ Exit(p) \/ Reuse(p)
      PROVE  LifeTypeOK'
  BY <1>3 DEF Signal, StopServing, Release, Exit, Reuse
<1>4. ASSUME NEW c \in Clis, Command(c) \/ Drained(c) \/ Spawn(c) \/ Ready(c) PROVE LifeTypeOK'
  BY <1>4 DEF Command, Drained, Spawn, Ready
<1>5. ASSUME NEW c \in Clis, AskStop(c) PROVE LifeTypeOK'
  BY <1>5 DEF AskStop, Running
<1> QED
  BY <1>1, <1>2, <1>3, <1>4, <1>5 DEF LifeNext, Daemon, Cli

\* A process that passes the check when none is between the check and its file
\* is the only one to hold: the file names the one that serves, and it lives.
LEMMA CheckAlone ==
  ASSUME LifeInv, NEW p \in Pids, Check(p), ~overlap', NEW q \in Pids, q # p,
         proc[q] \in Holding
  PROVE  proc'[p] = "gone"
<1>1. proc[q] \notin {"clear", "lock", "bind"}
  BY DEF Check, Busy, LifeInv, LifeTypeOK
<1>2. info = q
  BY <1>1 DEF Holding, LifeInv, ServerIsNamed, Check
<1>3. Running
  BY <1>1, <1>2, PidsAssumption DEF Running, Alive, Holding
<1> QED
  BY <1>3 DEF Check, LifeInv, LifeTypeOK

\* One holds at most, and if it serves the file names it.
LEMMA LifeStep == LifeInv /\ [LifeNext]_lifeVars => LifeInv'
<1> SUFFICES ASSUME LifeInv, [LifeNext]_lifeVars PROVE LifeInv'
    OBVIOUS
<1>t. LifeTypeOK /\ LifeTypeOK'
  BY LifeTypeStep DEF LifeInv
<1> DEFINE IsNamed == (overlap \/ OneHolds)' /\ ServerIsNamed'
<1> SUFFICES IsNamed
  BY <1>t DEF LifeInv
<1> USE DEF LifeTypeOK, Starting, Holding, OneHolds, ServerIsNamed, filesVars
<1>1. CASE UNCHANGED lifeVars
  BY <1>1 DEF LifeInv, lifeVars
<1>2. ASSUME NEW p \in Pids, Check(p) PROVE IsNamed
  <2>1. CASE overlap'
    BY <2>1
  <2>2. CASE ~overlap'
    <3>1. ~overlap /\ info' = info /\ \A q \in Pids : q # p => proc'[q] = proc[q]
      BY <1>2, <1>t, <2>2 DEF Check
    <3>2. proc'[p] \in {"gone", "clear"}
      BY <1>2, <1>t DEF Check
    <3>3. \A q \in Pids \ {p} : proc[q] \in Holding => proc'[p] = "gone"
      BY <1>2, <2>2, CheckAlone
    <3> QED
      BY <3>1, <3>2, <3>3 DEF LifeInv
  <2> QED
    BY <2>1, <2>2
<1>3. ASSUME NEW p \in Pids, Clear(p) PROVE IsNamed
  BY <1>3, <1>t DEF Clear, LifeInv
<1>4. ASSUME NEW p \in Pids, WriteLock(p) PROVE IsNamed
  BY <1>4, <1>t DEF WriteLock, LifeInv
<1>5. ASSUME NEW p \in Pids, Serve(p) PROVE IsNamed
  BY <1>5, <1>t DEF Serve, LifeInv
<1>6. ASSUME NEW p \in Pids, Signal(p) PROVE IsNamed
  BY <1>6, <1>t DEF Signal, LifeInv
<1>7. ASSUME NEW p \in Pids, StopServing(p) PROVE IsNamed
  BY <1>7, <1>t DEF StopServing, LifeInv
<1>8. ASSUME NEW p \in Pids, Release(p) PROVE IsNamed
  BY <1>8, <1>t DEF Release, LifeInv
<1>9. ASSUME NEW p \in Pids, Exit(p) \/ Reuse(p) PROVE IsNamed
  BY <1>9, <1>t DEF Exit, Reuse, LifeInv
<1>10. ASSUME NEW c \in Clis, Command(c) \/ Drained(c) \/ Ready(c) \/ AskStop(c) PROVE IsNamed
  BY <1>10, <1>t DEF Command, Drained, Ready, AskStop, LifeInv
<1>11. ASSUME NEW c \in Clis, Spawn(c) PROVE IsNamed
  BY <1>11, <1>t DEF Spawn, LifeInv
<1> QED
  BY <1>1, <1>2, <1>3, <1>4, <1>5, <1>6, <1>7, <1>8, <1>9, <1>10, <1>11
     DEF LifeNext, Daemon, Cli

\* The places of the processes and commands, and the contents of daemon.lock and
\* daemon.json, are always of their types.
THEOREM LifeTypeCorrect == LifeSpec => []LifeTypeOK
<1>1. LifeInit => LifeTypeOK
  BY DEF LifeInit, LifeTypeOK, Starting
<1> QED
  BY <1>1, LifeTypeStep, PTL DEF LifeSpec

\* However many daemons are started, stopped, killed and started again, the one
\* that serves is the one that daemon.json names, unless two were starting at
\* the same time (ipc/single_instance.py).
THEOREM ServerAlwaysNamed == LifeSpec => []ServerIsNamed
<1>1. LifeInit => LifeInv
  BY DEF LifeInit, LifeInv, LifeTypeOK, Starting, OneHolds, Holding, ServerIsNamed
<1>2. LifeInv => ServerIsNamed
  BY DEF LifeInv
<1> QED
  BY <1>1, <1>2, LifeStep, PTL DEF LifeSpec

-----------------------------------------------------------------------------
(***************************************************************************)
(* For any number of calls and of deaths of the pill's process: the types, *)
(* and that the pill shows what the daemon asked for last.  The invariant  *)
(* follows the commands on their way from the caller to the window as one  *)
(* sequence.                                                               *)
(***************************************************************************)

\* What has been read is a command.
HandTyped == hand # NoHand => hand.cmd \in Commands

PillTyped == PillTypeOK /\ HandTyped

\* The commands that are still to be carried out, the next one first.
ReadyHand == IF hand.ready THEN <<hand.cmd>> ELSE <<>>
Way == (queue \o ReadyHand) \o pipe

\* Until the process is ready nothing but the settings is on its way.
OnlySettings ==
    wrapper = "spawning" =>
        /\ win = Gone /\ ~timer /\ ~hasty
        /\ \A i \in DOMAIN pipe : pipe[i] = "config"
        /\ \A i \in DOMAIN todo : todo[i] = "config"
        /\ \A i \in DOMAIN pend : pend[i] = "config"
        /\ \A i \in DOMAIN queue : queue[i] = "config"
        /\ hand.cmd \in {"none", "config"}

\* Afterwards the last command is what the daemon asked for last, and a phase
\* comes only to a window that is, or will be, shown.
WayLeads ==
    wrapper = "up" /\ host = "ready" =>
        /\ Way = <<>> => /\ win.slid = (want # "hide")
                         /\ want = "show" => win.phase = "listening"
                         /\ want = "processing" => win.phase = "processing"
        /\ Way # <<>> => Way[Len(Way)] = want
        /\ \A i \in DOMAIN Way : Way[i] = "processing" =>
              IF i = 1 THEN win.slid ELSE Way[i - 1] \in {"show", "processing"}

\* The window goes when its timer ends.
TimerKnown ==
    /\ timer /\ win.slid => hasty
    /\ ~timer => win.visible = (win.slid /\ ~hasty)

PillInv ==
    /\ PillTyped
    /\ wrapper = "none" => host \in {"none", "dead"}
    /\ wrapper = "up" => host \in {"ready", "dead"}
    /\ OnlySettings /\ WayLeads /\ TimerKnown

-----------------------------------------------------------------------------
\* The variables keep their types.
LEMMA PillTypeStep == PillTyped /\ [PillNext]_pillVars => PillTyped'
<1> SUFFICES ASSUME PillTyped, [PillNext]_pillVars PROVE PillTyped'
  OBVIOUS
<1> USE DEF PillTyped, PillTypeOK, HandTyped, wrapVars, wayVars, winVars
<1>a. /\ {"config", "show", "processing", "hide"} = Commands
      /\ <<>> \in Seq(Commands) /\ <<"config">> \in Seq(Commands)
      /\ NoHand \in [cmd : Commands \cup {"none"}, ready : BOOLEAN]
      /\ Gone \in [slid : BOOLEAN, visible : BOOLEAN, phase : {"listening", "processing"}]
  BY DEF Commands, NoHand, Gone
<1>b. /\ Call => calls' \in 0..MaxCalls
      /\ deaths < MaxDeaths => deaths + 1 \in 0..MaxDeaths
  BY PillAssumption DEF Call
<1>c. ASSUME NEW s \in Seq(Commands), s # <<>>
      PROVE  Head(s) \in Commands /\ Tail(s) \in Seq(Commands)
  BY <1>c
<1>d. ASSUME NEW s \in Seq(Commands), NEW c \in Commands PROVE Append(s, c) \in Seq(Commands)
  OBVIOUS
<1>1. CASE UNCHANGED pillVars
  BY <1>1 DEF pillVars
<1>2. CASE Show
  BY <1>2, <1>a, <1>b, <1>d DEF Show, Send
<1>3. CASE ShowSpawns
  BY <1>3, <1>a, <1>b DEF ShowSpawns
<1>4. CASE Spawned
  BY <1>4, <1>a, <1>d DEF Spawned
<1>5. CASE SpawnFails
  BY <1>5 DEF SpawnFails
<1>6. CASE Shutdown
  BY <1>6, <1>a, <1>b DEF Shutdown, Fresh
<1>7. ASSUME NEW c \in Commands, Tell(c) PROVE PillTyped'
  BY <1>7, <1>a, <1>b, <1>d DEF Tell, Send
<1>8. CASE Reads
  BY <1>8, <1>c DEF Reads
<1>9. CASE Puts
  <2>1. hand.cmd \in Commands
    BY <1>9 DEF Puts
  <2>2. queue' \in Seq(Commands) /\ pend' \in Seq(Commands)
    BY <1>9, <1>d, <2>1 DEF Puts
  <2> QED BY <1>9, <1>a, <2>2 DEF Puts
<1>10. CASE Loads
  BY <1>10, <1>a DEF Loads
<1>o. ASSUME NEW c \in Commands, Obey(c)
      PROVE  /\ win' \in [slid : BOOLEAN, visible : BOOLEAN, phase : {"listening", "processing"}]
             /\ timer' \in BOOLEAN /\ applied' \in BOOLEAN /\ hasty' \in BOOLEAN
  BY <1>o DEF Obey, Commands
<1>11. CASE Catches
  BY <1>11, <1>c, <1>o DEF Catches
<1>12. CASE GetsReady
  BY <1>12 DEF GetsReady
<1>13. CASE Drains
  BY <1>13, <1>c, <1>o DEF Drains
<1>14. CASE FinishHide
  BY <1>14 DEF FinishHide
<1>15. CASE Dies
  BY <1>15, <1>a, <1>b DEF Dies, Fresh
<1> QED
  BY <1>1, <1>2, <1>3, <1>4, <1>5, <1>6, <1>7, <1>8, <1>9, <1>10, <1>11, <1>12, <1>13,
     <1>14, <1>15
  DEF PillNext, Wrapper, HostProcess

-----------------------------------------------------------------------------
\* What happens to the commands on their way.
LEMMA WayTyped == ASSUME PillTyped PROVE Way \in Seq(Commands) /\ ReadyHand \in Seq(Commands)
<1>1. hand.ready => hand.cmd \in Commands
  BY DEF PillTyped, HandTyped, NoHand
<1> QED BY <1>1 DEF PillTyped, PillTypeOK, Way, ReadyHand

LEMMA WaySent ==
  ASSUME PillTyped, NEW c \in Commands, pipe' = Append(pipe, c),
         UNCHANGED <<hand, queue>>
  PROVE  Way' = Append(Way, c)
<1>1. /\ queue \in Seq(Commands) /\ pipe \in Seq(Commands) /\ <<c>> \in Seq(Commands)
      /\ Way \in Seq(Commands) /\ ReadyHand \in Seq(Commands)
  BY WayTyped DEF PillTyped, PillTypeOK
<1>2. queue \o ReadyHand \in Seq(Commands)
  BY <1>1, ConcatProperties
<1>3. Append(pipe, c) = pipe \o <<c>> /\ Append(Way, c) = Way \o <<c>>
  BY <1>1, AppendIsConcat
<1>4. Way' = (queue \o ReadyHand) \o (pipe \o <<c>>)
  BY <1>3 DEF Way, ReadyHand
<1> DEFINE ahead == queue \o ReadyHand
<1>5. ahead \in Seq(Commands) /\ Way = ahead \o pipe /\ Way' = ahead \o (pipe \o <<c>>)
  BY <1>2, <1>4 DEF Way
<1>6. ahead \o (pipe \o <<c>>) = (ahead \o pipe) \o <<c>>
  <2> HIDE DEF ahead
  <2> QED BY <1>1, <1>5, ConcatAssociative
<1> QED
  BY <1>3, <1>5, <1>6

LEMMA WayRead ==
  ASSUME PillTyped, Reads, host = "ready"
  PROVE  Way' = Way
<1>1. /\ pipe \in Seq(Commands) /\ pipe # <<>> /\ queue \in Seq(Commands)
      /\ Head(pipe) \in Commands /\ Tail(pipe) \in Seq(Commands)
      /\ pipe = <<Head(pipe)>> \o Tail(pipe)
  BY ConcatSimplifications DEF PillTyped, PillTypeOK, Reads
<1>2. ~hand.ready /\ ReadyHand = <<>> /\ ReadyHand' = <<Head(pipe)>>
  BY DEF Reads, NoHand, ReadyHand
<1>3. /\ Way = queue \o pipe
      /\ Way' = (queue \o <<Head(pipe)>>) \o Tail(pipe)
  BY <1>1, <1>2, ConcatEmptySeq DEF Way, Reads
<1> QED
  BY <1>1, <1>3, ConcatAssociative

LEMMA WayPut ==
  ASSUME PillTyped, Puts
  PROVE  Way' = Way
<1>1. CASE hand.ready
  <2>0. hand.cmd \in Commands /\ queue \in Seq(Commands)
    BY DEF Puts, PillTyped, PillTypeOK, HandTyped
  <2>1. queue' = queue \o <<hand.cmd>> /\ ReadyHand = <<hand.cmd>> /\ ReadyHand' = <<>>
    BY <1>1, <2>0, AppendIsConcat DEF Puts, ReadyHand, NoHand
  <2>2. queue' \in Seq(Commands)
    BY <2>0, <1>1 DEF Puts
  <2> QED BY <2>1, <2>2, ConcatEmptySeq DEF Way, Puts
<1>2. CASE ~hand.ready
  BY <1>2 DEF Puts, ReadyHand, Way, NoHand
<1> QED BY <1>1, <1>2

LEMMA WayDrained ==
  ASSUME PillTyped, queue # <<>>, queue' = Tail(queue), UNCHANGED <<hand, pipe>>
  PROVE  /\ Way # <<>> /\ Way[1] = Head(queue) /\ Len(Way) \in Nat \ {0}
         /\ DOMAIN Way = 1..Len(Way) /\ DOMAIN Way' = 1..(Len(Way) - 1)
         /\ Len(Way') = Len(Way) - 1 /\ Way' \in Seq(Commands)
         /\ \A i \in DOMAIN Way' : i + 1 \in DOMAIN Way /\ Way'[i] = Way[i + 1]
<1>1. /\ queue \in Seq(Commands) /\ ReadyHand \in Seq(Commands) /\ pipe \in Seq(Commands)
      /\ queue' \in Seq(Commands) /\ ReadyHand' = ReadyHand /\ pipe' = pipe
      /\ Len(queue') = Len(queue) - 1 /\ Len(queue) \in Nat \ {0}
      /\ \A i \in 1..Len(queue') : queue'[i] = queue[i + 1]
  BY WayTyped, HeadTailProperties DEF PillTyped, PillTypeOK, ReadyHand
<1> DEFINE R == ReadyHand
           n == Len(queue)
<1>2. /\ Len(Way) = n + Len(R) + Len(pipe)
      /\ \A i \in 1..Len(Way) : Way[i] = IF i <= n THEN queue[i]
                                         ELSE IF i <= n + Len(R) THEN R[i - n]
                                         ELSE pipe[i - n - Len(R)]
  BY <1>1 DEF Way
<1>3. /\ Len(Way') = (n - 1) + Len(R) + Len(pipe)
      /\ \A i \in 1..Len(Way') : Way'[i] = IF i <= n - 1 THEN queue[i + 1]
                                         ELSE IF i <= n - 1 + Len(R) THEN R[i - (n - 1)]
                                         ELSE pipe[i - (n - 1) - Len(R)]
  BY <1>1 DEF Way
<1>4. Way \in Seq(Commands) /\ Way' \in Seq(Commands)
  BY <1>1 DEF Way
<1>5. Len(R) \in Nat /\ Len(pipe) \in Nat /\ Head(queue) = queue[1]
  BY <1>1
<1>6. Len(Way) \in Nat \ {0} /\ Len(Way') = Len(Way) - 1
  BY <1>1, <1>2, <1>3, <1>5
<1>7. DOMAIN Way = 1..Len(Way) /\ DOMAIN Way' = 1..(Len(Way) - 1) /\ Way # <<>>
  BY <1>4, <1>6
<1>8. Way[1] = Head(queue)
  BY <1>1, <1>2, <1>5, <1>6
<1>9. ASSUME NEW i \in DOMAIN Way' PROVE i + 1 \in DOMAIN Way /\ Way'[i] = Way[i + 1]
  <2>1. i \in 1..Len(Way') /\ i + 1 \in 1..Len(Way)
    BY <1>6, <1>7
  <2> QED BY <1>1, <1>2, <1>3, <1>5, <1>7, <2>1
<1> QED
  BY <1>4, <1>6, <1>7, <1>8, <1>9

-----------------------------------------------------------------------------
\* A command that is added is the last one, and a phase follows a command that
\* shows the window.
LEMMA SendLeads ==
  ASSUME PillInv, NEW c \in {"show", "processing", "hide"}, c = "processing" => want # "hide",
         wrapper = "up", host = "ready", want' = c, pipe' = Append(pipe, c),
         UNCHANGED <<hand, queue, win>>
  PROVE  WayLeads'
<1>1. Way' = Append(Way, c) /\ Way \in Seq(Commands)
  BY WaySent, WayTyped DEF PillInv, Commands
<1>2. /\ Len(Way) \in Nat /\ DOMAIN Way = 1..Len(Way) /\ DOMAIN Way' = 1..(Len(Way) + 1)
      /\ Len(Way') = Len(Way) + 1 /\ Way'[Len(Way) + 1] = c /\ Way' # <<>>
      /\ \A i \in 1..Len(Way) : Way'[i] = Way[i]
      /\ Way = <<>> <=> Len(Way) = 0
  BY <1>1
<1>3. WayLeads /\ want \in {"hide", "show", "processing"}
  BY DEF PillInv, PillTyped, PillTypeOK
<1>4. ASSUME NEW i \in DOMAIN Way', Way'[i] = "processing"
      PROVE  IF i = 1 THEN win.slid ELSE Way'[i - 1] \in {"show", "processing"}
  <2>1. CASE i \in 1..Len(Way)
    <3>1. i # 1 => i - 1 \in 1..Len(Way)
      BY <2>1, <1>2
    <3> QED BY <1>2, <1>3, <1>4, <2>1, <3>1 DEF WayLeads
  <2>2. CASE i = Len(Way) + 1
    <3>1. c = "processing" /\ want \in {"show", "processing"}
      BY <1>2, <1>3, <1>4, <2>2
    <3>2. CASE Len(Way) = 0
      <4>1. Way = <<>> /\ i = 1
        BY <1>2, <2>2, <3>2
      <4>2. win.slid = (want # "hide")
        BY <1>3, <4>1 DEF WayLeads
      <4> QED BY <3>1, <4>1, <4>2
    <3>3. CASE Len(Way) # 0
      <4>1. Way[Len(Way)] = want /\ i - 1 = Len(Way) /\ i # 1 /\ Len(Way) \in 1..Len(Way)
        BY <1>2, <1>3, <2>2, <3>3 DEF WayLeads
      <4> QED BY <1>2, <3>1, <4>1
    <3> QED BY <3>2, <3>3
  <2> QED BY <1>2, <2>1, <2>2
<1> QED
  BY <1>2, <1>4 DEF WayLeads

\* Carrying out the next command leads where the daemon wants it to.
LEMMA DrainLeads ==
  ASSUME PillInv, Drains, wrapper = "up"
  PROVE  WayLeads'
<1> DEFINE c == Head(queue)
<1>1. /\ Way # <<>> /\ Way[1] = c /\ Len(Way) \in Nat \ {0}
      /\ DOMAIN Way = 1..Len(Way) /\ DOMAIN Way' = 1..(Len(Way) - 1)
      /\ Len(Way') = Len(Way) - 1
      /\ \A i \in DOMAIN Way' : i + 1 \in DOMAIN Way /\ Way'[i] = Way[i + 1]
  BY WayDrained DEF PillInv, Drains
<1>2. /\ Obey(c) /\ host = "ready" /\ UNCHANGED want
      /\ win \in [slid : BOOLEAN, visible : BOOLEAN, phase : {"listening", "processing"}]
      /\ want \in {"hide", "show", "processing"}
  BY DEF PillInv, PillTyped, PillTypeOK, Drains, wrapVars
<1>3. /\ Way[Len(Way)] = want
      /\ \A i \in DOMAIN Way : Way[i] = "processing" =>
            IF i = 1 THEN win.slid ELSE Way[i - 1] \in {"show", "processing"}
  BY <1>1, <1>2 DEF PillInv, WayLeads
<1>4. c = "processing" => win.slid
  <2>1. 1 \in DOMAIN Way
    BY <1>1
  <2> QED BY <1>1, <1>3, <2>1
<1>5. c \in {"show", "processing"} => win'.slid
  BY <1>2, <1>4 DEF Obey
<1>6. ASSUME Way' = <<>>
      PROVE  /\ win'.slid = (want # "hide")
             /\ want = "show" => win'.phase = "listening"
             /\ want = "processing" => win'.phase = "processing"
  <2>1. c = want
    <3>1. DOMAIN Way' = {}
      BY <1>6
    <3> QED BY <1>1, <1>3, <3>1
  <2> QED BY <1>2, <1>4, <2>1 DEF Obey
<1>7. Way' # <<>> => Way'[Len(Way')] = want
  <2> SUFFICES ASSUME Way' # <<>> PROVE Way'[Len(Way')] = want
    OBVIOUS
  <2>1. Way' \in Seq(Commands)
    BY WayDrained DEF PillInv, Drains
  <2>2. Len(Way') \in DOMAIN Way'
    BY <1>1, <2>1
  <2> QED BY <1>1, <1>3, <2>2
<1>8. ASSUME NEW i \in DOMAIN Way', Way'[i] = "processing"
      PROVE  IF i = 1 THEN win'.slid ELSE Way'[i - 1] \in {"show", "processing"}
  <2>1. i + 1 \in DOMAIN Way /\ Way[i + 1] = "processing" /\ i \in Nat /\ i + 1 # 1
    BY <1>1, <1>8
  <2>2. Way[i] \in {"show", "processing"}
    BY <1>3, <2>1
  <2>3. CASE i = 1
    BY <1>1, <1>5, <2>2, <2>3
  <2>4. CASE i # 1
    <3>1. i - 1 \in DOMAIN Way' /\ Way'[i - 1] = Way[i]
      BY <1>1, <2>1, <2>4
    <3> QED BY <2>2, <2>4, <3>1
  <2> QED BY <2>3, <2>4
<1> QED
  BY <1>2, <1>6, <1>7, <1>8 DEF WayLeads

-----------------------------------------------------------------------------
\* The order of the commands, the timer and the process, step by step.
LEMMA PillStep == PillInv /\ [PillNext]_pillVars => PillInv'
<1> SUFFICES ASSUME PillInv, [PillNext]_pillVars PROVE PillInv'
  OBVIOUS
<1>t. PillTyped /\ PillTyped'
  BY PillTypeStep DEF PillInv
<1> DEFINE Held == /\ wrapper' = "none" => host' \in {"none", "dead"}
                   /\ wrapper' = "up" => host' \in {"ready", "dead"}
                   /\ OnlySettings' /\ WayLeads' /\ TimerKnown'
<1> SUFFICES Held
  BY <1>t DEF PillInv
<1>p. /\ wrapper = "none" => host \in {"none", "dead"}
      /\ wrapper = "up" => host \in {"ready", "dead"}
      /\ OnlySettings /\ WayLeads /\ TimerKnown
  BY DEF PillInv
<1>q. /\ pipe \in Seq(Commands) /\ pend \in Seq(Commands) /\ todo \in Seq(Commands)
      /\ queue \in Seq(Commands) /\ timer \in BOOLEAN
  BY <1>t DEF PillTyped, PillTypeOK
<1>k. ASSUME UNCHANGED <<queue, hand, pipe>> PROVE Way' = Way
  BY <1>k DEF Way, ReadyHand
<1>l. ASSUME Way' = Way, UNCHANGED <<wrapper, want>>, UNCHANGED <<win.slid, win.phase>>,
             wrapper = "up" /\ host' = "ready" => host = "ready"
      PROVE  WayLeads'
  BY <1>l, <1>p DEF WayLeads
<1>s. ASSUME NEW c \in {"show", "processing", "hide"}, c = "processing" => want # "hide",
             wrapper = "up", Send(c), UNCHANGED <<host, winVars>>
      PROVE  Held
  <2>1. CASE host = "dead"
    BY <1>s, <1>p, <2>1 DEF Send, OnlySettings, WayLeads, TimerKnown, winVars
  <2>2. CASE host # "dead"
    <3>1. WayLeads'
      BY <1>s, <1>p, <2>2, SendLeads DEF Send, winVars
    <3> QED BY <1>s, <1>p, <2>2, <3>1 DEF Send, OnlySettings, TimerKnown, winVars
  <2> QED BY <2>1, <2>2
<1>1. CASE UNCHANGED pillVars
  BY <1>1, <1>p, <1>k, <1>l DEF pillVars, wrapVars, wayVars, winVars, OnlySettings, TimerKnown
<1>2. CASE Show
  BY <1>2, <1>s DEF Show
<1>3. CASE ShowSpawns
  <2>1. OnlySettings'
    <3>1. \A i \in DOMAIN <<"config">> : <<"config">>[i] = "config"
      OBVIOUS
    <3>2. hand'.cmd = "none" /\ DOMAIN <<>> = {}
      BY <1>3 DEF ShowSpawns, NoHand
    <3> QED BY <1>3, <3>1, <3>2 DEF ShowSpawns, OnlySettings
  <2> QED BY <1>3, <2>1 DEF ShowSpawns, WayLeads, TimerKnown, Gone
<1>4. CASE Spawned
  <2>1. /\ Way' = Append(Way, "show") /\ Way \in Seq(Commands)
    BY <1>4, <1>t, WaySent, WayTyped DEF Spawned, Commands, PillTyped
  <2>2. \A i \in DOMAIN Way : Way[i] = "config"
    <3>1. /\ \A i \in DOMAIN pipe : pipe[i] = "config"
          /\ \A i \in DOMAIN queue : queue[i] = "config"
          /\ hand.cmd \in {"none", "config"}
      BY <1>4, <1>p DEF Spawned, OnlySettings
    <3>2. ReadyHand \in Seq(Commands) /\ \A i \in DOMAIN ReadyHand : ReadyHand[i] = "config"
      BY <1>t, <3>1, WayTyped DEF ReadyHand, PillTyped, HandTyped, NoHand, Commands
    <3> QED BY <1>q, <3>1, <3>2, ConcatProperties DEF Way
  <2> QED BY <1>4, <1>p, <2>1, <2>2 DEF Spawned, OnlySettings, WayLeads, TimerKnown, winVars
<1>5. CASE SpawnFails
  BY <1>5, <1>p DEF SpawnFails, OnlySettings, WayLeads, TimerKnown, winVars
<1>6. CASE Shutdown
  BY <1>6 DEF Shutdown, Fresh, OnlySettings, WayLeads, TimerKnown, Gone
<1>7. ASSUME NEW c \in Commands, Tell(c) PROVE Held
  BY <1>7, <1>s DEF Tell
<1>8. CASE Reads
  <2>1. Way' = Way \/ host # "ready"
    BY <1>8, <1>t, WayRead
  <2>2. WayLeads'
    BY <1>8, <1>l, <2>1 DEF Reads, wrapVars, winVars, WayLeads
  <2>3. OnlySettings'
    <3>1. /\ Head(pipe) = pipe[1] /\ 1 \in DOMAIN pipe
          /\ \A i \in DOMAIN Tail(pipe) : i + 1 \in DOMAIN pipe /\ Tail(pipe)[i] = pipe[i + 1]
      BY <1>8, <1>q, HeadTailProperties DEF Reads
    <3> QED BY <1>8, <1>p, <3>1 DEF Reads, OnlySettings, wrapVars, winVars
  <2> QED BY <1>8, <1>p, <2>2, <2>3 DEF Reads, TimerKnown, wrapVars, winVars
<1>9. CASE Puts
  <2>1. WayLeads'
    BY <1>9, <1>l, <1>t, WayPut DEF Puts, wrapVars, winVars
  <2>2. ASSUME wrapper = "spawning" PROVE OnlySettings'
    <3>1. hand.cmd = "config"
      BY <1>9, <1>p, <1>t, <2>2 DEF Puts, OnlySettings, PillTyped, HandTyped, Commands
    <3>2. /\ \A i \in DOMAIN Append(queue, hand.cmd) : Append(queue, hand.cmd)[i] = "config"
          /\ \A i \in DOMAIN Append(pend, hand.cmd) : Append(pend, hand.cmd)[i] = "config"
      BY <1>p, <1>q, <2>2, <3>1 DEF OnlySettings, Commands
    <3> QED BY <1>9, <1>p, <2>2, <3>2 DEF Puts, OnlySettings, NoHand, wrapVars, winVars
  <2> QED BY <1>9, <1>p, <2>1, <2>2 DEF Puts, TimerKnown, wrapVars, winVars, OnlySettings
<1>10. CASE Loads
  BY <1>10, <1>p, <1>k, <1>l DEF Loads, OnlySettings, TimerKnown, wrapVars, winVars
<1>o. ASSUME NEW c \in Commands, Obey(c) PROVE TimerKnown'
  <2>1. /\ win \in [slid : BOOLEAN, visible : BOOLEAN, phase : {"listening", "processing"}]
        /\ hasty \in BOOLEAN
    BY <1>t DEF PillTyped, PillTypeOK
  <2>2. CASE c = "show"
    BY <1>o, <1>q, <2>1, <2>2 DEF Obey, TimerKnown
  <2>3. CASE c = "hide"
    BY <1>o, <1>q, <2>1, <2>3 DEF Obey, TimerKnown
  <2>4. CASE c \in {"processing", "config"}
    BY <1>o, <1>p, <1>q, <2>1, <2>4 DEF Obey, TimerKnown
  <2> QED BY <2>2, <2>3, <2>4 DEF Commands
<1>11. CASE Catches
  <2>1. wrapper = "spawning"
    BY <1>11, <1>p, <1>t DEF Catches, PillTyped, PillTypeOK
  <2>2. /\ Head(todo) = todo[1] /\ 1 \in DOMAIN todo
        /\ \A i \in DOMAIN Tail(todo) : i + 1 \in DOMAIN todo /\ Tail(todo)[i] = todo[i + 1]
    BY <1>11, <1>q, HeadTailProperties DEF Catches
  <2>3. Head(todo) = "config" /\ Obey("config") /\ UNCHANGED <<win, timer, hasty>>
    BY <1>11, <1>p, <1>q, <2>1, <2>2 DEF Catches, OnlySettings, Obey
  <2> QED BY <1>11, <1>p, <2>1, <2>2, <2>3 DEF Catches, OnlySettings, WayLeads, TimerKnown, wrapVars
<1>12. CASE GetsReady
  <2>1. wrapper = "spawning"
    BY <1>12, <1>p, <1>t DEF GetsReady, PillTyped, PillTypeOK
  <2> QED BY <1>12, <1>p, <2>1 DEF GetsReady, OnlySettings, WayLeads, TimerKnown, wrapVars, wayVars, winVars
<1>13. CASE Drains
  <2>1. TimerKnown'
    BY <1>13, <1>o, <1>q DEF Drains
  <2>2. CASE wrapper = "spawning"
    <3>2. /\ Head(queue) = queue[1] /\ 1 \in DOMAIN queue
          /\ \A i \in DOMAIN Tail(queue) : i + 1 \in DOMAIN queue /\ Tail(queue)[i] = queue[i + 1]
      BY <1>13, <1>q, HeadTailProperties DEF Drains
    <3>3. Head(queue) = "config" /\ UNCHANGED <<win, timer, hasty>>
      BY <1>13, <1>p, <1>q, <2>2, <3>2 DEF Drains, OnlySettings, Obey
    <3> QED BY <1>13, <1>p, <2>1, <2>2, <3>2, <3>3 DEF Drains, OnlySettings, WayLeads, wrapVars
  <2>3. CASE wrapper = "up"
    BY <1>13, <1>p, <2>1, <2>3, DrainLeads DEF Drains, OnlySettings, wrapVars
  <2> QED BY <1>13, <1>p, <1>t, <2>2, <2>3 DEF Drains, PillTyped, PillTypeOK
<1>14. CASE FinishHide
  BY <1>14, <1>p, <1>k, <1>l, <1>t DEF FinishHide, OnlySettings, TimerKnown, wrapVars, wayVars,
     PillTyped, PillTypeOK
<1>15. CASE Dies
  <2>1. OnlySettings'
    <3>1. hand'.cmd = "none" /\ DOMAIN <<>> = {}
      BY <1>15 DEF Dies, Fresh, NoHand
    <3> QED BY <1>15, <3>1 DEF Dies, Fresh, OnlySettings
  <2> QED BY <1>15, <1>p, <1>t, <2>1 DEF Dies, Fresh, Lives, WayLeads, TimerKnown, Gone, wrapVars,
          PillTyped, PillTypeOK
<1> QED
  BY <1>1, <1>2, <1>3, <1>4, <1>5, <1>6, <1>7, <1>8, <1>9, <1>10, <1>11, <1>12, <1>13,
     <1>14, <1>15
  DEF PillNext, Wrapper, HostProcess

LEMMA PillStarts == PillInit => PillInv
<1> SUFFICES ASSUME PillInit PROVE PillInv
  OBVIOUS
<1> USE DEF PillInit
<1>1. PillTypeOK
  <2>1. <<>> \in Seq(Commands) /\ 0 \in 0..MaxCalls /\ 0 \in 0..MaxDeaths
    BY PillAssumption
  <2> QED BY <2>1 DEF PillTypeOK, NoHand, Gone
<1>2. HandTyped /\ OnlySettings /\ WayLeads /\ TimerKnown
  BY DEF HandTyped, OnlySettings, WayLeads, TimerKnown, Gone
<1> QED
  BY <1>1, <1>2 DEF PillInv, PillTyped

\* The states of the daemon's side, of the process and of the window, and what is
\* on its way between them, are of their types.
THEOREM PillTypeCorrect == PillSpec => []PillTypeOK
<1>1. PillInit => PillTyped
  BY PillStarts DEF PillInv
<1>2. PillTyped => PillTypeOK
  BY DEF PillTyped
<1> QED
  BY <1>1, <1>2, PillTypeStep, PTL DEF PillSpec

\* However many calls, processes and deaths there are, the window is what the
\* daemon asked for last when every command has been carried out.
THEOREM PillAlwaysFollows == PillSpec => []PillFollows
<1>1. PillInit => PillInv
  BY PillStarts
<1>2. PillInv => PillFollows
  <2> SUFFICES ASSUME PillInv, Quiet PROVE PillFollows
    BY DEF PillFollows
  <2>1. Way = <<>>
    <3>1. queue \o ReadyHand = <<>>
      BY DEF Quiet, ReadyHand, NoHand
    <3> QED BY <3>1 DEF Quiet, Way
  <2> QED
    BY <2>1 DEF PillInv, WayLeads, TimerKnown, PillFollows, Quiet, PillTyped, PillTypeOK
<1> QED
  BY <1>1, <1>2, PillStep, PTL DEF PillSpec

-----------------------------------------------------------------------------
(***************************************************************************)
(* For any number of commands: the types, and that what follows the        *)
(* configuration has followed it when the commands have ended.             *)
(***************************************************************************)

USE DEF settings, keysVars, cueVars

Restarting == {k \in Cmds : at[k] = "restart"}

\* The binding of the listener that a command is about to start.
Mine(k) == IF op[k] = "edit" THEN draft[k]["hotkey"] ELSE k

\* At most one command starts a listener: the one for the binding configured.
ListenerOwed ==
    /\ \A j, k \in Restarting : j = k
    /\ Restarting = {} => listening = {hotkeys} /\ hotkeys = config["hotkey"]
    /\ \A k \in Restarting : listening = {} /\ Mine(k) = config["hotkey"]

\* Only an editor that has saved, and has not sent it yet, writes a file that
\* is not the configuration.
FileOwed == file # config => \E k \in Cmds : at[k] \in {"saved", "loaded"}

\* Only a command on the sound that is under way, or one that has failed, leaves
\* a cue that is not the file.
CueOwed == cue # Loaded => torn \/ \E k \in Cmds : at[k] \in {"copy", "back"}

ConfInv == ConfTypeOK /\ (spoilt \/ (ListenerOwed /\ FileOwed /\ CueOwed))

Step(k) ==
    \/ \E s \in Keys : Patch(k, s) \/ EditorSaves(k, s)
    \/ RestartHotkeys(k)
    \/ SoundCommand(k) \/ CopySound(k) \/ SoundImported(k)
    \/ RemoveSound(k) \/ SoundCleared(k)
    \/ EditorOpens(k) \/ EditLoads(k) \/ EditPatches(k)

Places == {"new", "thread", "copy", "back", "restart", "open", "saved", "loaded", "done"}

-----------------------------------------------------------------------------
LEMMA LoadedIsAValue == ASSUME ConfTypeOK PROVE Loaded \in Values
BY DEF ConfTypeOK, Loaded, Values

LEMMA Goal == ASSUME ConfTypeOK, NEW k \in Cmds, NEW place \in Places, Goes(k, place)
              PROVE  /\ at' \in [Cmds -> Places] /\ at'[k] = place
                     /\ \A j \in Cmds \ {k} : at'[j] = at[j]
BY DEF ConfTypeOK, Goes, Places

\* A setting is of its type after any command.
LEMMA Merged ==
  ASSUME ConfTypeOK, NEW k \in Cmds, NEW s \in Keys, NEW c \in Settings
  PROVE  /\ [c EXCEPT ![s] = Value(k, s)] \in Settings
         /\ [c EXCEPT !["sound"] = Named] \in Settings
         /\ [c EXCEPT !["sound"] = Default] \in Settings
BY DEF Settings, Values, Value

LEMMA AppliesTyped ==
  ASSUME ConfTypeOK, NEW k \in Cmds, NEW new \in Settings, Applies(k, new)
  PROVE  /\ config' \in Settings /\ file' \in Settings /\ control' \in Settings
         /\ hotkeys' \in Values \cup {Named} /\ listening' \subseteq Values \cup {Named}
         /\ cue' \in Values /\ torn' \in BOOLEAN /\ spoilt' \in BOOLEAN
         /\ at' \in [Cmds -> Places]
<1>1. CASE Apply(k, new)
  <2>1. cue' \in Values
    BY <1>1, LoadedIsAValue DEF Apply, LoadsCue, ConfTypeOK
  <2>5. torn' \in BOOLEAN
    <3>1. torn' = FALSE \/ torn' = torn
      BY <1>1 DEF Apply, LoadsCue
    <3> QED BY <3>1 DEF ConfTypeOK
  <2>2. at' \in [Cmds -> Places]
    <3>1. Goes(k, "restart") \/ Goes(k, "done")
      BY <1>1 DEF Apply
    <3> QED
      BY <3>1, Goal DEF Places
  <2>3. spoilt' \in BOOLEAN
    <3>1. CASE new["hotkey"] # config["hotkey"]
      BY <1>1, <3>1, Zenon DEF Apply, ConfTypeOK
    <3>2. CASE new["hotkey"] = config["hotkey"]
      BY <1>1, <3>2 DEF Apply, ConfTypeOK
    <3> QED
      BY <3>1, <3>2
  <2>4. listening' \subseteq Values \cup {Named}
    BY <1>1 DEF Apply, ConfTypeOK
  <2> QED
    BY <1>1, <2>1, <2>2, <2>3, <2>4, <2>5 DEF Apply, ConfTypeOK
<1>2. CASE ApplyFails(k, new)
  <2>1. at' \in [Cmds -> Places]
    BY <1>2, Goal DEF ApplyFails, Places
  <2>2. spoilt' \in BOOLEAN /\ torn' \in BOOLEAN
    BY <1>2 DEF ApplyFails, ConfTypeOK
  <2> QED
    BY <1>2, <2>1, <2>2 DEF ApplyFails, ConfTypeOK
<1> QED
  BY <1>1, <1>2 DEF Applies

\* Every step keeps the types.
LEMMA ConfTypeStep == ConfTypeOK /\ [ConfNext]_confVars => ConfTypeOK'
<1> SUFFICES ASSUME ConfTypeOK, [ConfNext]_confVars PROVE ConfTypeOK'
  OBVIOUS
<1>1. CASE UNCHANGED confVars
  BY <1>1 DEF confVars, ConfTypeOK
<1>2. ASSUME NEW k \in Cmds, Step(k) PROVE ConfTypeOK'
  <2>1. ASSUME NEW s \in Keys, Patch(k, s) PROVE ConfTypeOK'
    <3>1. [config EXCEPT ![s] = Value(k, s)] \in Settings
      BY Merged DEF ConfTypeOK
    <3>2. op' \in [Cmds -> Ops]
      BY <2>1 DEF Patch, ConfTypeOK, Ops
    <3> QED
      BY <2>1, <3>1, <3>2, AppliesTyped DEF Patch, ConfTypeOK, Places
  <2>2. ASSUME NEW s \in Keys, EditorSaves(k, s) PROVE ConfTypeOK'
    <3>1. [draft[k] EXCEPT ![s] = Value(k, s)] \in Settings
      BY Merged DEF ConfTypeOK
    <3>2. at' \in [Cmds -> Places]
      BY <2>2, Goal DEF EditorSaves, Places
    <3> QED
      BY <2>2, <3>1, <3>2 DEF EditorSaves, ConfTypeOK, Places
  <2>3. CASE RestartHotkeys(k)
    <3>1. Mine(k) \in Values \cup {Named}
      BY DEF Mine, ConfTypeOK, Settings, Keys, Values
    <3>2. hotkeys' = Mine(k) /\ listening' = listening \cup {Mine(k)}
      BY <2>3 DEF RestartHotkeys, Mine
    <3>3. at' \in [Cmds -> Places]
      BY <2>3, Goal DEF RestartHotkeys, Places
    <3> QED
      BY <2>3, <3>1, <3>2, <3>3 DEF RestartHotkeys, ConfTypeOK, Places
  <2>4. CASE SoundCommand(k)
    <3>1. at' \in [Cmds -> Places]
      BY <2>4, Goal DEF SoundCommand, Places
    <3>2. op' \in [Cmds -> Ops]
      BY <2>4 DEF SoundCommand, ConfTypeOK, Ops
    <3> QED
      BY <2>4, <3>1, <3>2 DEF SoundCommand, ConfTypeOK, Places
  <2>5. CASE CopySound(k)
    <3>1. at' \in [Cmds -> Places]
      BY <2>5, Goal DEF CopySound, Places
    <3>2. wav' \in Values \cup {Partial}
      BY <2>5 DEF CopySound, ConfTypeOK, Values
    <3>3. torn' \in BOOLEAN
      BY <2>5 DEF CopySound, ConfTypeOK
    <3> QED
      BY <2>5, <3>1, <3>2, <3>3 DEF CopySound, ConfTypeOK, Places
  <2>6. CASE SoundImported(k)
    <3>1. CASE config["sound"] = Default
      <4>1. [config EXCEPT !["sound"] = Named] \in Settings
        BY DEF ConfTypeOK, Settings
      <4> QED
        BY <2>6, <3>1, <4>1, AppliesTyped DEF SoundImported, ConfTypeOK, Places
    <3>2. CASE config["sound"] # Default
      <4>1. at' \in [Cmds -> Places]
        BY <2>6, <3>2, Goal DEF SoundImported, Places
      <4>2. cue' \in Values
        BY <2>6, <3>2, LoadedIsAValue DEF SoundImported, LoadsCue
      <4>3. torn' \in BOOLEAN
        BY <2>6, <3>2 DEF SoundImported, LoadsCue
      <4> QED
        BY <2>6, <3>2, <4>1, <4>2, <4>3 DEF SoundImported, ConfTypeOK, Places
    <3> QED
      BY <3>1, <3>2
  <2>7. CASE RemoveSound(k)
    <3>1. at' \in [Cmds -> Places]
      BY <2>7, Goal DEF RemoveSound, Places
    <3>2. wav' \in Values \cup {Partial}
      BY <2>7 DEF RemoveSound, ConfTypeOK, Values
    <3> QED
      BY <2>7, <3>1, <3>2 DEF RemoveSound, ConfTypeOK, Places
  <2>8. CASE SoundCleared(k)
    <3>1. at' \in [Cmds -> Places]
      BY <2>8, Goal DEF SoundCleared, Places
    <3>2. config' \in Settings
      BY <2>8 DEF SoundCleared, ConfTypeOK, Settings, Values
    <3>3. cue' \in Values /\ file' \in Settings
      BY <2>8, <3>2, LoadedIsAValue DEF SoundCleared, LoadsCue, ConfTypeOK
    <3>4. spoilt' \in BOOLEAN /\ torn' \in BOOLEAN
      BY <2>8 DEF SoundCleared, LoadsCue, ConfTypeOK
    <3> QED
      BY <2>8, <3>1, <3>2, <3>3, <3>4 DEF SoundCleared, ConfTypeOK, Places
  <2>9. CASE EditorOpens(k)
    <3>1. at' \in [Cmds -> Places]
      BY <2>9, Goal DEF EditorOpens, Places
    <3>2. op' \in [Cmds -> Ops] /\ draft' \in [Cmds -> Settings]
      BY <2>9 DEF EditorOpens, ConfTypeOK, Ops
    <3> QED
      BY <2>9, <3>1, <3>2 DEF EditorOpens, ConfTypeOK, Places
  <2>10. CASE EditLoads(k)
    <3>1. at' \in [Cmds -> Places]
      BY <2>10, Goal DEF EditLoads, Places
    <3>2. draft' \in [Cmds -> Settings] /\ spoilt' \in BOOLEAN
      BY <2>10 DEF EditLoads, ConfTypeOK
    <3> QED
      BY <2>10, <3>1, <3>2 DEF EditLoads, ConfTypeOK, Places
  <2>11. CASE EditPatches(k)
    <3>1. draft[k] \in Settings
      BY DEF ConfTypeOK
    <3> QED
      BY <2>11, <3>1, AppliesTyped DEF EditPatches, ConfTypeOK, Places
  <2> QED
    BY <1>2, <2>1, <2>2, <2>3, <2>4, <2>5, <2>6, <2>7, <2>8, <2>9, <2>10, <2>11 DEF Step
<1> QED
  BY <1>1, <1>2 DEF ConfNext, Step

-----------------------------------------------------------------------------
Owed == ListenerOwed /\ FileOwed /\ CueOwed

\* A step of command k that leaves the listeners and the binding alone.
LEMMA ListenerKept ==
  ASSUME ConfTypeOK, ListenerOwed, NEW k \in Cmds, NEW place \in Places \ {"restart"},
         Goes(k, place), at[k] # "restart",
         UNCHANGED keysVars, config'["hotkey"] = config["hotkey"],
         \A j \in Cmds \ {k} : op'[j] = op[j] /\ draft'[j] = draft[j]
  PROVE  ListenerOwed'
<1>1. Restarting' = Restarting /\ k \notin Restarting
  BY Goal DEF Restarting
<1>2. \A j \in Restarting : Mine(j)' = Mine(j)
  <2> TAKE j \in Restarting
  <2>1. j \in Cmds \ {k}
    BY <1>1 DEF Restarting
  <2> QED
    BY <2>1 DEF Mine
<1> QED
  BY <1>1, <1>2 DEF ListenerOwed

\* What apply_config, or a sound command at its end, leaves of the cue.
LEMMA CueLoaded ==
  ASSUME UNCHANGED wav, LoadsCue
  PROVE  CueOwed'
BY DEF CueOwed, LoadsCue, Loaded

LEMMA CueKept ==
  ASSUME ConfTypeOK, CueOwed, NEW k \in Cmds, NEW place \in Places, Goes(k, place),
         at[k] \notin {"copy", "back"}, UNCHANGED cueVars
  PROVE  CueOwed'
<1>1. \A j \in Cmds : at[j] \in {"copy", "back"} => at'[j] = at[j]
  BY Goal
<1> QED
  BY <1>1 DEF CueOwed, Loaded

LEMMA AppliesOwed ==
  ASSUME ConfTypeOK, Owed, NEW k \in Cmds, NEW new \in Settings, Applies(k, new),
         UNCHANGED <<wav, draft>>,
         \A j \in Cmds \ {k} : op'[j] = op[j],
         at[k] \in {"new", "loaded"} \/ (at[k] = "back" /\ new["sound"] # config["sound"]),
         new["hotkey"] # config["hotkey"]
            => IF op'[k] = "edit" THEN new = draft[k] ELSE new["hotkey"] = k
  PROVE  spoilt' \/ Owed'
<1>1. CASE ApplyFails(k, new)
  BY <1>1 DEF ApplyFails
<1>2. CASE Apply(k, new)
  <2>1. PICK place \in {"restart", "done"} : Goes(k, place)
    BY <1>2 DEF Apply
  <2>p. place \in Places
    BY DEF Places
  <2>2. FileOwed'
    BY <1>2 DEF Apply, FileOwed
  <2>3. CueOwed'
    <3>1. CASE new["sound"] # config["sound"]
      BY <1>2, <3>1, CueLoaded DEF Apply
    <3>2. CASE new["sound"] = config["sound"]
      BY <1>2, <3>2, <2>1, <2>p, CueKept DEF Apply, Owed
    <3> QED
      BY <3>1, <3>2
  <2>4. CASE new["hotkey"] = config["hotkey"]
    <3>1. Goes(k, "done") /\ UNCHANGED keysVars /\ config'["hotkey"] = config["hotkey"]
      BY <1>2, <2>4 DEF Apply
    <3>2. ListenerOwed'
      BY <3>1, ListenerKept DEF Owed, Places
    <3> QED
      BY <3>2, <2>2, <2>3 DEF Owed
  <2>5. CASE new["hotkey"] # config["hotkey"]
    <3>1. /\ Goes(k, "restart") /\ config' = new /\ UNCHANGED hotkeys
          /\ listening' = listening \ {hotkeys}
          /\ spoilt' = (spoilt \/ \E j \in Cmds : at[j] = "restart")
      BY <1>2, <2>5 DEF Apply
    <3>2. CASE \E j \in Cmds : at[j] = "restart"
      BY <3>1, <3>2
    <3>3. CASE ~\E j \in Cmds : at[j] = "restart"
      <4>1. Restarting' = {k}
        BY <3>1, <3>3, Goal DEF Restarting, Places
      <4>2. Restarting = {}
        BY <3>3 DEF Restarting
      <4>3. listening' = {}
        BY <3>1, <4>2 DEF Owed, ListenerOwed
      <4>4. Mine(k)' = config'["hotkey"]
        BY <2>5, <3>1 DEF Mine
      <4>5. ListenerOwed'
        BY <4>1, <4>3, <4>4 DEF ListenerOwed
      <4> QED
        BY <4>5, <2>2, <2>3 DEF Owed
    <3> QED
      BY <3>2, <3>3
  <2> QED
    BY <2>4, <2>5
<1> QED
  BY <1>1, <1>2 DEF Applies

-----------------------------------------------------------------------------
\* Every step of a command leaves what it owes to itself or to another command
\* that is still under way.
LEMMA OwedStep == ConfInv /\ [ConfNext]_confVars => (spoilt \/ Owed)'
<1> SUFFICES ASSUME ConfTypeOK, spoilt \/ Owed, [ConfNext]_confVars PROVE spoilt' \/ Owed'
  BY DEF ConfInv, Owed
<1>1. CASE UNCHANGED confVars
  BY <1>1 DEF confVars, Owed, ListenerOwed, FileOwed, CueOwed, Loaded, Restarting, Mine
<1>2. ASSUME NEW k \in Cmds, Step(k), ~spoilt PROVE spoilt' \/ Owed'
  <2>o. Owed /\ ListenerOwed /\ FileOwed /\ CueOwed
    BY <1>2 DEF Owed
  <2>f. ASSUME NEW place \in Places, Goes(k, place), UNCHANGED <<file, config>>,
               at[k] \notin {"saved", "loaded"} \/ place = "loaded"
        PROVE  FileOwed'
    <3>1. \A j \in Cmds : at[j] \in {"saved", "loaded"} => at'[j] \in {"saved", "loaded"}
      BY <2>f, Goal
    <3> QED
      BY <2>f, <2>o, <3>1 DEF FileOwed
  <2>1. ASSUME NEW s \in Keys, Patch(k, s) PROVE spoilt' \/ Owed'
    <3> DEFINE new == [config EXCEPT ![s] = Value(k, s)]
    <3>1. new \in Settings
      BY Merged DEF ConfTypeOK
    <3>2. new["hotkey"] # config["hotkey"] => new["hotkey"] = k
      BY DEF Keys, Value, ConfTypeOK, Settings
    <3>3. op'[k] = "patch" /\ \A j \in Cmds \ {k} : op'[j] = op[j]
      BY <2>1 DEF Patch, ConfTypeOK
    <3>4. at[k] = "new" /\ Applies(k, new) /\ UNCHANGED <<wav, draft>>
      BY <2>1 DEF Patch
    <3> HIDE DEF new
    <3>5. new["hotkey"] # config["hotkey"]
             => IF op'[k] = "edit" THEN new = draft[k] ELSE new["hotkey"] = k
      BY <3>2, <3>3
    <3>6. UNCHANGED <<wav, draft>> /\ Owed
      BY <3>4, <2>o
    <3>7. at[k] \in {"new", "loaded"} \/ (at[k] = "back" /\ new["sound"] # config["sound"])
      BY <3>4
    <3> QED
      BY <3>1, <3>3, <3>4, <3>5, <3>6, <3>7, AppliesOwed, Zenon
  <2>2. ASSUME NEW s \in Keys, EditorSaves(k, s) PROVE Owed'
    <3>1. Goes(k, "saved") /\ at[k] = "open" /\ UNCHANGED <<config, keysVars, cueVars, op, draft>>
      BY <2>2 DEF EditorSaves
    <3>2. ListenerOwed' /\ CueOwed'
      BY <3>1, <2>o, ListenerKept, CueKept DEF Places
    <3>3. FileOwed'
      BY <3>1, Goal DEF FileOwed, Places
    <3> QED
      BY <3>2, <3>3 DEF Owed
  <2>3. CASE RestartHotkeys(k)
    <3>1. /\ Goes(k, "done") /\ at[k] = "restart"
          /\ UNCHANGED <<config, file, cueVars, op, draft>>
          /\ hotkeys' = Mine(k) /\ listening' = listening \cup {Mine(k)}
      BY <2>3 DEF RestartHotkeys, Mine
    <3>2. k \in Restarting
      BY <3>1 DEF Restarting
    <3>3. listening = {} /\ Mine(k) = config["hotkey"]
      BY <2>o, <3>2 DEF ListenerOwed
    <3>4. Restarting' = {}
      <4>1. ASSUME NEW j \in Cmds, at'[j] = "restart" PROVE FALSE
        <5>1. at'[k] = "done" /\ (j # k => at'[j] = at[j])
          BY <3>1, Goal DEF Places
        <5>2. j # k /\ j \in Restarting
          BY <4>1, <5>1 DEF Restarting
        <5> QED
          BY <5>2, <3>2, <2>o DEF ListenerOwed
      <4> QED
        BY <4>1 DEF Restarting
    <3>5. ListenerOwed'
      BY <3>1, <3>3, <3>4 DEF ListenerOwed
    <3>6. FileOwed' /\ CueOwed'
      BY <3>1, <2>o, <2>f, CueKept DEF Places
    <3> QED
      BY <3>5, <3>6 DEF Owed
  <2>4. CASE SoundCommand(k)
    <3>1. /\ Goes(k, "thread") /\ at[k] = "new"
          /\ UNCHANGED <<config, file, keysVars, cueVars, draft>>
          /\ \A j \in Cmds \ {k} : op'[j] = op[j]
      BY <2>4 DEF SoundCommand, ConfTypeOK
    <3>2. ListenerOwed' /\ CueOwed' /\ FileOwed'
      BY <3>1, <2>o, <2>f, ListenerKept, CueKept DEF Places
    <3> QED
      BY <3>2 DEF Owed
  <2>5. CASE CopySound(k)
    <3>1. PICK place \in {"done", "copy", "back"} :
             /\ Goes(k, place) /\ at[k] \in {"thread", "copy"}
             /\ UNCHANGED <<config, file, keysVars, cue, op, draft>>
             /\ place = "done" => torn' = TRUE \/ (at[k] = "thread" /\ UNCHANGED <<wav, torn>>)
      BY <2>5 DEF CopySound
    <3>p. place \in Places \ {"restart"}
      BY DEF Places
    <3>2. ListenerOwed' /\ FileOwed'
      BY <3>1, <3>p, <2>o, <2>f, ListenerKept
    <3>3. at'[k] = place
      BY <3>1, <3>p, Goal
    <3>4. CASE place = "done" /\ ~torn'
      BY <3>1, <3>4, <3>2, <3>p, <2>o, CueKept DEF Owed
    <3>5. CASE place # "done" \/ torn'
      <4>1. CueOwed'
        BY <3>1, <3>3, <3>5 DEF CueOwed
      <4> QED
        BY <3>2, <4>1 DEF Owed
    <3> QED
      BY <3>4, <3>5
  <2>6. CASE SoundImported(k)
    <3>1. CASE config["sound"] = Default
      <4> DEFINE new == [config EXCEPT !["sound"] = Named]
      <4>1. new \in Settings /\ new["sound"] = Named /\ new["hotkey"] = config["hotkey"]
        BY DEF ConfTypeOK, Settings, Keys
      <4>2. Named # Default
        BY CmdsAssumption
      <4>3. at[k] = "back" /\ Applies(k, new) /\ UNCHANGED <<wav, op, draft>>
        BY <2>6, <3>1 DEF SoundImported
      <4> HIDE DEF new
      <4> QED
        BY <2>o, <3>1, <4>1, <4>2, <4>3, AppliesOwed
    <3>2. CASE config["sound"] # Default
      <4>1. /\ Goes(k, "done") /\ at[k] = "back" /\ LoadsCue
            /\ UNCHANGED <<config, file, keysVars, wav, op, draft>>
        BY <2>6, <3>2 DEF SoundImported
      <4>2. ListenerOwed' /\ FileOwed' /\ CueOwed'
        BY <4>1, <2>o, <2>f, ListenerKept, CueLoaded DEF Places
      <4> QED
        BY <4>2 DEF Owed
    <3> QED
      BY <3>1, <3>2
  <2>7. CASE RemoveSound(k)
    <3>1. PICK place \in {"done", "back"} :
             /\ Goes(k, place) /\ at[k] = "thread"
             /\ UNCHANGED <<config, file, keysVars, cue, torn, op, draft>>
             /\ place = "done" => UNCHANGED wav
      BY <2>7 DEF RemoveSound
    <3>p. place \in Places \ {"restart"}
      BY DEF Places
    <3>2. ListenerOwed' /\ FileOwed'
      BY <3>1, <3>p, <2>o, <2>f, ListenerKept
    <3>3. CueOwed'
      <4>1. CASE place = "done"
        BY <3>1, <3>p, <4>1, <2>o, CueKept
      <4>2. CASE place = "back"
        <5>1. at'[k] = "back"
          BY <3>1, <3>p, <4>2, Goal
        <5> QED
          BY <5>1 DEF CueOwed
      <4> QED
        BY <4>1, <4>2
    <3> QED
      BY <3>2, <3>3 DEF Owed
  <2>8. CASE SoundCleared(k)
    <3>1. CASE spoilt'
      BY <3>1
    <3>2. CASE ~spoilt'
      <4>1. /\ Goes(k, "done") /\ at[k] = "back" /\ LoadsCue /\ file' = config'
            /\ config'["hotkey"] = config["hotkey"]
            /\ UNCHANGED <<keysVars, wav, op, draft>>
        BY <2>8, <3>2 DEF SoundCleared, ConfTypeOK, Settings, Keys
      <4>2. ListenerOwed' /\ CueOwed'
        BY <4>1, <2>o, ListenerKept, CueLoaded DEF Places
      <4>3. FileOwed'
        BY <4>1 DEF FileOwed
      <4> QED
        BY <4>2, <4>3 DEF Owed
    <3> QED
      BY <3>1, <3>2
  <2>9. CASE EditorOpens(k)
    <3>1. /\ Goes(k, "open") /\ at[k] = "new"
          /\ UNCHANGED <<config, file, keysVars, cueVars>>
          /\ \A j \in Cmds \ {k} : op'[j] = op[j] /\ draft'[j] = draft[j]
      BY <2>9 DEF EditorOpens, ConfTypeOK
    <3>2. ListenerOwed' /\ CueOwed' /\ FileOwed'
      BY <3>1, <2>o, <2>f, ListenerKept, CueKept DEF Places
    <3> QED
      BY <3>2 DEF Owed
  <2>10. CASE EditLoads(k)
    <3>1. CASE spoilt'
      BY <3>1
    <3>2. CASE ~spoilt'
      <4>1. /\ Goes(k, "loaded") /\ at[k] = "saved"
            /\ UNCHANGED <<config, file, keysVars, cueVars, op>>
            /\ \A j \in Cmds \ {k} : draft'[j] = draft[j]
        BY <2>10, <3>2 DEF EditLoads, ConfTypeOK
      <4>2. ListenerOwed' /\ CueOwed' /\ FileOwed'
        BY <4>1, <2>o, <2>f, ListenerKept, CueKept DEF Places
      <4> QED
        BY <4>2 DEF Owed
    <3> QED
      BY <3>1, <3>2
  <2>11. CASE EditPatches(k)
    <3>1. /\ op'[k] = "edit" /\ at[k] = "loaded" /\ Applies(k, draft[k])
          /\ UNCHANGED <<wav, op, draft>>
      BY <2>11 DEF EditPatches
    <3>2. draft[k] \in Settings
      BY DEF ConfTypeOK
    <3>3. Owed /\ \A j \in Cmds \ {k} : op'[j] = op[j]
      BY <3>1, <2>o
    <3>4. IF op'[k] = "edit" THEN draft[k] = draft[k] ELSE draft[k]["hotkey"] = k
      BY <3>1
    <3>5. at[k] \in {"new", "loaded"} \/ (at[k] = "back" /\ draft[k]["sound"] # config["sound"])
      BY <3>1
    <3>6. draft[k]["hotkey"] # config["hotkey"]
             => IF op'[k] = "edit" THEN draft[k] = draft[k] ELSE draft[k]["hotkey"] = k
      BY <3>4
    <3> QED
      BY <3>1, <3>2, <3>3, <3>5, <3>6, AppliesOwed, Zenon
  <2> QED
    BY <1>2, <2>1, <2>2, <2>3, <2>4, <2>5, <2>6, <2>7, <2>8, <2>9, <2>10, <2>11 DEF Step
<1>3. ASSUME NEW k \in Cmds, Step(k), spoilt PROVE spoilt'
  BY <1>3, Zenon DEF Step, Patch, EditorSaves, RestartHotkeys, SoundCommand, CopySound,
     SoundImported, RemoveSound, SoundCleared, EditorOpens, EditLoads, EditPatches, Applies,
     Apply, ApplyFails
<1> QED
  BY <1>1, <1>2, <1>3 DEF ConfNext, Step

LEMMA ConfInvariant == ConfSpec => []ConfInv
<1>1. ConfInit => ConfInv
  <2> SUFFICES ASSUME ConfInit PROVE ConfInv
    OBVIOUS
  <2>1. ConfTypeOK
    <3>1. config \in Settings /\ spoilt \in BOOLEAN
      BY DEF ConfInit, Settings, Values
    <3> QED
      BY <3>1 DEF ConfInit, ConfTypeOK, Values, Ops
  <2>2. Restarting = {} /\ cue = Loaded
    BY DEF ConfInit, Restarting, Loaded
  <2> QED
    BY <2>1, <2>2 DEF ConfInit, ConfInv, ListenerOwed, FileOwed, CueOwed, Keys
<1>2. ConfInv /\ [ConfNext]_confVars => ConfInv'
  BY ConfTypeStep, OwedStep DEF ConfInv, Owed
<1> QED
  BY <1>1, <1>2, PTL DEF ConfSpec

\* The configuration, the listeners, the cue and the commands are of their types.
THEOREM ConfTypeCorrect == ConfSpec => []ConfTypeOK
<1>1. ConfInv => ConfTypeOK
  BY DEF ConfInv
<1> QED
  BY <1>1, ConfInvariant, PTL

\* When the commands have ended, the listener, the file and, unless a copy has
\* failed over the sound's file, the cue are those of the configuration.
THEOREM DaemonAlwaysFollows == ConfSpec => []DaemonFollows
<1>1. ConfInv => DaemonFollows
  <2> SUFFICES ASSUME ConfInv, Settled
               PROVE  /\ listening = {hotkeys} /\ hotkeys = config["hotkey"]
                      /\ file = config /\ (torn \/ cue = Loaded)
    BY DEF DaemonFollows, ListenerFollows, CueFollows
  <2>1. ListenerOwed /\ FileOwed /\ CueOwed /\ Restarting = {}
    BY DEF ConfInv, Settled, Restarting
  <2> QED
    BY <2>1 DEF ListenerOwed, FileOwed, CueOwed, Settled
<1> QED
  BY <1>1, ConfInvariant, PTL

=============================================================================
