--------------------------- MODULE DaemonLifecycle ---------------------------
(***************************************************************************)
(* The daemon's process, the two files that stand for it                   *)
(* (ipc/single_instance.py, SyblDaemon.run) and the commands that start,   *)
(* stop and restart it (cli/start.py, stop.py, restart.py,                 *)
(* daemon/spawn.py).  Nothing but the files tells one process of another;  *)
(* after a crash they stay, and the process id may go to another program.  *)
(***************************************************************************)
CONSTANTS
    Pids,      \* bound: the processes, in whatever order they are started
    Clis,      \* bound: commands, one use each
    NoPid      \* "there is no such file"

ASSUME PidsAssumption == NoPid \notin Pids

VARIABLES
    proc,      \* per process: where SyblDaemon.run is
    asked,     \* the processes whose _shutdown_event is set
    lock,      \* daemon.lock
    info,      \* daemon.json
    cli,       \* per command: where it is
    overlap    \* history variable: two daemons were starting at the same time

filesVars == <<lock, info>>
lifeVars  == <<proc, asked, filesVars, cli, overlap>>

Starting == {"check", "clear", "lock", "bind"}

LifeTypeOK ==
    /\ proc \in [Pids -> Starting \cup {"none", "serving", "stopping", "exiting", "gone", "alien"}]
    /\ asked \subseteq Pids /\ lock \in Pids \cup {NoPid} /\ info \in Pids \cup {NoPid}
    /\ cli \in [Clis -> {"none", "stop", "restart", "draining", "start", "waiting",
                         "refused", "failed", "done"}]
    /\ overlap \in BOOLEAN

LifeInit ==
    /\ proc = [p \in Pids |-> "none"] /\ asked = {} /\ lock = NoPid /\ info = NoPid
    /\ cli = [c \in Clis |-> "none"] /\ overlap = FALSE

\* is_pid_alive.
Alive(p)  == proc[p] \notin {"none", "gone"}
\* is_daemon_running: whatever runs under the process id that the file names.
Running   == info # NoPid /\ Alive(info)
Listens(p) == proc[p] = "serving"

-----------------------------------------------------------------------------
(***************************************************************************)
(* The daemon.                                                             *)
(***************************************************************************)

Busy(p) == \E q \in Pids \ {p} : proc[q] \in {"clear", "lock", "bind"}

\* Mutant of Check: a daemon counts as running when it answers.
Check_ByPing(p) ==
    /\ proc[p] = "check"
    /\ proc' = [proc EXCEPT ![p] = IF Running /\ Listens(info) THEN "gone" ELSE "clear"]
    /\ overlap' = (overlap \/ Busy(p))
    /\ UNCHANGED <<asked, filesVars, cli>>

\* acquire: refuse, or ...
Check(p) ==
    /\ proc[p] = "check"
    /\ proc' = [proc EXCEPT ![p] = IF Running THEN "gone" ELSE "clear"]
    /\ overlap' = (overlap \/ Busy(p))
    /\ UNCHANGED <<asked, filesVars, cli>>

\* ... remove what a daemon that died may have left, ...
Clear(p) ==
    /\ proc[p] = "clear" /\ proc' = [proc EXCEPT ![p] = "lock"]
    /\ lock' = NoPid /\ info' = NoPid
    /\ UNCHANGED <<asked, cli, overlap>>

\* ... and write the lock.
WriteLock(p) ==
    /\ proc[p] = "lock" /\ proc' = [proc EXCEPT ![p] = "bind"] /\ lock' = p
    /\ UNCHANGED <<asked, info, cli, overlap>>

\* The servers listen, the file says where; the hotkeys are started.
Serve(p) ==
    /\ proc[p] = "bind" /\ proc' = [proc EXCEPT ![p] = "serving"] /\ info' = p
    /\ UNCHANGED <<asked, lock, cli, overlap>>

\* Ctrl+C or SIGTERM.
Signal(p) ==
    /\ proc[p] = "serving" /\ p \notin asked /\ asked' = asked \cup {p}
    /\ UNCHANGED <<proc, filesVars, cli, overlap>>

\* shutdown, to the end of IpcServer.stop.
StopServing(p) ==
    /\ proc[p] = "serving" /\ p \in asked /\ proc' = [proc EXCEPT ![p] = "stopping"]
    /\ UNCHANGED <<asked, filesVars, cli, overlap>>

Release(p) ==
    /\ proc[p] = "stopping" /\ proc' = [proc EXCEPT ![p] = "exiting"]
    /\ lock' = NoPid /\ info' = NoPid
    /\ UNCHANGED <<asked, cli, overlap>>

\* The process ends, when it has finished or, its files left behind, before.
Exit(p) ==
    /\ proc[p] \notin {"none", "gone", "alien"} /\ proc' = [proc EXCEPT ![p] = "gone"]
    /\ UNCHANGED <<asked, filesVars, cli, overlap>>

\* Another program is given the process id.
Reuse(p) ==
    /\ proc[p] = "gone" /\ proc' = [proc EXCEPT ![p] = "alien"]
    /\ UNCHANGED <<asked, filesVars, cli, overlap>>

-----------------------------------------------------------------------------
(***************************************************************************)
(* The commands.                                                           *)
(***************************************************************************)

Command(c) ==
    /\ cli[c] = "none"
    /\ \E op \in {"start", "stop", "restart"} :
         cli' = [cli EXCEPT ![c] = IF op # "restart" \/ Running THEN op ELSE "start"]
    /\ UNCHANGED <<proc, asked, filesVars, overlap>>

\* _stop_daemon: SHUTDOWN, to the daemon that the file names.
AskStop(c) ==
    /\ cli[c] \in {"stop", "restart"}
    /\ IF Running /\ Listens(info)
         THEN /\ asked' = asked \cup {info}
              /\ cli' = [cli EXCEPT ![c] = IF @ = "stop" THEN "done" ELSE "draining"]
         ELSE cli' = [cli EXCEPT ![c] = "failed"] /\ UNCHANGED asked
    /\ UNCHANGED <<proc, filesVars, overlap>>

\* _wait_for_daemon_stop, 10 s: it returns whether the daemon has gone or not.
Drained(c) ==
    /\ cli[c] = "draining" /\ cli' = [cli EXCEPT ![c] = "start"]
    /\ UNCHANGED <<proc, asked, filesVars, overlap>>

\* "already running", or the daemon is spawned.
Spawn(c) ==
    /\ cli[c] = "start"
    /\ \/ Running /\ cli' = [cli EXCEPT ![c] = "refused"] /\ UNCHANGED proc
       \/ /\ ~Running
          /\ \E p \in Pids :
               /\ proc[p] = "none" /\ proc' = [proc EXCEPT ![p] = "check"]
               /\ cli' = [cli EXCEPT ![c] = "waiting"]
    /\ UNCHANGED <<asked, filesVars, overlap>>

\* wait_for_daemon_ready: a ping is answered, or 15 s have passed, or the
\* connection is refused and the command ends with the error.
Ready(c) ==
    /\ cli[c] = "waiting"
    /\ \/ Running /\ Listens(info) /\ cli' = [cli EXCEPT ![c] = "done"]
       \/ cli' = [cli EXCEPT ![c] = "failed"]
    /\ UNCHANGED <<proc, asked, filesVars, overlap>>

-----------------------------------------------------------------------------
Daemon(p) ==
    \/ Check(p) \/ Clear(p) \/ WriteLock(p) \/ Serve(p) \/ Signal(p)
    \/ StopServing(p) \/ Release(p) \/ Exit(p) \/ Reuse(p)

Cli(c) == Command(c) \/ AskStop(c) \/ Drained(c) \/ Spawn(c) \/ Ready(c)

LifeNext == (\E p \in Pids : Daemon(p)) \/ (\E c \in Clis : Cli(c))

LifeSpec == LifeInit /\ [][LifeNext]_lifeVars

-----------------------------------------------------------------------------
(***************************************************************************)
(* Properties.                                                             *)
(***************************************************************************)

\* A daemon that serves, or is still stopping, is the one that the file names:
\* no other serves beside it and `sybl stop` can reach it, whatever commands,
\* crashes and reused process ids came before, unless two daemons were starting
\* at the same time.
ServerIsNamed ==
    overlap \/ \A p \in Pids : proc[p] \in {"serving", "stopping"} => info = p

=============================================================================
