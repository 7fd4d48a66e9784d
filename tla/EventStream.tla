----------------------------- MODULE EventStream -----------------------------
(***************************************************************************)
(* The daemon's events and its IPC servers (core/events.py,                *)
(* ipc/server.py): tasks that publish events, the event clients'           *)
(* connections, the commands in progress and stop().                       *)
(*                                                                         *)
(* The clients' lock hands itself over in the order it is asked for, so it *)
(* is the queue line, whose head holds it.  An event is its number in the  *)
(* order of publication.  An asyncio server's wait_closed (Python 3.12)    *)
(* waits for the connections that the server has accepted.                 *)
(***************************************************************************)
EXTENDS Naturals, Sequences, FiniteSets

CONSTANTS
    Conns,      \* bound: connections to the event port, one use each
    CmdConns,   \* bound: connections to the command port, one use each
    Readers,    \* the connections whose client reads what it is sent
    MaxCasts,   \* bound: events published
    Levels,     \* the events, by number, that the level task publishes
    HighWater   \* events that the buffers of a connection hold

ASSUME ConnsAssumption == Readers \subseteq Conns /\ IsFiniteSet(Conns)
ASSUME CastsAssumption == MaxCasts \in Nat /\ HighWater \in Nat /\ Levels \subseteq 1..MaxCasts

VARIABLES
    line,     \* the tasks that hold or await _event_clients_lock
    clients,  \* _event_clients
    cur,      \* the broadcast under way: clients to write to, dead ones, the
              \* ones whose drain is awaited
    cast,     \* number of events published
    cut,      \* the events whose publisher was cancelled before they were out
    h,        \* per connection: where _handle_event_client is
    link,     \* per connection: its transport
    sent,     \* per connection: the events written to it
    nread,    \* per connection: how many the client has read
    cmd,      \* per command: where _handle_command_client is
    awaits,   \* per command: the event that it publishes, 0 if none
    stop      \* where IpcServer.stop is

connVars   == <<h, link>>
bufVars    == <<sent, nread>>
cmdVars    == <<cmd, awaits>>
streamVars == <<line, clients, cur, cast, cut, connVars, bufVars, cmdVars, stop>>

NoCast   == [todo |-> {}, dead |-> {}, at |-> {}, on |-> FALSE]
Req(o, x) == [op |-> o, arg |-> x]
Requests  == {Req("cast", n) : n \in 1..MaxCasts} \cup {Req("stop", 0)}
               \cup {Req("add", c) : c \in Conns} \cup {Req("leave", c) : c \in Conns}

StreamTypeOK ==
    /\ line \in Seq(Requests)
    /\ clients \subseteq Conns
    /\ cur \in [todo : SUBSET Conns, dead : SUBSET Conns, at : SUBSET Conns, on : BOOLEAN]
    /\ cast \in 0..MaxCasts /\ cut \subseteq Levels
    /\ h \in [Conns -> {"none", "hello", "adding", "streaming", "leaving", "done"}]
    /\ link \in [Conns -> {"none", "up", "closing", "lost"}]
    /\ sent \in [Conns -> Seq(1..MaxCasts)] /\ nread \in [Conns -> Nat]
    /\ cmd \in [CmdConns -> {"none", "open", "casting", "done"}]
    /\ awaits \in [CmdConns -> 0..MaxCasts]
    /\ stop \in {"run", "asked", "commands", "events", "done"}

StreamInit ==
    /\ line = <<>> /\ clients = {} /\ cur = NoCast /\ cast = 0 /\ cut = {}
    /\ h = [c \in Conns |-> "none"] /\ link = [c \in Conns |-> "none"]
    /\ sent = [c \in Conns |-> <<>>] /\ nread = [c \in Conns |-> 0]
    /\ cmd = [k \in CmdConns |-> "none"] /\ awaits = [k \in CmdConns |-> 0] /\ stop = "run"

Holds(o)   == line # <<>> /\ Head(line).op = o
Backlog(c) == Len(sent[c]) - nread[c]
Close(S)   == [c \in Conns |-> IF c \in S /\ link[c] = "up" THEN "closing" ELSE link[c]]
Queued(n)  == \E i \in 1..Len(line) : line[i] = Req("cast", n)

-----------------------------------------------------------------------------
(***************************************************************************)
(* Publishing.                                                             *)
(***************************************************************************)

\* EventBus.publish, through _event_bridge, up to the lock.
Publish ==
    /\ cast < MaxCasts /\ stop # "done"
    /\ cast' = cast + 1 /\ line' = Append(line, Req("cast", cast + 1))

\* A task of the daemon publishes: a state, a transcript, a log entry, ...
TaskPublishes ==
    /\ Publish /\ cast' \notin Levels
    /\ UNCHANGED <<clients, cur, cut, connVars, bufVars, cmdVars, stop>>

\* ... or, one after the other, a level.
LevelPublishes ==
    /\ Publish /\ cast' \in Levels /\ \A n \in Levels : ~Queued(n)
    /\ UNCHANGED <<clients, cur, cut, connVars, bufVars, cmdVars, stop>>

\* The level task is cancelled where it waits for the lock or for a drain.
LevelCancelled ==
    \E i \in 1..Len(line) :
        /\ line[i].op = "cast" /\ line[i].arg \in Levels
        /\ line' = SubSeq(line, 1, i - 1) \o SubSeq(line, i + 1, Len(line))
        /\ cut' = cut \cup {line[i].arg}
        /\ cur' = IF i = 1 THEN NoCast ELSE cur
        /\ UNCHANGED <<clients, cast, connVars, bufVars, cmdVars, stop>>

\* Mutant of CastWrites: a task that only waits for the lock writes too.
CastWrites_Unlocked(c) ==
    \E i \in 1..Len(line) :
        /\ line[i].op = "cast" /\ cur.at = {}
        /\ c \in IF cur.on THEN cur.todo ELSE clients
        /\ cur' = [cur EXCEPT !.on = TRUE, !.at = {c},
                              !.todo = (IF cur.on THEN cur.todo ELSE clients) \ {c}]
        /\ sent' = IF link[c] = "up" THEN [sent EXCEPT ![c] = Append(@, line[i].arg)] ELSE sent
        /\ UNCHANGED <<line, clients, cast, cut, connVars, nread, cmdVars, stop>>

\* broadcast_event: the next client is written to, then its drain awaited.
CastWrites(c) ==
    /\ Holds("cast") /\ cur.at = {}
    /\ c \in IF cur.on THEN cur.todo ELSE clients
    /\ cur' = [cur EXCEPT !.on = TRUE, !.at = {c},
                          !.todo = (IF cur.on THEN cur.todo ELSE clients) \ {c}]
    /\ sent' = IF link[c] = "up" THEN [sent EXCEPT ![c] = Append(@, Head(line).arg)] ELSE sent
    /\ UNCHANGED <<line, clients, cast, cut, connVars, nread, cmdVars, stop>>

CastDrains(c) ==
    /\ cur.at = {c}
    /\ \/ link[c] = "lost" /\ cur' = [cur EXCEPT !.at = {}, !.dead = @ \cup {c}]
       \/ /\ link[c] # "lost" /\ Backlog(c) <= HighWater
          /\ cur' = [cur EXCEPT !.at = {}]
    /\ UNCHANGED <<line, clients, cast, cut, connVars, bufVars, cmdVars, stop>>

\* Mutant of CastEnds: the lock is not given back if a client is dead.
CastEnds_KeepsLock ==
    /\ Holds("cast") /\ cur.at = {} /\ (IF cur.on THEN cur.todo ELSE clients) = {}
    /\ cur.dead = {}
    /\ cur' = NoCast /\ line' = Tail(line)
    /\ UNCHANGED <<clients, cast, cut, connVars, bufVars, cmdVars, stop>>

CastEnds ==
    /\ Holds("cast") /\ cur.at = {} /\ (IF cur.on THEN cur.todo ELSE clients) = {}
    /\ clients' = clients \ cur.dead /\ link' = Close(cur.dead)
    /\ cur' = NoCast /\ line' = Tail(line)
    /\ UNCHANGED <<cast, cut, h, bufVars, cmdVars, stop>>

-----------------------------------------------------------------------------
(***************************************************************************)
(* _handle_event_client.                                                   *)
(***************************************************************************)

\* A client connects while the event server listens.
Connect(c) ==
    /\ h[c] = "none" /\ stop \in {"run", "asked", "commands"}
    /\ h' = [h EXCEPT ![c] = "hello"] /\ link' = [link EXCEPT ![c] = "up"]
    /\ UNCHANGED <<line, clients, cur, cast, cut, bufVars, cmdVars, stop>>

\* Its hello is good and answered.
HelloOk(c) ==
    /\ h[c] = "hello" /\ link[c] = "up"
    /\ h' = [h EXCEPT ![c] = "adding"] /\ line' = Append(line, Req("add", c))
    /\ UNCHANGED <<clients, cur, cast, cut, link, bufVars, cmdVars, stop>>

\* It is bad, or none comes in 10 s.
HelloFails(c) ==
    /\ h[c] = "hello"
    /\ h' = [h EXCEPT ![c] = "leaving"] /\ line' = Append(line, Req("leave", c))
    /\ \/ link' = Close({c})
       \/ UNCHANGED link
    /\ UNCHANGED <<clients, cur, cast, cut, bufVars, cmdVars, stop>>

Add(c) ==
    /\ Holds("add") /\ Head(line).arg = c
    /\ clients' = clients \cup {c} /\ line' = Tail(line)
    /\ h' = [h EXCEPT ![c] = "streaming"]
    /\ UNCHANGED <<cur, cast, cut, link, bufVars, cmdVars, stop>>

\* Mutant of StreamEnds: the client is taken from the set without the lock.
StreamEnds_Unlocked(c) ==
    /\ h[c] = "streaming" /\ link[c] = "lost"
    /\ h' = [h EXCEPT ![c] = "done"] /\ clients' = clients \ {c}
    /\ UNCHANGED <<line, cur, cast, cut, link, bufVars, cmdVars, stop>>

\* The read loop sees the end of the connection.
StreamEnds(c) ==
    /\ h[c] = "streaming" /\ link[c] = "lost"
    /\ h' = [h EXCEPT ![c] = "leaving"] /\ line' = Append(line, Req("leave", c))
    /\ UNCHANGED <<clients, cur, cast, cut, link, bufVars, cmdVars, stop>>

Leave(c) ==
    /\ Holds("leave") /\ Head(line).arg = c
    /\ clients' = clients \ {c} /\ line' = Tail(line) /\ link' = Close({c})
    /\ h' = [h EXCEPT ![c] = "done"]
    /\ UNCHANGED <<cur, cast, cut, bufVars, cmdVars, stop>>

\* The client reads; it goes away; a closed transport has sent what it held.
Read(c) ==
    /\ Backlog(c) > 0 /\ link[c] \in {"up", "closing"}
    /\ nread' = [nread EXCEPT ![c] = @ + 1]
    /\ UNCHANGED <<line, clients, cur, cast, cut, connVars, sent, cmdVars, stop>>

PeerCloses(c) ==
    /\ link[c] \in {"up", "closing"} /\ link' = [link EXCEPT ![c] = "lost"]
    /\ UNCHANGED <<line, clients, cur, cast, cut, h, bufVars, cmdVars, stop>>

Flushed(c) ==
    /\ link[c] = "closing" /\ Backlog(c) <= HighWater
    /\ link' = [link EXCEPT ![c] = "lost"]
    /\ UNCHANGED <<line, clients, cur, cast, cut, h, bufVars, cmdVars, stop>>

-----------------------------------------------------------------------------
(***************************************************************************)
(* _handle_command_client and stop.                                        *)
(***************************************************************************)

CmdOpens(k) ==
    /\ cmd[k] = "none" /\ stop \in {"run", "asked"}
    /\ cmd' = [cmd EXCEPT ![k] = "open"]
    /\ UNCHANGED <<line, clients, cur, cast, cut, connVars, bufVars, awaits, stop>>

\* patch_config and clear_sound end by publishing config_changed.
CmdPublishes(k) ==
    /\ cmd[k] = "open" /\ Publish /\ cast' \notin Levels
    /\ cmd' = [cmd EXCEPT ![k] = "casting"] /\ awaits' = [awaits EXCEPT ![k] = cast']
    /\ UNCHANGED <<clients, cur, cut, connVars, bufVars, stop>>

\* A command ends when its client has sent a line, or gone, and taken the
\* answer: the line is awaited without a timeout.  One that publishes is past
\* its line, and its answer is short.
CmdEnds(k) ==
    /\ \/ cmd[k] = "open"
       \/ cmd[k] = "casting" /\ ~Queued(awaits[k])
    /\ cmd' = [cmd EXCEPT ![k] = "done"]
    /\ UNCHANGED <<line, clients, cur, cast, cut, connVars, bufVars, awaits, stop>>

CommandsDone == \A k \in CmdConns : cmd[k] \in {"none", "done"}

StopBegins ==
    /\ stop = "run" /\ stop' = "asked" /\ line' = Append(line, Req("stop", 0))
    /\ UNCHANGED <<clients, cur, cast, cut, connVars, bufVars, cmdVars>>

\* Mutant of StopClears: the clients are not closed.
StopClears_LeavesOpen ==
    /\ Holds("stop") /\ clients' = {} /\ line' = Tail(line)
    /\ stop' = IF CommandsDone THEN "events" ELSE "commands"
    /\ UNCHANGED <<cur, cast, cut, connVars, bufVars, cmdVars>>

\* The clients are closed under the lock, then the command server, ...
StopClears ==
    /\ Holds("stop")
    /\ link' = Close(clients) /\ clients' = {} /\ line' = Tail(line)
    /\ stop' = IF CommandsDone THEN "events" ELSE "commands"
    /\ UNCHANGED <<cur, cast, cut, h, bufVars, cmdVars>>

\* ... the event server once the commands have ended, ...
StopCommands ==
    /\ stop = "commands" /\ CommandsDone /\ stop' = "events"
    /\ UNCHANGED <<line, clients, cur, cast, cut, connVars, bufVars, cmdVars>>

\* ... and it has stopped once the event connections have.
StopEvents ==
    /\ stop = "events" /\ \A c \in Conns : link[c] \in {"none", "lost"}
    /\ stop' = "done"
    /\ UNCHANGED <<line, clients, cur, cast, cut, connVars, bufVars, cmdVars>>

-----------------------------------------------------------------------------
Broadcast == (\E c \in Conns : CastWrites(c) \/ CastDrains(c)) \/ CastEnds

EventClient(c) == HelloOk(c) \/ HelloFails(c) \/ Add(c) \/ StreamEnds(c) \/ Leave(c)

Stopping == StopClears \/ StopCommands \/ StopEvents

StreamNext ==
    \/ TaskPublishes \/ LevelPublishes \/ LevelCancelled \/ Broadcast \/ StopBegins \/ Stopping
    \/ \E c \in Conns : Connect(c) \/ EventClient(c) \/ Read(c) \/ PeerCloses(c) \/ Flushed(c)
    \/ \E k \in CmdConns : CmdOpens(k) \/ CmdPublishes(k) \/ CmdEnds(k)

StreamSpec == StreamInit /\ [][StreamNext]_streamVars

\* The loop runs what is ready, transports send what is taken from them, a
\* client among the Readers reads.  Nobody has to connect, close or publish, and
\* a command client need not send its line.
StreamFair ==
    /\ WF_streamVars(Broadcast) /\ WF_streamVars(Stopping)
    /\ \A c \in Conns : WF_streamVars(EventClient(c)) /\ WF_streamVars(Flushed(c))
    /\ \A c \in Readers : WF_streamVars(Read(c))
    /\ \A k \in CmdConns : WF_streamVars(cmd[k] = "casting" /\ CmdEnds(k))

StreamFairSpec == StreamSpec /\ StreamFair

-----------------------------------------------------------------------------
(***************************************************************************)
(* Properties.                                                             *)
(***************************************************************************)

\* A client is sent the events in the order they were published, whatever
\* publishes at the same time, and from the first it gets to the last it misses
\* none but those whose publisher was cancelled.
SentInOrder ==
    \A c \in Conns : \A i \in 1..(Len(sent[c]) - 1) :
        /\ sent[c][i] < sent[c][i + 1]
        /\ \A n \in (sent[c][i] + 1)..(sent[c][i + 1] - 1) : n \in cut

\* The set of clients does not change under a broadcast that iterates over it
\* (Python would raise, and the event would miss the clients that are left).
IterationStable ==
    [][cur.on /\ cur'.on => clients' = clients]_streamVars

\* Every event is broadcast and its publisher goes on, provided the clients read.
PublisherReturns ==
    \A n \in 1..MaxCasts : Queued(n) ~> ~Queued(n)

\* stop() ends, whatever is published, connecting or leaving meanwhile, with two
\* exceptions: an event client has joined after the set was cleared, or a command
\* client stays connected for ever and sends nothing.
StopEnds ==
    \/ <>[](\E k \in CmdConns : cmd[k] = "open")
    \/ stop # "run" ~> stop = "done" \/ clients # {}
=============================================================================
