---------------------------- MODULE AudioSession ----------------------------
(***************************************************************************)
(* One capture (audio/session.py): PortAudio's callback thread hands blocks*)
(* to the event loop, which queues them; the pump task moves them to the   *)
(* buffer and to the chunks that a streaming consumer reads; a client      *)
(* starts the capture and stops or cancels it.                             *)
(*                                                                         *)
(* Blocks are numbered in the order in which they are captured; levels and *)
(* resampling are left out.  The loop runs one callback or one task at a   *)
(* time; while the client closes the input stream the loop is blocked, but *)
(* the callback thread is not.  A capture is started once, as its callers  *)
(* do.                                                                     *)
(***************************************************************************)
EXTENDS Naturals, Sequences

CONSTANTS
    MaxBlocks,   \* bound: blocks captured
    Faults       \* the kinds of failure that may happen

ASSUME BlocksAssumption == MaxBlocks \in Nat \ {0}
ASSUME FaultsAssumption == Faults \subseteq {"open", "start", "pump", "kill"}

VARIABLES
    device,      \* _stream: "none", "unstarted", "open"
    recording,   \* _recording
    captured,    \* the number of blocks the callback has seen
    posted,      \* call_soon_threadsafe: blocks the loop has not queued yet
    raw,         \* _raw_queue
    pump,        \* _pump_task, "failed" if it left a _stream_error
    buffer,      \* _buffer
    chunks,      \* _chunk_queue
    heard,       \* the chunks the consumer has read
    ended,       \* whether it has met the sentinel
    client,      \* where the client is
    pcm,         \* what stop() returned
    queued       \* history variable: blocks queued before stop() was called

audioVars == <<device, captured, posted>>
vars == <<audioVars, recording, raw, pump, buffer, chunks, heard, ended, client,
          pcm, queued>>

Blocks == 1..MaxBlocks
Sentinel == 0

\* The event loop runs nothing else while the client closes the input stream.
LoopFree == client \notin {"stopClose", "cancelClose"}

TypeOK ==
    /\ device \in {"none", "unstarted", "open"}
    /\ recording \in BOOLEAN /\ ended \in BOOLEAN
    /\ captured \in 0..MaxBlocks /\ queued \in 0..MaxBlocks
    /\ posted \in Seq(Blocks) /\ buffer \in Seq(Blocks)
    /\ heard \in Seq(Blocks) /\ pcm \in Seq(Blocks)
    /\ raw \in Seq(Blocks \cup {Sentinel}) /\ chunks \in Seq(Blocks \cup {Sentinel})
    /\ pump \in {"none", "running", "failed", "done", "cancelled"}
    /\ client \in {"new", "capturing", "stopClose", "stopWait", "returned",
                   "cancelClose", "cancelWait", "cancelled", "failed"}

Init ==
    /\ device = "none" /\ recording = FALSE /\ captured = 0
    /\ posted = <<>> /\ raw = <<>> /\ pump = "none" /\ buffer = <<>>
    /\ chunks = <<>> /\ heard = <<>> /\ ended = FALSE
    /\ client = "new" /\ pcm = <<>> /\ queued = 0

-----------------------------------------------------------------------------
(***************************************************************************)
(* The client.                                                             *)
(***************************************************************************)

Start ==
    /\ client = "new"
    /\ device' = "open" /\ recording' = TRUE /\ pump' = "running"
    /\ client' = "capturing"
    /\ UNCHANGED <<captured, posted, raw, buffer, chunks, heard, ended, pcm, queued>>

\* No rate opens the device, or the opened stream does not start: the session
\* is not recording, and an opened stream stays open.
StartFails ==
    /\ client = "new"
    /\ \/ "open" \in Faults /\ UNCHANGED device
       \/ "start" \in Faults /\ device' = "unstarted"
    /\ client' = "failed"
    /\ UNCHANGED <<captured, posted, recording, raw, pump, buffer, chunks, heard,
                   ended, pcm, queued>>

Stop ==
    /\ client = "capturing"
    /\ recording' = FALSE /\ client' = "stopClose"
    /\ queued' = Len(buffer) + Len(raw)
    /\ UNCHANGED <<audioVars, raw, pump, buffer, chunks, heard, ended, pcm>>

Cancel ==
    /\ client = "capturing"
    /\ recording' = FALSE /\ client' = "cancelClose" /\ buffer' = <<>>
    /\ UNCHANGED <<audioVars, raw, pump, chunks, heard, ended, pcm, queued>>

\* Mutants of CloseDevice: no sentinel; the sentinel in front.
CloseDevice_NoSentinel ==
    /\ client \in {"stopClose", "cancelClose"}
    /\ device' = "none" /\ UNCHANGED raw
    /\ client' = IF client = "stopClose" THEN "stopWait" ELSE "cancelWait"
    /\ UNCHANGED <<captured, posted, recording, pump, buffer, chunks, heard, ended,
                   pcm, queued>>

CloseDevice_Front ==
    /\ client \in {"stopClose", "cancelClose"}
    /\ device' = "none" /\ raw' = <<Sentinel>> \o raw
    /\ client' = IF client = "stopClose" THEN "stopWait" ELSE "cancelWait"
    /\ UNCHANGED <<captured, posted, recording, pump, buffer, chunks, heard, ended,
                   pcm, queued>>

\* _teardown up to its wait: the input stream is closed, the sentinel queued
\* ahead of blocks that the loop has not queued yet.
CloseDevice ==
    /\ client \in {"stopClose", "cancelClose"}
    /\ device' = "none" /\ raw' = Append(raw, Sentinel)
    /\ client' = IF client = "stopClose" THEN "stopWait" ELSE "cancelWait"
    /\ UNCHANGED <<captured, posted, recording, pump, buffer, chunks, heard, ended,
                   pcm, queued>>

\* ... and after it.
StopEnds ==
    /\ client = "stopWait" /\ pump # "running"
    /\ IF pump = "failed" THEN client' = "failed" /\ UNCHANGED pcm
                          ELSE client' = "returned" /\ pcm' = buffer
    /\ UNCHANGED <<audioVars, recording, raw, pump, buffer, chunks, heard, ended, queued>>

CancelEnds ==
    /\ client = "cancelWait" /\ pump # "running"
    /\ client' = "cancelled"
    /\ UNCHANGED <<audioVars, recording, raw, pump, buffer, chunks, heard, ended, pcm,
                   queued>>

\* The client's task is cancelled in the wait: the wait cancels the pump and
\* swallows the CancelledError.
KillWait ==
    /\ "kill" \in Faults /\ client \in {"stopWait", "cancelWait"}
    /\ pump = "running" /\ pump' = "cancelled"
    /\ chunks' = Append(chunks, Sentinel)
    /\ UNCHANGED <<audioVars, recording, raw, buffer, heard, ended, client, pcm, queued>>

-----------------------------------------------------------------------------
(***************************************************************************)
(* The callback thread, the loop, the pump and the consumer.               *)
(***************************************************************************)

\* _callback: only a running input stream calls it.
Callback ==
    /\ device = "open" /\ captured < MaxBlocks
    /\ captured' = captured + 1 /\ posted' = Append(posted, captured')
    /\ UNCHANGED <<device, recording, raw, pump, buffer, chunks, heard, ended, client,
                   pcm, queued>>

\* Mutant of QueueBlock: a block of a stopped capture joins the buffer.
QueueBlock_Late ==
    /\ LoopFree /\ posted # <<>>
    /\ raw' = Append(raw, Head(posted)) /\ posted' = Tail(posted)
    /\ buffer' = IF recording THEN buffer ELSE Append(buffer, Head(posted))
    /\ UNCHANGED <<device, captured, recording, pump, chunks, heard, ended, client,
                   pcm, queued>>

\* The loop runs raw_queue.put_nowait.
QueueBlock ==
    /\ LoopFree /\ posted # <<>>
    /\ raw' = Append(raw, Head(posted)) /\ posted' = Tail(posted)
    /\ UNCHANGED <<device, captured, recording, pump, buffer, chunks, heard, ended,
                   client, pcm, queued>>

\* Mutants of PumpBlock: the sentinel is taken for a block; a block is offered
\* to the consumer but kept only while recording.
PumpBlock_Sentinel ==
    /\ LoopFree /\ pump = "running" /\ raw # <<>>
    /\ raw' = Tail(raw)
    /\ buffer' = Append(buffer, Head(raw)) /\ chunks' = Append(chunks, Head(raw))
    /\ UNCHANGED <<audioVars, recording, pump, heard, ended, client, pcm, queued>>

PumpBlock_WhileRecording ==
    /\ LoopFree /\ pump = "running" /\ raw # <<>> /\ Head(raw) # Sentinel
    /\ raw' = Tail(raw) /\ chunks' = Append(chunks, Head(raw))
    /\ buffer' = IF recording THEN Append(buffer, Head(raw)) ELSE buffer
    /\ UNCHANGED <<audioVars, recording, pump, heard, ended, client, pcm, queued>>

PumpBlock ==
    /\ LoopFree /\ pump = "running" /\ raw # <<>> /\ Head(raw) # Sentinel
    /\ raw' = Tail(raw)
    /\ buffer' = Append(buffer, Head(raw)) /\ chunks' = Append(chunks, Head(raw))
    /\ UNCHANGED <<audioVars, recording, pump, heard, ended, client, pcm, queued>>

\* Resampling or metering raises; the error waits for stop().
PumpFails ==
    /\ "pump" \in Faults
    /\ LoopFree /\ pump = "running" /\ raw # <<>> /\ Head(raw) # Sentinel
    /\ raw' = Tail(raw)
    /\ pump' = "failed" /\ chunks' = Append(chunks, Sentinel)
    /\ UNCHANGED <<audioVars, recording, buffer, heard, ended, client, pcm, queued>>

\* Mutant of PumpEnds: the consumer is not told.
PumpEnds_Silent ==
    /\ LoopFree /\ pump = "running" /\ raw # <<>> /\ Head(raw) = Sentinel
    /\ raw' = Tail(raw) /\ pump' = "done"
    /\ UNCHANGED <<audioVars, recording, buffer, chunks, heard, ended, client, pcm, queued>>

PumpEnds ==
    /\ LoopFree /\ pump = "running" /\ raw # <<>> /\ Head(raw) = Sentinel
    /\ raw' = Tail(raw)
    /\ pump' = "done" /\ chunks' = Append(chunks, Sentinel)
    /\ UNCHANGED <<audioVars, recording, buffer, heard, ended, client, pcm, queued>>

\* chunks()
Consume ==
    /\ LoopFree /\ ~ended /\ chunks # <<>>
    /\ chunks' = Tail(chunks)
    /\ IF Head(chunks) = Sentinel
       THEN ended' = TRUE /\ UNCHANGED heard
       ELSE heard' = Append(heard, Head(chunks)) /\ UNCHANGED ended
    /\ UNCHANGED <<audioVars, recording, raw, pump, buffer, client, pcm, queued>>

-----------------------------------------------------------------------------
Teardown == CloseDevice \/ StopEnds \/ CancelEnds
Loop == QueueBlock \/ PumpBlock \/ PumpFails \/ PumpEnds \/ Consume

Next ==
    \/ Start \/ StartFails \/ Stop \/ Cancel \/ Teardown \/ KillWait
    \/ Callback \/ Loop

Spec == Init /\ [][Next]_vars

\* The loop runs what is ready; closing a device returns.
Fairness ==
    /\ WF_vars(Teardown) /\ WF_vars(QueueBlock) /\ WF_vars(Consume)
    /\ WF_vars(PumpBlock \/ PumpFails \/ PumpEnds)
FairSpec == Spec /\ Fairness

-----------------------------------------------------------------------------
(***************************************************************************)
(* Properties.                                                             *)
(***************************************************************************)

FirstBlocks(n) == [i \in 1..n |-> i]

\* The recording is the beginning of what the microphone gave: no block is
\* missing in it, repeated or out of place, whichever task ran when.
ReturnsAPrefix == client = "returned" => pcm = FirstBlocks(Len(pcm))

\* Blocks that were queued when stop() was called are in the recording, unless
\* the pump was cancelled with the client's task.  (Blocks that the loop has
\* not queued by then are lost in any case.)
KeepsQueuedAudio == client = "returned" /\ pump = "done" => Len(pcm) >= queued

\* Batch and streaming transcription see the same audio: once both are over,
\* the chunks read are the recording returned.
ChunksAreTheRecording == client = "returned" /\ ended => heard = pcm

\* Whoever reads the chunks is told when there are no more, also when the pump
\* failed in the middle of a recording or was cancelled.
ChunksEnd == pump \in {"failed", "done", "cancelled"} ~> ended

\* stop() and cancel() return.
TeardownEnds == client \in {"stopClose", "cancelClose"}
                    ~> client \in {"returned", "cancelled", "failed"}
=============================================================================
