# Verification of sybl

sybl is a voice-dictation daemon for Windows (Python, asyncio): a global hotkey
starts a capture of the microphone, a speech provider turns it into text, and
the text is pasted into the focused application. This directory holds TLA+
models of it, the TLC configurations that check them and TLAPS proofs. Paths
below are relative to `src/sybl/`.

## Inventory

| Part | State | Operations | Meets |
|---|---|---|---|
| state machine, `core/state.py` | the session state | `transition`, `reset` | controller, transcription |
| controller, `core/dictation.py` | capture session, stream task, streaming flag, provider, focus; one lock | handlers of ACTIVATE, DEACTIVATE, CANCEL; `shutdown`, `update_config` | everything below |
| transcription, `core/transcribe.py` | shares the state machine | batch call, streaming task | providers, capture chunks |
| daemon, `core/daemon.py` | announced state, level task, config, indicator | state callback, `apply_config`, commands, `run`, `shutdown` | controller, IPC, indicator, hotkeys |
| hotkey manager, `hotkeys/pynput_backend.py` | pressed keys, session flags, hold timer, event queue | key callbacks (a thread), hold timers (threads), `start`, `stop`, consumer task | controller |
| capture, `audio/session.py` | input stream, raw queue, buffer, chunk queue, pump task | callback (a thread), `start`, `stop`, `cancel`, `chunks` | controller, transcription |
| injection, `inject/` | the clipboard | `inject` (a worker thread) | controller |
| post-processing, `core/postprocess.py`, `core/voice_commands.py` | none | text functions, commands | controller |
| history and events, `core/history.py`, `core/events.py`, `logging/ring_buffer.py` | rings, log cursor, subscribers | `add`, `publish`, `get_logs_since` | daemon, IPC |
| IPC, `ipc/server.py`, `ipc/client.py` | event clients under a lock | commands, broadcast, `stop` | daemon, dashboard, CLI |
| daemon processes, `ipc/single_instance.py`, `daemon/spawn.py`, `cli/start.py`, `cli/restart.py` | lock and info files | acquire, release, spawn, restart | operating system |
| configuration, `config/` | files, vocabulary, sounds | load, save, edit | daemon, CLI, dashboard |
| providers, `providers/` | registry | resolve, transcribe, retry | transcription |
| dock pill, `indicator/` | a second process, its pending commands, hide timer | show, hide, phase, level | daemon |
| dashboard, `tui/` | connection flag, last status, log cursor | refresh, event loop | IPC |
| command line, `cli/` | none | one command each | IPC, config |

How they interact. Keyboard and timer threads post events to the loop; one
consumer task takes them from a queue and runs one handler at a time under the
controller's lock. The handler suspends at many awaits, at which the streaming
task, the level task, configuration patches (each in an IPC connection's task)
and shutdown run. PortAudio's thread posts audio blocks to the loop. Injection
runs in a worker thread that no timeout can stop.

What is hard: a transcription that fails or ends just as the dictation is
cancelled, stopped or killed; patches in the middle of a dictation; `hotkeys.stop()`
cancelling the handler after 2 s; threads that share fields without a lock; a
shutdown waiting for the lock. `PROJECT.json` lists the hazards with their lines.
What makes each part correct:

- controller: the microphone is open only while the user can see the dictation
  and, unless its stream has failed, end it; nothing cancelled is delivered; text is recorded before it is
  pasted; each dictation is delivered once, in order; it gets back to IDLE and
  shuts down;
- hotkey manager: what it posts starts and ends dictations as the user presses;
- capture: the recording is a gap-free beginning of the audio, the same for
  batch and streaming; stopping terminates and the consumer is told;
- events and IPC server: a client gets the events in order and without a gap, a
  publisher is not held up, `stop()` ends;
- daemon processes: a daemon that serves is the one its file names;
- configuration: listener, cue and file follow the settings, however commands overlap;
- pill: it is on screen, in the right phase, when it was asked to be;
- injection: the transcript is pasted and the clipboard is given back;
- providers and streaming: the text is what was said, from the provider chosen;
- post-processing: it keeps the words and the line breaks;
- dashboard and settings screen: what they show is true, and a Save changes what
  was changed;
- doctor: what it passes works.

## Modules

| Module | Models |
|---|---|
| `SessionState` | the states and the transition table |
| `Dictation` | controller, streaming task, daemon's state callback, level task, hotkey consumer, patches, injection threads, shutdown |
| `DictationContract` | abstract specification: what a user may rely on |
| `DictationProofs`, `DictationHandlerProofs` | theorems on `Dictation`: what holds under every failure; what holds without some |
| `MCDictation` | sets of failures for TLC |
| `Hotkeys`, `MCHotkeys` | key callbacks and hold timers; keys for TLC |
| `HotkeysProofs` | theorems on `Hotkeys` |
| `AudioSession` | one capture |
| `EventStream` | event bus, event clients, broadcasts under the lock, commands in progress, `IpcServer.stop` |
| `EventStreamProofs` | theorems on `EventStream` |
| `DaemonLifecycle` | daemon processes, their two files, start, stop, restart |
| `DaemonConfig` | configuration of a running daemon: patches, sound commands, edits of the file |
| `PillHost` | both sides of the pill's pipe |
| `Injection` | injection threads, the clipboard, the program that pastes |
| `SpeechToText` | a streamed dictation: feeder, receiver, server, collection of results |
| `Providers` | resolution of a provider, its requests, changes in between |
| `TextPipeline` | post-processing and voice commands on a sequence of tokens |
| `Dashboard` | the dashboard's event loop and its refreshes |
| `SettingsScreen` | the settings screen beside other clients |
| `Doctor` | `sybl doctor`, then a dictation in the same environment |
| `Picks` | subsequences, by a recursive function, for `SpeechToText` and `TextPipeline` |
| `AudioSessionProofs` | theorems on `AudioSession` |
| `DaemonProofs` | theorems on `DaemonLifecycle`, `PillHost`, `DaemonConfig` |
| `OutputProofs` | theorems on `Injection`, `Providers`, `SpeechToText`, `TextPipeline`, and lemmas on `Picks` |
| `ClientProofs` | theorems on `Doctor`, `Dashboard`, `SettingsScreen`, and on `MCParts`, which is all parts side by side |
| `MCParts` | the ten parts from `DaemonLifecycle` to `Doctor`, one at a time, for TLC |

### Dictation

A coroutine runs without interruption between awaits, so an action is such a
stretch, and `pc` names the await at which the hotkey handler is suspended;
`"rest"` means that no handler runs. `sd` is the same for `shutdown`, `stream[s]`
and `thr[s]` are the streaming task and the injection thread of dictation `s`.
Every await is treated as a real suspension, which adds behaviours and removes
none. A dictation is identified by the number of its activation; audio, text,
provider and focus are abstracted to it, and text further to blank, a voice
command or text. `Faults` names the failures that may happen, so that a property
which a failure breaks is checked without it and the run that shows the breakage
has it. Every failure is raised where the code can raise it.

| Fault | Code |
|---|---|
| provider | `resolve_provider` raises in `_on_activate` |
| device, mic | the capture's constructor, its `start` (`core/dictation.py:124-128`) |
| portaudio, pump | the stream, the pump, fail at `stop` or `cancel` |
| stt, secrets | the transcription, the lookup of its key |
| inject, hang | the injection raises, or outlives the 15 s wait |
| overtake | listener events posted ahead of the hold timer's ACTIVATE, see below |

`Patch` is `apply_config` up to its first await and `HotkeysRestart` the rest;
`BeginStop`, `ConsumerStops` and `ConsumerKilled` are `hotkeys.stop()`. Sentinels
are queued ahead of events whose `put_nowait` has not run yet. What the hotkey
threads may post is `Emit`, the environment of this module and the subject of
`Hotkeys`. `restart` says that a patch still owes a new manager. Shutdown stops at
once the manager that the daemon holds (`ShutdownHotkeys`), which the patch may be
stopping, or have stopped, as well; the patch goes on all the same, and what it then
starts lives until the process ends. Between the two lies `ipc.stop()` (`sd` =
`"ipcStop"`), which waits for clients and is not taken to end. One detail of the loop matters and is modelled: a level task that was
cancelled before the queue's consumer was woken runs first.

### DictationContract

Four sets: dictations being captured, recorded, dropped and typed. At most one
capture is open; a dictation is recorded once, after it closed, unless dropped;
it is typed only if recorded. `Dictation!ContractSpec` is the refinement
`open <- mic, kept <- history, dropped <- discarded, typed <- pasted threads`.

### Hotkeys

The listener's thread and the timer threads share the manager's fields. A
callback runs in steps (`lpc`), a timer thread too (`timer[t]`). Every read and write
of the hold timer's two fields, `_ptt_timer` and `_ptt_armed`, is a step of its own, so
that the other thread can come between any two of them: `_cancel_ptt_timer` is
`CancelTests`, `CancelRef` (which meets a reference that has been cleared in between
with an AttributeError, the end of the listener's thread: `lpc = "dead"`) and `Disarm`,
called from five places (`back`); `_schedule_ptt` creates, flags and starts a timer in
three steps; `_ptt_timer_fired` clears the one field, then the other, then reads
`_active`, then the keys. Only the assignments of `_deactivate` and of the two
`_activate` functions are one step each: two threads see them apart in the mode both
alone, about which no property says anything of these fields but `_active`. Time is
left out: the hold threshold and the double-press window pass at
any moment. `listening` is the controller's view: it dictates after ACTIVATE and
stops at DEACTIVATE or CANCEL. `tapped` is a history variable: a press while
nothing is dictated, less than a window ago; `late` are the timers that were created
while the thread of an earlier one could still clear the two fields. Auto-repeat is a press of a key
already down.

### AudioSession

The callback thread posts blocks (`posted`), the loop queues them (`raw`), the pump
moves them to `buffer` and `chunks`, a consumer reads the chunks. `stop` and
`cancel` close the input stream, during which the loop is blocked and the callback
thread is not (`client` in `stopClose`, `cancelClose`), queue a sentinel and wait
for the pump. Each session object is started once, as its callers do. `KillWait`
is a client task cancelled in that wait.

### EventStream

Everything runs on the daemon's loop. An asyncio lock goes to whoever asked first, so
`_event_clients_lock` is the queue `line`, whose head holds it; `cur` is the broadcast
under way, with the client whose `drain()` is awaited. A broadcast visits the clients
in any order (a Python set). `Levels` are the events of the level task, which a state
change cancels at whatever await it is suspended: its event is then in `cut`, and the
lock is given back. `link` is a transport: closing, it still sends what it holds.

How it meets the others: `Dictation` treats an announcement as an await that ends,
which is `PublisherReturns` here; `Dashboard` takes events in the order
`SentInOrder` gives; `Dictation!InjectEnds` lets go of the thread that `Injection`
follows to its end; `PillHost!Tell` sends a phase only while the pill is shown, as
`Dictation` does.

### The other parts

- `DaemonLifecycle`: `acquire` is three steps (check, remove, write), and between any two
  of them another process runs. `Exit` in any place is a crash. `Running` is what
  `is_daemon_running` sees: whatever lives under the id in the file.
- `DaemonConfig`: `apply_config` runs without interruption up to `hotkeys.stop()`, hence
  `Apply` and `RestartHotkeys`. The file of a sound is handled in a thread
  (`CopySound`, `RemoveSound`), the rest on the loop. A copy that fails midway leaves
  a part of the file under the name, maybe that of the loaded cue (`torn`). A
  setting's value is the command that set it.
- `PillHost`: a line goes through the pipe, the reader thread, which looks at `ready`
  before it chooses a queue (`Reads`, `Puts`), and the window's thread (`Obey`).
- `Injection`: a thread per transcript; a second starts only while the first is stuck at
  the window that does not respond. Only text can be restored, and text whose read
  fails counts as an empty clipboard (`ReadPrior`).
- `SpeechToText`: words are the chunks that hold them, and a result is the stretch of
  chunks that it is about; the server may revise and mishear interim results, and the
  connection may break anywhere. A message that the receiver cannot parse ends the
  receiver too, with the connection left open; that case is not modelled.
- `Providers`: one action per choice (`Activate`, `AskBatch`) and one per request;
  settings and keys change in between. `VocabularySent` is refuted, see below.
- `TextPipeline`: the regular expressions by what they remove, on tokens; which passes
  are enabled, the voice commands among them, is a choice (`passes`).
- `Dashboard`: several refreshes at a time, each with two answers under way, either of
  which may fail (`RefreshFails`, `RefreshClosed`); the daemon goes down and comes back
  empty. Its state changes with an event (`StateChanges`) or, when the provider fails
  or shutdown resets it, without one (`StateSlips`); `due` is the moment between an
  announced error or transcript and the state that follows at once.
- `SettingsScreen`: a setting of each kind: sent at once, by Save, by both, a sound. The
  one in the form is the volume, which the screen shows and saves as a whole percentage
  (`Whole`); a sound that the list does not have is shown as the built-in one
  (`RefreshSounds`). A command may fail, done or not (`HandlerFails`): the exception
  leaves the handler and, by Textual, which is external, ends the dashboard.
- `Doctor`: the checks in their order (those that say nothing of a dictation are one,
  `CheckRest`), then `sybl stop` and `sybl start`, which refuses while a daemon runs,
  and `Dictate`, by the daemon there is (`server`: one that has loaded this
  configuration, one that has loaded another, or a process that only has its id).

History variables (`overlap`, `spoilt`, `torn`, `late`, `hasty`, `lost`, `mixed`, `missed`, `behind`,
`moved`, `foreign`) record what a property excepts. Each is set by the very overlap or
failure that breaks it, so the property says that nothing else does.

## Runs

| Run | Instance | Shows |
|---|---|---|
| `dictation_faults` | 2 dictations, 3 queued events, every failure inside the daemon, a hotkey patch; fair | the microphone is never orphaned nor open unseen, and CANCEL and DEACTIVATE can close it unless its stream has failed; nothing cancelled, repeated, out of order or unrecorded is delivered; `Dictation` implements the contract; shutdown gets as far as `ipc.stop()` |
| `dictation_rest` | the same with the failures the controller handles, an inject patch; fair | between events, state, announcement, session and pill agree; Esc works while listening; back to IDLE |
| `dictation_bounded` | every failure but pump failures and hangs, indicator and inject patches | no stream task outlives its dictation; pastes happen in INJECTING only |
| `hotkeys` | all three modes, 3-key hotkey, cancel key, another key, 2 timer threads; fair | a timer that waits is flagged and referenced; the manager knows every dictation; the release, or one press, ends it; a hotkey held alone starts one |
| `audio_session` | 4 blocks, failing opens, failing pump, cancelled client; fair | a gap-free beginning is returned with all that was queued; batch and streaming agree; stop and the consumer end |
| `event_stream` | 2 event clients, a command, 2 events, one of them a level, buffers of one event; fair | events in order, no gap but the cancelled level; no set changed under a broadcast; publishers go on; `stop()` ends, unless a client holds it up |
| `parts` | the ten parts below, one moving at a time | |
| - dashboard | 2 refreshes at a time, 3 changes, 1 restart | at rest the screen is the daemon's state and history |
| - daemon processes | 3 processes, 2 commands | the file names the daemon that serves |
| - configuration | 3 commands | listener, cue and file follow the settings |
| - pill | 5 calls, 1 death | the window is what was asked for last |
| - injection | 2 injections, 2 texts, an image | the transcript is pasted, the clipboard restored |
| - streaming | 3 chunks, 2 interim results under way | the text is a beginning of what was said, in order and once |
| - providers | one that streams, one that does not, 2 edits | the text comes from the provider chosen |
| - text | 4 tokens of 2 words, filler, commands, stop; every set of passes | words and line breaks are kept |
| - settings screen | 2 changes, here or elsewhere | every setting is as chosen last |
| - doctor | 2 providers, every environment and daemon | nothing but PASS means that dictation works, with four exceptions |

`MCParts` chooses at the start which part moves; the others keep an initial state, so
that the states are those of the ten specifications side by side, not their product.
Nothing is lost by this, since the ten share no variable.

Runs that find a disagreement between the code and its documentation:

| Run | Disagreement |
|---|---|
| `stt_error_pill` | a stream that fails while the user speaks sets ERROR unannounced: pill on screen, microphone open, Esc ignored (CHANGELOG: the pill hides on error) |
| `esc_after_patch` | a hotkey change while listening: Esc is dead (README: Esc cancels while listening) |
| `double_press_after_esc` | the first press after Esc ends a session that is over already (guide: double-press) |
| `hold_rollover` | releasing an unrelated key disarms the hold timer (guide: hold the hotkey) |
| `vocabulary_sent` | in batch mode the vocabulary is loaded for a provider that is then not asked (guide: sent to the provider at session start) |

Properties stated with a condition show where the code falls short of the
unconditional one: a stream that fails while the microphone is open leaves the machine
in ERROR, where Esc and the release do nothing and only shutdown closes it
(`MicrophoneOwned`); a dictation that starts after shutdown has cleaned up the
controller, by a queued press or a manager started late, has no pill
(`PillShowsRecording`); a timer created before its predecessor's thread has cleared the
fields is not disarmed by a release (`WaitingTimerKnown`); in mode `both` the hold timer checks, the hotkey is released, and
the timer activates a dictation that no release ends (`PttEndsWithRelease`) and of
which the manager may not know (`SessionKnown`); a hung injection pastes during the
next dictation (`PasteWhileInjecting`); a pump failure leaves a stream task running
(`NoOrphanStream`); a pump cancelled with its client loses queued audio
(`KeepsQueuedAudio`); an indicator patch hides the pill (`PillShowsRecording`).
In the other parts: two changes of the hotkey that overlap leave a listener running,
and a copy that fails over the file of the loaded cue leaves it torn (`DaemonFollows`); two daemons that start together both serve (`ServerIsNamed`); a pill
shown within 400 ms of a hide vanishes (`PillFollows`); an injection that starts while
another is stuck restores that one's transcript, and an image, or text that could not
be read, is not restored (`InjectionIsClean`); a dashboard that has lost the daemon does not look again, a state that
changed without an event shows only after a refresh, and an overtaken or failed refresh
may have the last word (`ScreenIsTrue`); Save overwrites what another client changed
and clears a sound that the screen could not show, and a command that fails leaves a
Save half done (`SettingsKept`); a line break dictated before a full stop is lost
(`TextIsKept`); after a broken connection the text lacks its end and no error is
reported (`TextIsSpoken`); a preferred provider that does not exist, a configured
microphone that is gone while others are there, a daemon with an older configuration and
a process that only has its id pass the doctor (`DoctorIsRight`); an event client that
joins during `stop()`, or a command client that stays connected and sends nothing, holds
it up (`StopEnds`).

Bounds. Two dictations are what it takes for anything of one to leak into the next; a
queue of three holds ACTIVATE, DEACTIVATE or CANCEL, and ACTIVATE again. Each kind of
patch is sent once; concurrent patches are in `DaemonConfig`. Two
timer threads are the least for one that was not cancelled in time to meet its
successor; a third press finds a slot when one of them has ended. Four blocks let
blocks be posted, queued, in the buffer and read at one time. Two events, one of them
cancelled, are the least that shows a gap, an overtaking and a lock that is not given
back; a gap in the middle takes a third, and `SentAlwaysInOrder` is proved for any
number. Three changes let a dashboard see a transcript, a restart and a change after
it; three commands let a third meet two that overlap; three chunks let a final
result come between interim ones; four tokens are a command, a word on either side,
and one more. The theorems need none of these bounds.

Fairness. `Dictation` assumes that the loop runs what is ready (handler, shutdown up
to `ipc.stop()`, level task, restart), that the injection's wait ends (15 s), and that a provider
answers or its client times out once the audio is over; an announcement returns,
which a client that does not read its events could prevent (hazard at
`ipc/server.py:102`). `EventStream` assumes that the loop runs what is ready, that
transports send what is read, that the clients read what they are sent, and that a
command which publishes an event ends once it is published; no client has to connect,
leave, say its hello or send a command in time, and a command connection may stay open
for ever. Nothing is assumed of the user, of clients or of injection
threads. `Hotkeys` assumes that a begun callback ends and that timer threads run;
`AudioSession` that the loop runs and closing a device returns. Deadlock is checked
except where a run may end: a capture, the bounded calls of `parts` and
`vocabulary_sent`, a server that has stopped; `Dictation` ends in `Terminated`.

Mutants: beside a definition stand its mutated forms
(`Finish_Twice`, `CancelRef_Forgets`), each a plausible bug that the property
named in `PROJECT.json` catches. They are not part of `Next`.

## Proofs

`DictationProofs` proves, for every number of dictations, queue bound, set of
failures and set of patches, from `BoundsAssumption` and `KindsAssumption` alone:

- `TypeCorrect`, in three parts, since the provers treat Boolean flags, control
  states and data differently. The data part needs `Numbered`: a dictation number
  exists whenever a handler is suspended or the machine listens, the awaited
  stream task exists, and no handler runs while shutdown holds the lock;
- `MicrophoneAlwaysOwned`. The invariant alone is not inductive. `MicInv` adds that
  a handler with a recording session is suspended only where it awaits a cancelled
  stream task, and that shutdown resets the session after closing it. The
  exception, a stream that has failed, must last, so that `StreamsFresh` comes first: a
  dictation that has not opened its capture has no stream task yet, and none is
  started anew;
- `HistoryAlwaysInOrder`, `AlwaysRecordedBeforePasted` and
  `CancelledNeverReachesUser`, all from `DeliveryInv`: from its activation to its
  outcome the dictation in hand is newer than everything recorded and not
  discarded, a streaming one is served by its own stream task, and what is being
  announced or injected is in the history. Without these a step could record a
  dictation twice, or after it was dropped;
- `ImplementsContract`: the initial state maps to the contract's, and every action
  to a contract step or a stutter, from the invariants above.

`DictationHandlerProofs` proves the properties of `Dictation` that some failure or
patch breaks, each without that one and for every other, any number of dictations and
any queue bound. The hypotheses are what breaks them in the code, and the runs check
the properties under them too (`NoRestart` says that the hotkey is not patched; the
consumer of a manager that is replaced is cancelled in the middle of its handler):

| Theorem | Without | Built on |
|---|---|---|
| `PillAlwaysShowsRecording` | an indicator patch | itself, with the types |
| `EscAlwaysCancels` | a hotkey patch, a lost device, an announcement overtaken | `EscInv`: a manager that is not in a session still has its DEACTIVATE in the queue, or the controller does not listen |
| `NeverAnOrphanStream` | a hotkey patch, a pump failure | `OrphanInv`: the stream task runs only while the handler listens or is at an await that leads to waiting for it |
| `PastesOnlyWhileInjecting` | a hotkey patch, a hung injection | `PasteInv`: an injection thread lives only while the handler waits for it, or after shutdown has killed that handler |
| `RestAlwaysConsistent` | hotkey and indicator patches, failing transcription, secrets and device | `RestInv`: the machine is in the one state that goes with the await the handler is suspended at |

`HandlerInvariant` carries them: where the handler is determines the machine, the
session and the stream task, and at rest nothing is left of an earlier dictation.

`HotkeysProofs` proves, for every set of keys, hotkey, cancel binding (one that
shares keys with the hotkey included), set of modes and number of timer threads,
from the three assumptions of `Hotkeys`:

- `TypeCorrect`, again in three parts;
- `WaitingTimerAlwaysKnown`, from `TimerInv`: a timer that is not `late` is referenced
  from its creation and flagged from the step before its start, and meanwhile no other
  timer's thread has the fields still to clear. Without the last part a thread that
  fired earlier could clear them under it, which is what `late` stands for;
- `SessionAlwaysKnown` and `PttAlwaysEndsWithRelease`, from `OneThread`. Neither
  says anything of a callback that is halfway, so neither is inductive; `OneThread`
  says where the listener may be between a session's end and the event that
  reports it, that the binding is held while a push-to-talk session lasts, and that
  no timer thread runs unless the mode is both. In mode both the two properties
  fail, hence their condition (hazards at `hotkeys/pynput_backend.py`).

`EventStreamProofs` proves, for any clients, commands, number of events and set of
levels, `StreamTypeCorrect`, `SentAlwaysInOrder` and `IterationAlwaysStable`.
`SentInOrder` speaks of what was sent and is not inductive. `StreamInv` adds
`OrderedLine`: the events in `line` ascend to the last one published, and every event
between two of them, or after the last, was cancelled; and it relates the last event
sent to each client to the broadcast at the head of the line, and the clients that it
has still to visit to the set, which nobody changes but the head of the line.

`AudioSessionProofs` proves the type invariant and the three safety properties of a
capture, for any number of blocks. None of them is inductive: `AudioInv` follows the
blocks through the hand-over (`posted`), the queue, the buffer and the chunks. Each
goes on where the one before it ends, up to the sentinel, which comes behind what was
queued when `stop()` was called; blocks behind the sentinel are lost, whatever they
are. After `cancel()`, which empties the buffer while the pump runs, nothing is claimed.

`DaemonProofs`:

- `ServerAlwaysNamed`, for any number of processes and commands. The invariant says
  that, short of an overlap, at most one process is past its check and has not
  released yet;
- `PillAlwaysFollows`, for any number of calls and deaths. A command goes through two
  queues, the pipe and the reader's hand; `PillInv` takes them as one sequence
  (`Way`), of which the last says what the daemon asked for last, and of which nothing
  but settings is left before the process is ready;
- `DaemonAlwaysFollows`, for any number of commands, failed copies included. The property speaks of the moment
  when no command is under way; the invariant says who owes the rest until then: a
  command at `restart` the listener, of which there is at most one unless `spoilt`; an
  editor that has saved the file; a sound command that has changed the sound file.

`OutputProofs`:

- `InjectionAlwaysClean`, for any contents and any number of injections: where each
  thread is determines the clipboard and what it read, unless a failure or an overlap
  was recorded, and threads that count on the clipboard exclude each other but for
  that record;
- `ProviderAlwaysStays`, for any finite set of streaming providers, any others, and
  any number of edits. The provider is the first usable of a list, so the proof needs
  that a set of positions has a first one, and that a list without the streaming ones
  keeps the rest;
- `TextAlwaysSpoken`, for any number of chunks and results. `SttInv` takes the results
  in the queue and on the wire as one sequence (`Coming`): each begins where the one
  before it ends, or only silence lies between, up to what the server has made final;
  what is committed ends where the first of them begins. A broken connection cuts the
  sequence behind, a dropped result is about silence. That the words of the first `m`
  chunks begin those of the first `n` is the lemma `PickUptoPrefix`;
- `TextAlwaysKept`, for any lexicon, any transcript and any of the passes, voice commands
  enabled or not: the words, and that a break stands after the same words as dictated. Every pass is
  a selection of positions (`Pick`) or a relabelling. `PickKept` says that a selection
  which drops nothing but white space and full stops between two words keeps the words
  (`WordsKept`) and a dictated new line with the word before it and what comes next
  (`Broken`); the passes are shown to be such selections. Of repeated words only the
  first one's place is kept, so `RepeatsBroken` follows the new line by the first word
  of the text and the first word after it. `VoiceCommandsKept` turns that new line into
  a line break (`HasLine`), which the tidying and the last strip keep because it stands
  between words;
- three facts about the passes for a text of any length: `FillersAllTrimmed`, that the
  `while True` of `trim_filler_words` ends and that the model's rounds reach its fixed
  point (a round that changes anything shortens the text); `LinesAlwaysTidy`, that the
  voice commands, when enabled, leave no three line breaks in a row, also after the punctuation pass
  and the strip behind `\n{3,}`; and `StopsAllTrimmed`, that no white space is left
  before a full stop when `collapse_duplicate_punctuation` comes to its third
  substitution. That substitution is dead code, which is why the model has two: a `. .`
  becomes `..` by the second one, and stays.

`ClientProofs`:

- `DoctorAlwaysRight`, for any providers and any daemon there is: each place of the doctor comes with what its
  PASSes so far have established of the environment;
- `ScreenAlwaysTrue`, for any number of refreshes, changes and restarts. `DashInv`
  orders the answers that refreshes hold by age (`OrderKnown`) and says that, unless
  news is on its way, the newest of them knows how the daemon is (`NewestKnown`); with
  none in hand the screen does, unless the last refresh failed or was overtaken;
- `SettingsAlwaysKept`, for any number of changes on the screen and elsewhere and any
  commands that fail: what is still to be sent (`SentKnown`), and what the fields show meanwhile (`ScreenKnown`,
  `SoundKnown`);
- `EachPart`: `PartsSpec`, which the run `parts` checks, implements the specification of
  each part, so that all of the above holds of it; `PartsTypeCorrect` draws the
  conclusion for the types.

Each of the parts has its type invariant proved as well (`LifeTypeCorrect`,
`PillTypeCorrect`, ... `SetTypeCorrect`).

Assumptions on constants say that the values which stand for "none" differ from the
others, that bounds are numbers, that the streaming providers, which the code lists, are
finitely many, and that an ordinary word is no filler, command, white space or stop.
Induction over data has to be an induction over a set of numbers here: `SetInduction`,
from the well-ordering of the naturals, gives that the recursive functions of `Picks`,
`TrimFillers` and `Spaced` exist (`PickUptoExists`, `RecursionExists`) and what they
return.

Every invariant and action property of a passing run is stated by a theorem; where the
run's hypotheses are conditions in the property, the theorem has the same ones. Only
model-checked is liveness, since fairness and `ENABLED` are out of the prover's reach:
`ShutdownCompletes`, `ReturnsToIdle`, `OnePressStops`, `HoldAloneStarts`, `ChunksEnd`,
`TeardownEnds`, `PublisherReturns` and `StopEnds`.

## Not modelled

- Device lists and numeric audio code (PortAudio, floats), levels and wave bars.
- Drawing of the pill, the cursor overlay, playing a cue: output that no part reads.
- The ring of log records, its cursor and its forwarding, with the dashboard's log band
  and `sybl logs`; the capacity of the history.
- Parsing of bindings and dotted keys, capitals and quotes: functions on strings without
  state. `Hotkeys` and `TextPipeline` start from their results.
- Commands that print, onboarding, the demo, scripts, brand assets.
- Key-ups that the operating system loses; a Deepgram server that never closes
  (a dictation then stays in PROCESSING, no timeout of the client's ends it).
