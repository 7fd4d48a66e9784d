----------------------------- MODULE DaemonConfig -----------------------------
(***************************************************************************)
(* The running daemon's configuration (SyblDaemon.apply_config,            *)
(* _import_sound, _clear_sound, config/manager.py, config/sounds.py) and   *)
(* what follows it: the file, the controller, the hotkey listener and the  *)
(* sound cue; the commands that change it, side by side, and an editor of  *)
(* the file (config/edit.py, cli/config_cmd.py).                           *)
(*                                                                         *)
(* A setting's value is the command that set it last, or Default; that of  *)
(* the sound is Named when it names the file in the sounds folder.  One    *)
(* cue stands for the two.                                                 *)
(***************************************************************************)
EXTENDS FiniteSets

CONSTANTS
    Cmds,       \* bound: commands, one use each
    Default,    \* a setting that nobody has changed; a cue's built-in chime
    Named,      \* the sound's setting names the file
    Partial     \* a sound file that is being written, or whose copy has failed

ASSUME CmdsAssumption == Default \notin Cmds /\ Named \notin Cmds \cup {Default}
                           /\ Partial \notin Cmds \cup {Default}

VARIABLES
    config,     \* SyblDaemon._config
    file,       \* config.toml
    control,    \* the controller's _config
    hotkeys,    \* _hotkeys, named by the binding it was made for
    listening,  \* the bindings whose listeners run
    wav,        \* the file of the cue: its content, Default if it is missing
    cue,        \* the cue that has been loaded
    op,         \* per command: what it is
    at,         \* per command: where it is
    draft,      \* per command: the editor's draft, then the file as reloaded
    (* History variables. *)
    torn,       \* a copy failed half way, and no cue has been loaded since
    spoilt      \* two changes of the hotkey overlapped, the file could not be
                \* written, or the edited file was not valid

settings  == <<config, file, control>>
keysVars  == <<hotkeys, listening>>
cueVars   == <<wav, cue, torn>>
confVars  == <<settings, keysVars, cueVars, op, at, draft, spoilt>>

Keys     == {"hotkey", "audio", "sound"}
Values   == Cmds \cup {Default}
Settings == [Keys -> Values \cup {Named}]
Ops      == {"none", "patch", "import", "clear", "edit"}

ConfTypeOK ==
    /\ config \in Settings /\ file \in Settings /\ control \in Settings
    /\ hotkeys \in Values \cup {Named} /\ listening \subseteq Values \cup {Named}
    /\ wav \in Values \cup {Partial} /\ cue \in Values
    /\ op \in [Cmds -> Ops]
    /\ at \in [Cmds -> {"new", "thread", "copy", "back", "restart", "open", "saved", "loaded", "done"}]
    /\ draft \in [Cmds -> Settings] /\ torn \in BOOLEAN /\ spoilt \in BOOLEAN

ConfInit ==
    /\ config = [s \in Keys |-> Default] /\ file = config /\ control = config
    /\ hotkeys = Default /\ listening = {Default} /\ wav = Default /\ cue = Default
    /\ op = [k \in Cmds |-> "none"] /\ at = [k \in Cmds |-> "new"]
    /\ draft = [k \in Cmds |-> config] /\ torn = FALSE /\ spoilt = FALSE

\* The value that a command gives to a setting.
Value(k, s) == IF s = "sound" THEN Named ELSE k

Goes(k, place) == at' = [at EXCEPT ![k] = place]

\* resolve_sound_path and _load_cue: a file that cannot be read is the chime.
Loaded == IF wav = Partial THEN Default ELSE wav

\* create_sound_cue.
LoadsCue == cue' = Loaded /\ torn' = FALSE

-----------------------------------------------------------------------------
(***************************************************************************)
(* apply_config, as far as the first await: it merges the settings given   *)
(* into those of the daemon, writes the file and lets the others follow.   *)
(***************************************************************************)

Apply(k, new) ==
    /\ config' = new /\ file' = new /\ control' = new
    /\ IF new["sound"] # config["sound"] THEN LoadsCue ELSE UNCHANGED <<cue, torn>>
    /\ IF new["hotkey"] # config["hotkey"]
         THEN /\ listening' = listening \ {hotkeys} /\ Goes(k, "restart")
              /\ spoilt' = (spoilt \/ \E j \in Cmds : at[j] = "restart")
         ELSE Goes(k, "done") /\ UNCHANGED <<listening, spoilt>>
    /\ UNCHANGED hotkeys

\* The file cannot be written: the daemon has the settings, the rest does not.
ApplyFails(k, new) ==
    /\ config' = new /\ spoilt' = TRUE /\ Goes(k, "done")
    /\ UNCHANGED <<file, control, keysVars, cue, torn>>

Applies(k, new) == Apply(k, new) \/ ApplyFails(k, new)

\* PATCH_CONFIG, of `sybl config set` or the settings screen.
Patch(k, s) ==
    /\ at[k] = "new" /\ op' = [op EXCEPT ![k] = "patch"]
    /\ Applies(k, [config EXCEPT ![s] = Value(k, s)])
    /\ UNCHANGED <<wav, draft>>

\* The old listener has stopped: the new one is made from this command's own
\* settings, and started.
RestartHotkeys(k) ==
    /\ at[k] = "restart" /\ Goes(k, "done")
    /\ LET mine == IF op[k] = "edit" THEN draft[k]["hotkey"] ELSE k
       IN hotkeys' = mine /\ listening' = listening \cup {mine}
    /\ UNCHANGED <<settings, cueVars, op, draft, spoilt>>

-----------------------------------------------------------------------------
(***************************************************************************)
(* IMPORT_SOUND and CLEAR_SOUND: the file in a thread, the rest after it.  *)
(***************************************************************************)

SoundCommand(k) ==
    /\ at[k] = "new" /\ Goes(k, "thread")
    /\ \E o \in {"import", "clear"} : op' = [op EXCEPT ![k] = o]
    /\ UNCHANGED <<settings, keysVars, cueVars, draft, spoilt>>

\* import_sound_cue: the source is no sound, or it is copied, or the copy fails:
\* with half a file, or with the file whole and its attributes lacking.
CopySound(k) ==
    /\ op[k] = "import"
    /\ \/ at[k] = "thread" /\ Goes(k, "done") /\ UNCHANGED <<wav, torn>>
       \/ at[k] = "thread" /\ Goes(k, "copy") /\ wav' = Partial /\ UNCHANGED torn
       \/ at[k] = "copy" /\ Goes(k, "back") /\ wav' = k /\ UNCHANGED torn
       \/ at[k] = "copy" /\ Goes(k, "done") /\ wav' \in {k, Partial} /\ torn' = TRUE
    /\ UNCHANGED <<settings, keysVars, cue, op, draft, spoilt>>

\* Mutant of SoundImported: the same name again changes nothing.
SoundImported_SameName(k) ==
    /\ op[k] = "import" /\ at[k] = "back"
    /\ IF config["sound"] = Default
         THEN Applies(k, [config EXCEPT !["sound"] = Named])
         ELSE Goes(k, "done") /\ UNCHANGED <<settings, keysVars, cue, torn, spoilt>>
    /\ UNCHANGED <<wav, op, draft>>

\* The setting names the file; when it did already, the cue is loaded anew.
SoundImported(k) ==
    /\ op[k] = "import" /\ at[k] = "back"
    /\ IF config["sound"] = Default
         THEN Applies(k, [config EXCEPT !["sound"] = Named])
         ELSE /\ LoadsCue /\ Goes(k, "done")
              /\ UNCHANGED <<settings, keysVars, spoilt>>
    /\ UNCHANGED <<wav, op, draft>>

\* clear_sound_cue; a file that is being written cannot be removed, nor any when
\* the system refuses.
RemoveSound(k) ==
    /\ op[k] = "clear" /\ at[k] = "thread"
    /\ \/ Goes(k, "done") /\ UNCHANGED wav
       \/ (\A j \in Cmds : at[j] # "copy") /\ Goes(k, "back") /\ wav' = Default
    /\ UNCHANGED <<settings, keysVars, cue, torn, op, draft, spoilt>>

\* Not through apply_config: the controller is not told.
SoundCleared(k) ==
    /\ op[k] = "clear" /\ at[k] = "back" /\ Goes(k, "done")
    /\ config' = [config EXCEPT !["sound"] = Default]
    /\ \/ file' = config' /\ LoadsCue /\ UNCHANGED spoilt
       \/ spoilt' = TRUE /\ UNCHANGED <<file, cue, torn>>
    /\ UNCHANGED <<control, keysVars, wav, op, draft>>

-----------------------------------------------------------------------------
(***************************************************************************)
(* `sybl config edit`, and `e` on the dashboard.                           *)
(***************************************************************************)

EditorOpens(k) ==
    /\ at[k] = "new" /\ Goes(k, "open") /\ op' = [op EXCEPT ![k] = "edit"]
    /\ draft' = [draft EXCEPT ![k] = file]
    /\ UNCHANGED <<settings, keysVars, cueVars, spoilt>>

EditorSaves(k, s) ==
    /\ op[k] = "edit" /\ at[k] = "open" /\ Goes(k, "saved")
    /\ file' = [draft[k] EXCEPT ![s] = Value(k, s)]
    /\ UNCHANGED <<config, control, keysVars, cueVars, op, draft, spoilt>>

\* The editor has ended: the file is read, all of it the patch to send.
EditLoads(k) ==
    /\ op[k] = "edit" /\ at[k] = "saved"
    /\ \/ Goes(k, "loaded") /\ draft' = [draft EXCEPT ![k] = file] /\ UNCHANGED spoilt
       \/ Goes(k, "done") /\ spoilt' = TRUE /\ UNCHANGED draft
    /\ UNCHANGED <<settings, keysVars, cueVars, op>>

EditPatches(k) ==
    /\ op[k] = "edit" /\ at[k] = "loaded" /\ Applies(k, draft[k])
    /\ UNCHANGED <<wav, op, draft>>

-----------------------------------------------------------------------------
ConfNext ==
    \E k \in Cmds :
       \/ \E s \in Keys : Patch(k, s) \/ EditorSaves(k, s)
       \/ RestartHotkeys(k)
       \/ SoundCommand(k) \/ CopySound(k) \/ SoundImported(k)
       \/ RemoveSound(k) \/ SoundCleared(k)
       \/ EditorOpens(k) \/ EditLoads(k) \/ EditPatches(k)

ConfSpec == ConfInit /\ [][ConfNext]_confVars

-----------------------------------------------------------------------------
(***************************************************************************)
(* Properties.                                                             *)
(***************************************************************************)

\* No command is under way.
Settled == ~spoilt /\ \A k \in Cmds : at[k] \in {"new", "done"}

\* When the commands have ended, however they overlapped, one listener runs,
\* the daemon knows it and can stop it, and it is for the binding configured;
\* the file holds the configuration.
ListenerFollows ==
    Settled => listening = {hotkeys} /\ hotkeys = config["hotkey"] /\ file = config

\* When the commands have ended the cue in memory is what would be loaded from the
\* disk, whatever imports, clears and patches overlapped: unless a copy has failed
\* over the file and no cue was loaded since.
CueFollows == Settled /\ ~torn => cue = Loaded

\* What the daemon runs is what its configuration and its sound files say.
DaemonFollows == ListenerFollows /\ CueFollows
=============================================================================
