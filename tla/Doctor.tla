--------------------------------- MODULE Doctor ---------------------------------
(***************************************************************************)
(* `sybl doctor` (cli/doctor.py): checks of the environment, in the order  *)
(* of run_checks, then a dictation in that environment by the code that    *)
(* the checks are about.  The doctor reads the same files, keys and        *)
(* devices and calls some of the same functions, but judges by itself.     *)
(***************************************************************************)
CONSTANTS
    Registered,     \* the providers of the registry that do not stream
    Streaming,      \* those that do
    KeyedOnly,      \* a name the keyring knows, but not the registry
    NoName          \* a name that neither knows

ASSUME DoctorAssumption ==
    /\ Streaming # {} /\ Registered \cap Streaming = {} /\ KeyedOnly # NoName
    /\ {KeyedOnly, NoName} \cap (Registered \cup Streaming) = {}

AllProviders == Registered \cup Streaming

VARIABLES
    toml,       \* config.toml
    setup,      \* what it says
    world,      \* keyring, vocabulary, directories, microphones, platform
    server,     \* the daemon: none, one that has loaded this configuration, one that
                \* has loaded another, or a process that only has its id
    check,      \* the check that is next, "ended", or "crashed"
    reported,   \* the statuses so far
    clipboard,  \* the user's, or emptied
    stage       \* how far the dictation came

factVars   == <<setup, world>>
doctorVars == <<toml, factVars, server, check, reported, clipboard, stage>>

Status == {"PASS", "WARN", "FAIL"}

Setup  == [preferred : AllProviders \cup {KeyedOnly, NoName}, fallback : BOOLEAN,
          streaming : BOOLEAN, inject : BOOLEAN]
\* No terms: off, or an empty list.  The microphones may be others than the one that
\* the configuration names.
World == [keys : SUBSET AllProviders, keyring : BOOLEAN, writable : BOOLEAN,
          terms : {"none", "some", "bad"}, mics : {"none", "others", "wanted"},
          windows : BOOLEAN]

DoctorTypeOK ==
    /\ toml \in {"none", "valid", "legacy", "bad"} /\ setup \in Setup /\ world \in World
    /\ reported \subseteq Status
    /\ check \in {"basics", "config", "key", "providers", "hotkeys", "inject", "vocabulary",
                  "rest", "daemon", "audio", "live", "ended", "crashed"}
    /\ clipboard \in {"users", "empty"} /\ stage \in {"before", "dictated", "broken"}
    /\ server \in {"none", "current", "edited", "stale"}

\* Without a file the configuration has its defaults (config/models.py).  A daemon runs
\* on Windows only, and when it has loaded this file it has replaced a legacy hotkey.
DoctorInit ==
    /\ toml \in {"none", "valid", "legacy", "bad"} /\ setup \in Setup /\ world \in World
    /\ toml = "none" => /\ setup.preferred \in Registered /\ setup.fallback /\ ~setup.streaming
                        /\ setup.inject /\ world.mics # "others"
    /\ server \in {"none", "current", "edited", "stale"}
    /\ server \in {"current", "edited"} => world.windows
    /\ server = "current" => toml \in {"none", "valid"}
    /\ check = "basics" /\ reported = {}
    /\ clipboard = "users" /\ stage = "before"

-----------------------------------------------------------------------------
\* get_provider_key: an unknown name, or a keyring that fails, is a SecretsError.
KeyReadable(n) == world.keyring /\ n # NoName
HasKey(n)      == n \in world.keys

\* config/manager.py load: a legacy hotkey is replaced, and the file saved.
Loadable   == toml # "bad" /\ (toml = "legacy" => world.writable)
LoadedFile == IF toml = "legacy" THEN "valid" ELSE toml

\* The check c is made, with these statuses, and the next is n.
Reports(c, n, statuses) ==
    /\ check = c /\ check' = n
    /\ reported' = reported \cup statuses
    /\ UNCHANGED <<factVars, server, stage>>

Crashes(c) ==
    /\ check = c /\ check' = "crashed"
    /\ UNCHANGED <<toml, factVars, server, reported, clipboard, stage>>

-----------------------------------------------------------------------------
(***************************************************************************)
(* The checks.                                                             *)
(***************************************************************************)

\* Packages, directories, keyring backend.
CheckBasics ==
    /\ \E installed \in BOOLEAN :
         Reports("basics", "config", {IF world.writable /\ installed THEN "PASS" ELSE "FAIL"})
    /\ UNCHANGED <<toml, clipboard>>

\* What depends on the configuration is left out if there is none.
CheckConfig ==
    /\ IF toml = "bad"
         THEN Reports("config", "daemon", {"FAIL"}) /\ UNCHANGED toml
         ELSE Loadable /\ Reports("config", "key", {"PASS"}) /\ toml' = LoadedFile
    /\ UNCHANGED clipboard

CheckConfigCrashes == toml = "legacy" /\ ~world.writable /\ Crashes("config")

CheckKey ==
    /\ KeyReadable(setup.preferred)
    /\ \/ setup.preferred # KeyedOnly
          /\ Reports("key", "providers", {IF HasKey(setup.preferred) THEN "PASS" ELSE "WARN"})
       \/ setup.preferred = KeyedOnly /\ \E s \in {"PASS", "WARN"} : Reports("key", "providers", {s})
    /\ UNCHANGED <<toml, clipboard>>

CheckKeyCrashes == ~KeyReadable(setup.preferred) /\ Crashes("key")

CheckProviders ==
    /\ Reports("providers", "hotkeys", {IF HasKey(n) THEN "PASS" ELSE "WARN" : n \in AllProviders})
    /\ UNCHANGED <<toml, clipboard>>

\* The bindings parse: load has validated them.
CheckHotkeys ==
    /\ Reports("hotkeys", "inject", {IF world.windows THEN "PASS" ELSE "WARN"})
    /\ UNCHANGED <<toml, clipboard>>

CheckInject ==
    /\ Reports("inject", "vocabulary", {IF world.windows /\ setup.inject THEN "PASS" ELSE "WARN"})
    /\ UNCHANGED <<toml, clipboard>>

\* Mutant of CheckVocabulary: a file that cannot be read is reported as terms.
CheckVocabulary_Trusts ==
    /\ Reports("vocabulary", "rest",
               {IF world.terms \in {"some", "bad"} THEN "PASS" ELSE "WARN"})
    /\ UNCHANGED <<toml, clipboard>>

CheckVocabulary ==
    /\ Reports("vocabulary", "rest",
               {IF world.terms = "some" THEN "PASS"
                ELSE IF world.terms = "bad" THEN "FAIL" ELSE "WARN"})
    /\ UNCHANGED <<toml, clipboard>>

\* Post-processing, voice commands, indicator: what they say depends on nothing
\* that a dictation needs.
CheckRest ==
    /\ \E s \in {"PASS", "WARN", "FAIL"} : Reports("rest", "daemon", {s})
    /\ UNCHANGED <<toml, clipboard>>

\* daemon.json, and whether its process lives.
CheckDaemon ==
    /\ Reports("daemon", "audio", {IF server = "none" THEN "WARN" ELSE "PASS"})
    /\ UNCHANGED <<toml, clipboard>>

\* The input devices that can be opened, and the default device of the system,
\* which may not be one of them.  The option --live is looked at after it.
CheckAudio ==
    /\ \E live \in BOOLEAN, probe \in {"PASS", "WARN"} :
         Reports("audio", IF live THEN "live" ELSE "ended", {IF world.mics = "none" THEN "WARN" ELSE probe})
    /\ UNCHANGED <<toml, clipboard>>

\* --live: ping, a request to the preferred provider, a quarter of a second of
\* sound, and the clipboard, which is emptied.
CheckLive ==
    /\ \E ping \in CASE server = "none"  -> {"WARN"}
                    [] server = "stale" -> {"FAIL"}
                    [] OTHER            -> {"PASS", "FAIL"},
          answer \in {"PASS", "WARN", "FAIL"}, sound, opened \in {"PASS", "WARN"} :
         LET clip      == IF world.windows /\ setup.inject THEN opened ELSE "WARN"
             depending == IF toml = "bad" THEN {} ELSE {answer, sound, clip}
         IN /\ Reports("live", "ended", {ping} \cup depending)
            /\ clipboard' = IF toml # "bad" /\ clip = "PASS" THEN "empty" ELSE clipboard
    /\ UNCHANGED toml

-----------------------------------------------------------------------------
(***************************************************************************)
(* A daemon is started, if none runs, and dictates.                        *)
(***************************************************************************)

\* `sybl start`: load, list_configured_providers, create_injector and
\* create_hotkey_manager, which exist on Windows only.
StartWorks == Loadable /\ world.keyring /\ world.windows

Over == check \in {"ended", "crashed"} /\ stage = "before"

\* It refuses while the process of daemon.json lives.
StartDaemon ==
    /\ Over /\ server = "none"
    /\ IF StartWorks THEN server' = "current" /\ toml' = LoadedFile /\ UNCHANGED stage
                     ELSE stage' = "broken" /\ UNCHANGED <<server, toml>>
    /\ UNCHANGED <<factVars, check, reported, clipboard>>

\* `sybl stop`.
StopDaemon ==
    /\ Over /\ server \in {"current", "edited"} /\ server' = "none"
    /\ UNCHANGED <<toml, factVars, check, reported, clipboard, stage>>

\* _load_vocabulary_terms, resolve_provider, resolve_device, the injector.
DictationWorks ==
    LET asked  == {setup.preferred} \cup (IF setup.fallback THEN AllProviders ELSE {})
                     \cup (IF setup.streaming THEN Streaming ELSE {})
        usable == (IF setup.streaming THEN Streaming ELSE AllProviders) \cap world.keys
    IN world.terms # "bad" /\ asked \cap usable # {} /\ world.mics = "wanted" /\ setup.inject

\* The daemon that runs dictates, with the configuration that it has loaded.
Dictate ==
    /\ Over /\ server # "none"
    /\ stage' \in CASE server = "current" -> {IF DictationWorks THEN "dictated" ELSE "broken"}
                   [] server = "edited"  -> {"dictated", "broken"}
                   [] server = "stale"   -> {"broken"}
    /\ UNCHANGED <<toml, factVars, server, check, reported, clipboard>>

-----------------------------------------------------------------------------
DoctorNext ==
    \/ CheckBasics \/ CheckConfig \/ CheckConfigCrashes \/ CheckKey \/ CheckKeyCrashes
    \/ CheckProviders \/ CheckHotkeys \/ CheckInject \/ CheckVocabulary \/ CheckRest
    \/ CheckDaemon \/ CheckAudio \/ CheckLive \/ StartDaemon \/ StopDaemon \/ Dictate

DoctorSpec == DoctorInit /\ [][DoctorNext]_doctorVars

-----------------------------------------------------------------------------
\* After a report of nothing but PASS the daemon that runs, or is started again, can
\* dictate, and its text is pasted.  Except for what the doctor overlooks: a preferred
\* provider that does not exist, with none to fall back on; a configured microphone
\* that is not there, while others are; a daemon with another configuration than the
\* file's; and a process that has the daemon's id.
DoctorIsRight ==
    /\ check = "ended" /\ reported \subseteq {"PASS"}
    /\ setup.preferred \in AllProviders \/ setup.fallback
    /\ world.mics # "others" /\ server \notin {"edited", "stale"}
    => stage # "broken"
=============================================================================
