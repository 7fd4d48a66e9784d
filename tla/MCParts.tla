--------------------------------- MODULE MCParts ---------------------------------
(***************************************************************************)
(* Parts of the system that share no variable, checked in one run.  The    *)
(* part that moves is chosen at the beginning; the others keep one of      *)
(* their initial states, so that the states of the run are those of the    *)
(* parts' specifications, one beside the other, and not their product.     *)
(***************************************************************************)
EXTENDS Dashboard, DaemonLifecycle, DaemonConfig, PillHost, Injection,
        SpeechToText, Providers, TextPipeline, SettingsScreen, Doctor

VARIABLE part

Parts == {"dashboard", "lifecycle", "config", "pill", "injection",
          "speech", "providers", "text", "settings", "doctor"}

\* The initial states of the part that moves; one, of any other.
PartsInit ==
    /\ part \in Parts
    /\ LifeInit /\ ConfInit /\ PillInit /\ SetInit
    /\ IF part = "dashboard" THEN TRUE ELSE up = TRUE
    /\ DashInit
    /\ IF part = "injection" THEN TRUE ELSE clip = Nothing
    /\ InjInit
    /\ IF part = "speech" THEN TRUE ELSE spoken = {}
    /\ SttInit
    /\ IF part = "providers" THEN TRUE
       ELSE /\ prefs = [preferred |-> Unknown, fallback |-> <<>>, streaming |-> "off",
                        vocabulary |-> FALSE]
            /\ keys = {}
    /\ ProvInit
    /\ IF part = "text" THEN TextInit
       ELSE raw = <<>> /\ text = <<>> /\ did = "none" /\ passes = {}
    /\ IF part = "doctor" THEN TRUE
       ELSE /\ toml = "bad" /\ server = "none"
            /\ setup = [preferred |-> NoName, fallback |-> FALSE, streaming |-> FALSE,
                        inject |-> FALSE]
            /\ world = [keys |-> {}, keyring |-> FALSE, writable |-> FALSE, terms |-> "none",
                        mics |-> "none", windows |-> FALSE]
    /\ DoctorInit

PartsNext ==
    /\ UNCHANGED part
    /\ IF part = "dashboard" THEN DashNext   ELSE UNCHANGED dashVars
    /\ IF part = "lifecycle" THEN LifeNext   ELSE UNCHANGED lifeVars
    /\ IF part = "config"    THEN ConfNext   ELSE UNCHANGED confVars
    /\ IF part = "pill"      THEN PillNext   ELSE UNCHANGED pillVars
    /\ IF part = "injection" THEN InjNext    ELSE UNCHANGED injVars
    /\ IF part = "speech"    THEN SttNext    ELSE UNCHANGED sttVars
    /\ IF part = "providers" THEN ProvNext   ELSE UNCHANGED provVars
    /\ IF part = "text"      THEN TextNext   ELSE UNCHANGED textVars
    /\ IF part = "settings"  THEN SetNext    ELSE UNCHANGED setVars
    /\ IF part = "doctor"    THEN DoctorNext ELSE UNCHANGED doctorVars

PartsSpec == PartsInit /\ [][PartsNext]_<<part, dashVars, lifeVars, confVars, pillVars, injVars,
                                          sttVars, provVars, textVars, setVars, doctorVars>>

\* Every variable of every part has its type.
PartsTypeOK ==
    /\ part \in Parts
    /\ DashTypeOK /\ LifeTypeOK /\ ConfTypeOK /\ PillTypeOK /\ InjTypeOK
    /\ SttTypeOK /\ ProvTypeOK /\ TextTypeOK /\ SetTypeOK /\ DoctorTypeOK
=============================================================================
