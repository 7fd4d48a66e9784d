-------------------------------- MODULE Providers --------------------------------
(***************************************************************************)
(* The speech-to-text provider of a dictation: chosen at its start         *)
(* (providers/manager.py), chosen again when the recording is sent as one  *)
(* (core/transcribe.py), and the requests to it, with their retries        *)
(* (providers/groq.py, providers/deepgram.py).  Meanwhile the user sets    *)
(* and deletes keys and edits the configuration.                         *)
(***************************************************************************)
EXTENDS Naturals, Sequences, SequencesExt

CONSTANTS
    Streamers, Batchers,    \* the providers, those that stream and those that do not
    Unknown,                \* a name in the configuration that is no provider's
    None,                   \* no provider
    MaxEdits              \* bound: edits by the user during a dictation

ASSUME ProvidersAssumption ==
    /\ Streamers \cap Batchers = {} /\ IsFiniteSet(Streamers) /\ MaxEdits \in Nat
    /\ Unknown \notin Streamers \cup Batchers /\ None \notin Streamers \cup Batchers \cup {Unknown}

Names == Streamers \cup Batchers

VARIABLES
    prefs,      \* config.provider, .hotkey.streaming, .vocabulary
    keys,       \* the providers whose key is in the keyring
    chosen,     \* the controller's _provider
    streams,    \* _use_streaming
    user,       \* the provider that is asked: its name, and the terms it was made with
    phase,      \* where the dictation is
    attempt,    \* number of the request
    result,     \* how the dictation ended
    edits,    \* number of edits by the user
    moved       \* history variable: the chosen provider has been without its key

prefVars == <<prefs, keys, edits>>
callVars == <<chosen, streams, user, phase, attempt, result, moved>>
provVars == <<prefVars, callVars>>

Provider == [name : Names \cup {None}, terms : BOOLEAN]
NoOne    == [name |-> None, terms |-> FALSE]
Failures == {"auth", "rate", "timeout", "other"}
Prefs    == [preferred : Names \cup {Unknown}, fallback : {<<>>} \cup {<<n>> : n \in Names},
             streaming : {"auto", "on", "off"}, vocabulary : BOOLEAN]

ProvTypeOK ==
    /\ prefs \in Prefs /\ keys \subseteq Names /\ chosen \in Provider /\ streams \in BOOLEAN
    /\ user \in Provider /\ phase \in {"idle", "listening", "asking", "ended"}
    /\ attempt \in 0..3 /\ result \in Failures \cup {"none", "text", "refused"}
    /\ edits \in 0..MaxEdits /\ moved \in BOOLEAN

ProvInit ==
    /\ prefs \in Prefs /\ keys \in SUBSET Names /\ chosen = NoOne /\ user = NoOne
    /\ streams = FALSE /\ phase = "idle" /\ attempt = 0 /\ result = "none" /\ edits = 0
    /\ moved = FALSE

-----------------------------------------------------------------------------
(***************************************************************************)
(* resolve_provider.                                                       *)
(***************************************************************************)

\* _build_candidates; prefer is None or a name.
Candidates(prefer, streaming) ==
    (IF prefer = None THEN <<>> ELSE <<prefer>>)
       \o <<prefs.preferred>> \o prefs.fallback
       \o (IF streaming THEN SetToSeq(Streamers) ELSE <<>>)

Usable(n, streaming) == n \in keys /\ (streaming => n \in Streamers)

\* The first of the candidates that can be used, made with the terms or without.
Resolved(prefer, streaming, terms) ==
    LET names  == Candidates(prefer, streaming)
        usable == {i \in DOMAIN names : Usable(names[i], streaming)}
    IN IF usable = {} THEN NoOne ELSE [name |-> names[Min(usable)], terms |-> terms]

-----------------------------------------------------------------------------
(***************************************************************************)
(* A dictation.                                                            *)
(***************************************************************************)

\* _on_activate, _should_stream.
Activate ==
    /\ phase = "idle"
    /\ LET p == Resolved(None, prefs.streaming = "on", prefs.vocabulary)
       IN IF p = NoOne
            THEN /\ phase' = "ended" /\ result' = "refused"
                 /\ UNCHANGED <<chosen, streams>>
            ELSE /\ chosen' = p /\ phase' = "listening" /\ UNCHANGED result
                 /\ streams' = CASE prefs.streaming = "on"   -> TRUE
                                 [] prefs.streaming = "off"  -> FALSE
                                 [] prefs.streaming = "auto" -> p.name \in Streamers
    /\ UNCHANGED <<prefVars, user, attempt, moved>>

\* transcribe_stream has been given the provider; its one request is a connection.
AskStream ==
    /\ phase = "listening" /\ streams /\ phase' = "asking" /\ user' = chosen /\ attempt' = 3
    /\ UNCHANGED <<prefVars, chosen, streams, result, moved>>

\* Mutant of AskBatch: transcribe_pcm chooses as if for the first time.
AskBatch_Anew ==
    /\ phase = "listening" /\ ~streams
    /\ user' = Resolved(None, FALSE, FALSE)
    /\ IF user' = NoOne THEN phase' = "ended" /\ result' = "other" /\ UNCHANGED attempt
                        ELSE phase' = "asking" /\ attempt' = 1 /\ UNCHANGED result
    /\ UNCHANGED <<prefVars, chosen, streams, moved>>

\* transcribe_pcm chooses a provider again, the one chosen before first.
AskBatch ==
    /\ phase = "listening" /\ ~streams
    /\ user' = Resolved(chosen.name, FALSE, FALSE)
    /\ IF user' = NoOne THEN phase' = "ended" /\ result' = "other" /\ UNCHANGED attempt
                        ELSE phase' = "asking" /\ attempt' = 1 /\ UNCHANGED result
    /\ UNCHANGED <<prefVars, chosen, streams, moved>>

\* Mutant of Request: a failure that may pass is never the last.
Request_OneMore ==
    /\ phase = "asking"
    /\ \E r \in IF user.name \in keys THEN Failures \cup {"text"} ELSE {"auth"} :
         IF r \in {"rate", "timeout"} /\ attempt <= 3
           THEN attempt' = attempt + 1 /\ UNCHANGED <<phase, result>>
           ELSE phase' = "ended" /\ result' = r /\ UNCHANGED attempt
    /\ UNCHANGED <<prefVars, chosen, streams, user, moved>>

\* A request, with the key that is there by now; it is made again after a
\* failure that may pass, three times at most.
Request ==
    /\ phase = "asking"
    /\ \E r \in IF user.name \in keys THEN Failures \cup {"text"} ELSE {"auth"} :
         IF r \in {"rate", "timeout"} /\ attempt < 3
           THEN attempt' = attempt + 1 /\ UNCHANGED <<phase, result>>
           ELSE phase' = "ended" /\ result' = r /\ UNCHANGED attempt
    /\ UNCHANGED <<prefVars, chosen, streams, user, moved>>

\* `sybl config set-key`, delete-key; the settings.
UserEdits ==
    /\ phase \in {"listening", "asking"} /\ edits < MaxEdits /\ edits' = edits + 1
    /\ \/ \E n \in Names : keys' = (IF n \in keys THEN keys \ {n} ELSE keys \cup {n})
          /\ UNCHANGED prefs
       \/ prefs' \in Prefs /\ UNCHANGED keys
    /\ moved' = (moved \/ chosen.name \notin keys')
    /\ UNCHANGED <<chosen, streams, user, phase, attempt, result>>

-----------------------------------------------------------------------------
ProvNext == Activate \/ AskStream \/ AskBatch \/ Request \/ UserEdits

ProvSpec == ProvInit /\ [][ProvNext]_provVars

-----------------------------------------------------------------------------
\* The provider that gives the text is the one chosen when the dictation began,
\* whatever settings and keys changed in the meantime, unless its own key was
\* deleted.
ProviderStays ==
    result = "text" /\ ~moved => user.name = chosen.name

\* A provider that is asked has the vocabulary, if it is enabled.
VocabularySent == phase = "asking" /\ edits = 0 => user.terms = prefs.vocabulary
=============================================================================
