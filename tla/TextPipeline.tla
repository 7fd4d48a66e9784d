------------------------------ MODULE TextPipeline ------------------------------
(***************************************************************************)
(* What becomes of a transcript before it is injected: the passes of       *)
(* core/postprocess.py and the voice commands of core/voice_commands.py.   *)
(*                                                                         *)
(* A text is a sequence of words, fillers ("um"), spoken commands ("new    *)
(* line", "period"), white space and the full stop, which stands for all   *)
(* punctuation.  Capitals and quotes are left out.                         *)
(***************************************************************************)
EXTENDS Naturals, Sequences, Picks

CONSTANTS
    Lexicon,         \* bound: ordinary words
    MaxText        \* bound: length of a transcript, white space apart

ASSUME TextAssumption ==
    MaxText \in Nat /\ Lexicon \cap {"um", "new line", "period", ".", "sp", "nl"} = {}

VARIABLES
    raw,     \* what the provider returned
    text,    \* what has become of it
    did,     \* the stage it has been through
    passes   \* the optional passes that are configured, and the voice commands

textVars == <<raw, text, did, passes>>

White  == {"sp", "nl"}
Spoken == Lexicon \cup {"um", "new line", "period"}
Tokens == Spoken \cup White \cup {"."}

\* s has only elements of S from position m to position n.
Only(s, S, m, n) == \A i \in m..n : s[i] \in S

\* The next element after i that is not white is a full stop; there is none.
StopNext(s, i) == \E j \in (i + 1)..Len(s) : s[j] = "." /\ Only(s, White, i + 1, j - 1)
AllWhite(s, i) == Only(s, White, i, Len(s))

-----------------------------------------------------------------------------
(***************************************************************************)
(* Post-processing.                                                        *)
(***************************************************************************)

\* text.strip().
Strip(s) == Pick(s, {i \in 1..Len(s) : ~AllWhite(s, i) /\ ~Only(s, White, 1, i)})

\* normalize_whitespace.
Squeeze(s) ==
    LET t == Strip(s)
        u == Pick(t, {i \in 1..Len(t) : t[i] \notin White \/ t[i - 1] \notin White})
    IN [i \in 1..Len(u) |-> IF u[i] \in White THEN "sp" ELSE u[i]]

\* Position i lies in the fillers at the start (each followed by white space).
Leading(s, i) ==
    \E n \in i..Len(s) :
       /\ s[n] \in White /\ Only(s, White \cup {"um", "."}, 1, n)
       /\ \A j \in 1..n : /\ s[j] = "." => j > 1 /\ s[j - 1] = "um"
                          /\ s[j] = "um" => j = 1 \/ s[j - 1] \in White
       /\ s[1] = "um"

\* Position i lies in the fillers at the end (each preceded by white space).
Trailing(s, i) ==
    \E m \in 1..i :
       /\ s[m] \in White /\ Only(s, White \cup {"um", "."}, m, Len(s)) /\ s[Len(s)] \notin White
       /\ \A j \in m..Len(s) : /\ s[j] = "." => s[j - 1] = "um"
                               /\ s[j] = "um" => s[j - 1] \in White

\* trim_filler_words: a round, and the rounds to the fixed point (a text of n tokens needs
\* n at most).
TrimOnce(s) ==
    LET t == Strip(Pick(s, {i \in 1..Len(s) : ~Leading(s, i)}))
    IN Strip(Pick(t, {i \in 1..Len(t) : ~Trailing(t, i)}))

TrimFillers(s) ==
    LET round[n \in 0..Len(s)] == IF n = 0 THEN Strip(s) ELSE TrimOnce(round[n - 1])
    IN round[Len(s)]

\* collapse_repeated_words.
Repeats(s) ==
    Pick(s, {i \in 1..Len(s) :
        ~ \E j \in 1..(i - 1) : \E k \in i..Len(s) :
             /\ s[j] \in Spoken \ {"new line"} /\ s[k] = s[j]
             /\ j + 1 < k /\ Only(s, White, j + 1, k - 1)})

\* trim_space_before_punctuation.
TrimStops(s) == Pick(s, {i \in 1..Len(s) : s[i] \notin White \/ ~StopNext(s, i)})

\* collapse_duplicate_punctuation: doubled stops first, then the white space
\* before one.  (Its third pass finds nothing that the second has left.)
CollapseStops(s) ==
    TrimStops(Pick(s, {i \in 1..Len(s) : s[i] # "." \/ i = 1 \/ s[i - 1] # "."}))

\* ensure_terminal_punctuation.
EndWithStop(s) ==
    LET t == Strip(s)
    IN IF Only(t, White \cup {"."}, 1, Len(t)) \/ t[Len(t)] = "." THEN s ELSE Append(t, ".")

\* process_text: the passes, in this order.
PostProcessed(s) ==
    LET If(p, yes, no) == IF p \in passes THEN yes ELSE no
        a == Squeeze(s)
        b == If("fillers", TrimFillers(a), a)
        c == If("repeats", Repeats(b), b)
        d == If("space", TrimStops(c), c)
        e == If("duplicates", CollapseStops(d), d)
    IN IF Strip(s) = <<>> THEN s ELSE If("punctuation", EndWithStop(e), e)

-----------------------------------------------------------------------------
(***************************************************************************)
(* Voice commands.                                                         *)
(***************************************************************************)

\* The spoken phrases replaced: a "period" that a full stop follows stays.
Replace(s) ==
    LET t == [i \in 1..Len(s) |-> IF s[i] = "new line" THEN "nl" ELSE s[i]]
    IN [i \in 1..Len(t) |-> IF t[i] = "period" /\ ~StopNext(t, i) THEN "." ELSE t[i]]

\* No spaces around line breaks, two of which in a row are enough.
TidyLines(s) ==
    LET t == Pick(s, {i \in 1..Len(s) : s[i] # "sp" \/ ~ \E j \in 1..Len(s) :
                        /\ s[j] = "nl"
                        /\ \/ i < j /\ Only(s, {"sp"}, i, j - 1)
                           \/ j < i /\ Only(s, {"sp"}, j + 1, i)})
    IN Pick(t, {i \in 1..Len(t) : t[i] # "nl" \/ i < 3 \/ t[i - 1] # "nl" \/ t[i - 2] # "nl"})

\* Mutant of VoiceCommands: line breaks are stripped with the white space.
VoiceCommands_Squeezed(s) ==
    IF "commands" \notin passes \/ Strip(s) = <<>> THEN s
    ELSE Squeeze(CollapseStops(TidyLines(Replace(Strip(s)))))

\* apply_voice_commands: nothing when they are disabled.
VoiceCommands(s) ==
    IF "commands" \notin passes \/ Strip(s) = <<>> THEN s
    ELSE Strip(CollapseStops(TidyLines(Replace(Strip(s)))))

-----------------------------------------------------------------------------
\* A transcript: tokens, a full stop behind a word, the others apart.
Spaced(ts) ==
    LET Sep(i) == IF i = 1 \/ ts[i] = "." THEN <<>> ELSE <<"sp">>
        upto[n \in 0..Len(ts)] ==
            IF n = 0 THEN <<>> ELSE upto[n - 1] \o Sep(n) \o <<ts[n]>>
    IN upto[Len(ts)]

TextInit ==
    /\ \E n \in 0..MaxText : \E ts \in [1..n -> Spoken \cup {"."}] : raw = Spaced(ts)
    /\ text = raw /\ did = "none"
    /\ passes \in SUBSET {"fillers", "repeats", "space", "duplicates", "punctuation", "commands"}

\* _finish_outcome; post-processing may be disabled.
PostProcess ==
    /\ did = "none" /\ did' = "processed" /\ text' \in {text, PostProcessed(text)}
    /\ UNCHANGED <<raw, passes>>

ApplyCommands ==
    /\ did = "processed" /\ did' = "commands" /\ text' = VoiceCommands(text)
    /\ UNCHANGED <<raw, passes>>

TextNext == PostProcess \/ ApplyCommands

TextSpec == TextInit /\ [][TextNext]_textVars

-----------------------------------------------------------------------------
TextTypeOK ==
    /\ raw \in Seq(Tokens) /\ text \in Seq(Tokens) /\ did \in {"none", "processed", "commands"}

\* The words among the first n tokens, and all of them.
WordsTo(s, n) == PickUpto(s, {i \in 1..Len(s) : s[i] \in Lexicon})[n]
WordsOf(s) == WordsTo(s, Len(s))

\* The spoken command at i stands between two words, and what comes after it, line
\* breaks apart, is no full stop, spoken or not.
Breaks(s, i) ==
    /\ s[i] = "new line"
    /\ \E j \in 1..(i - 1) : s[j] \in Lexicon
    /\ \E j \in (i + 1)..Len(s) : s[j] \in Lexicon
    /\ \A j \in (i + 1)..Len(s) :
          Only(s, White \cup {"new line"}, i + 1, j - 1) => s[j] \notin {".", "period"}

\* What the command is in the end: a line break, or itself when commands are disabled.
Break == IF "commands" \in passes THEN "nl" ELSE "new line"

\* What is injected says what was spoken: every word, in order and once, and after the
\* same words a line break where one was dictated, unless a full stop comes after the
\* command.  When repeated words are to be collapsed, some line break.
TextIsKept ==
    did = "commands" =>
        /\ "repeats" \notin passes => WordsOf(text) = WordsOf(raw)
        /\ \A i \in 1..Len(raw) : Breaks(raw, i) =>
              \E k \in 1..Len(text) :
                 /\ text[k] = Break
                 /\ "repeats" \notin passes => WordsTo(text, k) = WordsTo(raw, i)
=============================================================================
