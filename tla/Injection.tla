------------------------------- MODULE Injection -------------------------------
(***************************************************************************)
(* Injection of a transcript by the clipboard and Ctrl+V                   *)
(* (inject/clipboard_win.py, inject/focus_win.py): threads that inject,    *)
(* the program that takes the paste when it pleases, a user who copies, and*)
(* other programs that hold the clipboard, so that it cannot be opened.    *)
(*                                                                         *)
(* The controller lets go of a thread after 15 s (Dictation!InjectEnds);   *)
(* only the call that brings the window to the front can last that long,   *)
(* when the window does not respond.                                       *)
(***************************************************************************)
CONSTANTS
    Texts, Images,    \* bound: what the user copies
    Injs,             \* bound: injections, each named by its transcript
    Nothing,          \* an empty clipboard; no paste taken
    Skip              \* _SKIP_RESTORE

ASSUME InjsAssumption ==
    /\ Injs \cap (Texts \cup Images) = {} /\ Texts \cap Images = {}
    /\ {Nothing, Skip} \cap (Injs \cup Texts \cup Images) = {} /\ Nothing # Skip

VARIABLES
    clip,       \* the clipboard
    place,      \* per injection: where _inject_sync is
    keep,       \* per injection: config.inject.restore_clipboard
    prior,      \* per injection: prior_clipboard
    taken,      \* per injection: what the program took for its paste
    (* History variables. *)
    latest,     \* what the user has put into the clipboard last
    lost,       \* there was a reason for the clipboard not to be restored:
                \* it held no text, its text could not be read, set or put back,
                \* the paste failed, restore_clipboard is off, or something came
                \* in between
    mixed       \* the injections that something else came in between

injVars == <<clip, place, keep, prior, taken, latest, lost, mixed>>

Content == Texts \cup Images \cup Injs \cup {Nothing}

InjTypeOK ==
    /\ clip \in Content /\ latest \in Content
    /\ place \in [Injs -> {"new", "read", "set", "focus", "paste", "settle", "restore", "done"}]
    /\ keep \in [Injs -> BOOLEAN] /\ prior \in [Injs -> Content \cup {Skip}]
    /\ taken \in [Injs -> Content] /\ lost \in BOOLEAN /\ mixed \subseteq Injs

InjInit ==
    /\ clip \in Texts \cup Images \cup {Nothing} /\ latest = clip
    /\ place = [k \in Injs |-> "new"] /\ keep = [k \in Injs |-> FALSE]
    /\ prior = [k \in Injs |-> Nothing] /\ taken = [k \in Injs |-> Nothing]
    /\ lost = FALSE /\ mixed = {}

\* The thread k goes from one place to another.
Moves(k, from, to) == place[k] = from /\ place' = [place EXCEPT ![k] = to]

\* The threads that count on the clipboard as they have found it.
Counting == {k \in Injs : place[k] \notin {"new", "read", "done"}}

-----------------------------------------------------------------------------
\* An injection starts; the one before has ended, or is stuck.
InjBegins(k) ==
    /\ \A j \in Injs \ {k} : place[j] \in {"new", "focus", "done"}
    /\ \E r \in BOOLEAN : Moves(k, "new", IF r THEN "read" ELSE "set")
                          /\ keep' = [keep EXCEPT ![k] = r]
    /\ LET stuck == {j \in Injs : place[j] = "focus"}
       IN /\ mixed' = IF stuck = {} THEN mixed ELSE mixed \cup stuck \cup {k}
          /\ lost' = (lost \/ stuck # {})
    /\ UNCHANGED <<clip, prior, taken, latest>>

\* read_clipboard_safe: Skip if the clipboard cannot be opened; else its text, or
\* None (Nothing) if it holds no text, and also if the text cannot be fetched or
\* locked: what None stands for will be cleared at the restore.
ReadPrior(k) ==
    /\ Moves(k, "read", "set")
    /\ \E p \in {Skip, Nothing} \cup ({clip} \ Images) :
          /\ prior' = [prior EXCEPT ![k] = p]
          /\ lost' = (lost \/ p \notin {Skip, clip})
    /\ UNCHANGED <<clip, keep, taken, latest, mixed>>

\* set_clipboard.
SetText(k) ==
    /\ Moves(k, "set", "focus") /\ clip' = k
    /\ lost' = (lost \/ ~keep[k] \/ prior[k] = Skip)
    /\ UNCHANGED <<keep, prior, taken, latest, mixed>>

\* It raises InjectError before it has emptied the clipboard, or after.
SetFails(k) ==
    /\ Moves(k, "set", "done")
    /\ \/ UNCHANGED <<clip, lost>>
       \/ clip' = Nothing /\ lost' = TRUE
    /\ UNCHANGED <<keep, prior, taken, latest, mixed>>

\* restore_focus; whether it succeeds is not looked at.
Focus(k) ==
    /\ Moves(k, "focus", "paste")
    /\ UNCHANGED <<clip, keep, prior, taken, latest, lost, mixed>>

\* simulate_paste, or its error.
Paste(k) ==
    /\ Moves(k, "paste", "settle")
    /\ UNCHANGED <<clip, keep, prior, taken, latest, lost, mixed>>

PasteFails(k) ==
    /\ Moves(k, "paste", "done") /\ lost' = TRUE
    /\ UNCHANGED <<clip, keep, prior, taken, latest, mixed>>

\* The program obeys Ctrl+V.
TakesPaste(k) ==
    /\ place[k] \in {"settle", "restore"} /\ taken[k] = Nothing
    /\ taken' = [taken EXCEPT ![k] = clip]
    /\ UNCHANGED <<clip, place, keep, prior, latest, lost, mixed>>

\* 150 ms later.
Settles(k) ==
    /\ Moves(k, "settle", IF keep[k] /\ prior[k] # Skip THEN "restore" ELSE "done")
    /\ mixed' = IF taken[k] = Nothing THEN mixed \cup {k} ELSE mixed
    /\ UNCHANGED <<clip, keep, prior, taken, latest, lost>>

\* Mutant of Restore: what was None is left alone, not cleared.
Restore_LeavesNone(k) ==
    /\ Moves(k, "restore", "done")
    /\ \/ clip' = (IF prior[k] = Nothing THEN clip ELSE prior[k]) /\ UNCHANGED lost
       \/ clip' \in {clip, Nothing} /\ lost' = TRUE
    /\ UNCHANGED <<keep, prior, taken, latest, mixed>>

\* set_clipboard or clear_clipboard; an error is only logged.
Restore(k) ==
    /\ Moves(k, "restore", "done")
    /\ \/ clip' = prior[k] /\ UNCHANGED lost
       \/ clip' \in {clip, Nothing} /\ lost' = TRUE
    /\ UNCHANGED <<keep, prior, taken, latest, mixed>>

\* The user copies.
Copies(c) ==
    /\ clip' = c /\ latest' = c
    /\ lost' = (Counting # {}) /\ mixed' = mixed \cup Counting
    /\ UNCHANGED <<place, keep, prior, taken>>

-----------------------------------------------------------------------------
Inject(k) ==
    \/ InjBegins(k) \/ ReadPrior(k) \/ SetText(k) \/ SetFails(k) \/ Focus(k)
    \/ Paste(k) \/ PasteFails(k) \/ TakesPaste(k) \/ Settles(k) \/ Restore(k)

InjNext == (\E k \in Injs : Inject(k)) \/ (\E c \in Texts \cup Images : Copies(c))

InjSpec == InjInit /\ [][InjNext]_injVars

-----------------------------------------------------------------------------
\* When no injection is under way the clipboard is what the user put there,
\* with the exceptions that lost lists and no other.
ClipboardKept ==
    (\A k \in Injs : place[k] \in {"new", "done"}) /\ ~lost => clip = latest

\* A program that is asked to paste takes the transcript, never what was in the
\* clipboard before or is put back, unless it is late or the user has copied.
TranscriptPasted ==
    \A k \in Injs : k \notin mixed => taken[k] \in {Nothing, k}

\* Injection disturbs neither the user's clipboard nor the text it pastes.
InjectionIsClean == ClipboardKept /\ TranscriptPasted
=============================================================================
