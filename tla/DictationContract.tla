-------------------------- MODULE DictationContract --------------------------
(***************************************************************************)
(* What the daemon promises of its dictations, whatever fails inside it: a *)
(* dictation's microphone is open alone; what is heard is kept in the      *)
(* history once, in order, never while the microphone is open and never    *)
(* after the dictation was dropped; only what is kept is typed, and once.  *)
(***************************************************************************)
EXTENDS Naturals, Sequences

CONSTANT Sids     \* dictations, numbered in the order of their activation

VARIABLES open,     \* dictations whose microphone is open
          kept,     \* the transcript history
          typed,    \* dictations whose text reached an application
          dropped   \* dictations cancelled or too short

cvars == <<open, kept, typed, dropped>>

Kept(s) == \E i \in DOMAIN kept : kept[i] = s

\* s comes after every dictation that was kept.
Newest(s) == \A i \in DOMAIN kept : kept[i] < s

Init == open = {} /\ kept = <<>> /\ typed = {} /\ dropped = {}

Open(s) ==
    /\ open = {} /\ Newest(s) /\ s \notin dropped
    /\ open' = {s} /\ UNCHANGED <<kept, typed, dropped>>

\* The capture ends; a dictation may be dropped in the same breath.
Close(D) ==
    /\ open # {} /\ open' = {}
    /\ D \subseteq open /\ dropped' = dropped \cup D
    /\ UNCHANGED <<kept, typed>>

Drop(s) ==
    /\ ~Kept(s)
    /\ dropped' = dropped \cup {s} /\ UNCHANGED <<open, kept, typed>>

Keep(s) ==
    /\ open = {} /\ Newest(s) /\ s \notin dropped
    /\ kept' = Append(kept, s) /\ UNCHANGED <<open, typed, dropped>>

Type(s) ==
    /\ Kept(s) /\ s \notin typed
    /\ typed' = typed \cup {s} /\ UNCHANGED <<open, kept, dropped>>

Next == \/ \E s \in Sids : Open(s) \/ Drop(s) \/ Keep(s) \/ Type(s)
        \/ \E D \in SUBSET Sids : Close(D)

Spec == Init /\ [][Next]_cvars
=============================================================================
