---------------------------- MODULE MCDictation ----------------------------
(***************************************************************************)
(* Instances of Dictation for TLC: the sets of faults each run allows.     *)
(***************************************************************************)
EXTENDS Dictation

\* Every failure inside the daemon, but no events that overtake each other: what
\* is checked under them does not depend on what the hotkey manager believes.
InsideFaults == FaultKinds \ {"overtake"}

\* Failures the controller handles: without stt and secrets, whose handling
\* leaves the machine behind, device, which leaves it LISTENING, and events
\* that overtake each other.
HandledFaults == {"provider", "mic", "portaudio", "pump", "inject", "hang"}

\* Failures without the two that let an injection thread or a stream task
\* outlive its handler.
BoundedFaults == FaultKinds \ {"hang", "pump"}
=============================================================================
