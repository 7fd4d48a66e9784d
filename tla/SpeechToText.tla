------------------------------ MODULE SpeechToText ------------------------------
(***************************************************************************)
(* A dictation that is streamed to Deepgram (providers/deepgram.py) and    *)
(* the collection of its results (core/transcribe.py): the task that feeds *)
(* the audio and then takes the results, the task that receives them, the  *)
(* server, and the connection, which may break.                            *)
(*                                                                         *)
(* The audio is a number of chunks; some hold a word, which is named by    *)
(* its chunk.  A result is the words heard in a stretch of chunks.         *)
(***************************************************************************)
EXTENDS Naturals, Sequences, Picks

CONSTANTS
    MaxChunks,    \* bound: chunks of a recording
    MaxResults    \* bound: results under way when an interim one is sent

ASSUME SttAssumption == MaxChunks \in Nat /\ MaxResults \in Nat

VARIABLES
    spoken,      \* the chunks that hold a word
    said,        \* the number of chunks captured
    stopped,     \* the recording has ended
    fed,         \* the number of chunks sent
    feeder,      \* where _transcribe_stream is
    socket,      \* open, close_stream sent, closed by the server, broken
    heard, sure, \* server: chunks received; chunks whose words are final
    wire,        \* results on their way
    receiving,   \* the receiver runs
    results,     \* results_queue
    committed, live,
                 \* _collect_stream_text's
    misheard     \* history variable: a word that was none was in an interim result

audioVars  == <<spoken, said, stopped>>
serverVars == <<heard, sure, wire, misheard>>
collectVars   == <<committed, live>>
sttVars    == <<audioVars, fed, feeder, socket, serverVars, receiving, results, collectVars>>

\* A result is about the chunks after from, up to to.
Result == [kind : {"interim", "misheard", "final"}, from : 0..MaxChunks, to : 1..MaxChunks]
Closed == [kind |-> "closed", from |-> 0, to |-> 0]   \* the None in results_queue

SttTypeOK ==
    /\ spoken \subseteq 1..MaxChunks /\ said \in 0..MaxChunks /\ stopped \in BOOLEAN
    /\ fed \in 0..said /\ feeder \in {"feed", "take", "done", "failed", "cancelled"}
    /\ socket \in {"open", "closing", "closed", "broken"}
    /\ heard \in 0..fed /\ sure \in 0..heard /\ wire \in Seq(Result) /\ misheard \in BOOLEAN
    /\ receiving \in BOOLEAN /\ results \in Seq(Result \cup {Closed})
    /\ committed \in Seq(1..MaxChunks) /\ live \in Seq(1..MaxChunks)

SttInit ==
    /\ spoken \in SUBSET (1..MaxChunks) /\ said = 0 /\ stopped = FALSE
    /\ fed = 0 /\ feeder = "feed" /\ socket = "open"
    /\ heard = 0 /\ sure = 0 /\ wire = <<>> /\ misheard = FALSE
    /\ receiving = TRUE /\ results = <<>> /\ committed = <<>> /\ live = <<>>

\* The words of the first n chunks, for each n; those of the chunks after m, up to n.
WordsUpto == PickUpto([i \in 1..MaxChunks |-> i], spoken)
WordsIn(m, n) == SubSeq(WordsUpto[n], Len(WordsUpto[m]) + 1, Len(WordsUpto[n]))

\* What a result says; of silence it may say a word.
Text(r) == IF r.kind = "misheard" THEN <<r.to>> ELSE WordsIn(r.from, r.to)

-----------------------------------------------------------------------------
(***************************************************************************)
(* The recording and the server.                                           *)
(***************************************************************************)

Speak ==
    /\ ~stopped /\ said < MaxChunks /\ said' = said + 1
    /\ UNCHANGED <<spoken, stopped, fed, feeder, socket, serverVars, receiving, results, collectVars>>

StopRecording ==
    /\ ~stopped /\ stopped' = TRUE
    /\ UNCHANGED <<spoken, said, fed, feeder, socket, serverVars, receiving, results, collectVars>>

Hears ==
    /\ socket \in {"open", "closing"} /\ heard < fed /\ heard' = heard + 1
    /\ UNCHANGED <<audioVars, fed, feeder, socket, sure, wire, misheard, receiving, results, collectVars>>

Hearing(k) == [kind |-> k, from |-> sure, to |-> heard]

\* What has been heard since the last final result, rightly or, if it is
\* silence, wrongly.
Interim ==
    /\ socket \in {"open", "closing"} /\ sure < heard /\ Len(wire) + Len(results) < MaxResults
    /\ \/ wire' = Append(wire, Hearing("interim")) /\ UNCHANGED misheard
       \/ /\ WordsIn(sure, heard) = <<>>
          /\ wire' = Append(wire, Hearing("misheard")) /\ misheard' = TRUE
    /\ UNCHANGED <<audioVars, fed, feeder, socket, heard, sure, receiving, results, collectVars>>

Finalises ==
    /\ socket \in {"open", "closing"} /\ sure < heard
    /\ wire' = Append(wire, Hearing("final")) /\ sure' = heard
    /\ UNCHANGED <<audioVars, fed, feeder, socket, heard, misheard, receiving, results, collectVars>>

\* The server closes when it has sent everything; the connection breaks.
ServerCloses ==
    /\ socket = "closing" /\ sure = fed /\ socket' = "closed"
    /\ UNCHANGED <<audioVars, fed, feeder, serverVars, receiving, results, collectVars>>

ConnectionBreaks ==
    /\ socket \in {"open", "closing"} /\ socket' = "broken"
    /\ \E n \in 0..Len(wire) : wire' = SubSeq(wire, 1, n)
    /\ UNCHANGED <<audioVars, fed, feeder, heard, sure, misheard, receiving, results, collectVars>>

-----------------------------------------------------------------------------
(***************************************************************************)
(* _transcribe_stream.                                                     *)
(***************************************************************************)

\* The next chunk; with none to come, close_stream.  A connection that has
\* broken makes it fail.
Feed ==
    /\ feeder = "feed" /\ (fed < said \/ stopped)
    /\ CASE socket # "open" -> feeder' = "failed" /\ UNCHANGED <<fed, socket>>
         [] socket = "open" /\ fed < said -> fed' = fed + 1 /\ UNCHANGED <<feeder, socket>>
         [] OTHER -> feeder' = "take" /\ socket' = "closing" /\ UNCHANGED fed
    /\ UNCHANGED <<audioVars, serverVars, receiving, results, collectVars>>

\* receiver: a result without a text is dropped.
Receive ==
    /\ receiving /\ feeder \in {"feed", "take"} /\ wire # <<>> /\ wire' = Tail(wire)
    /\ results' = IF Text(Head(wire)) = <<>> THEN results ELSE Append(results, Head(wire))
    /\ UNCHANGED <<audioVars, fed, feeder, socket, heard, sure, misheard, receiving, collectVars>>

\* Whatever ends the connection ends the receiver, without an error.
ReceiverEnds ==
    /\ receiving /\ feeder \in {"feed", "take"}
    /\ wire = <<>> /\ socket \in {"closed", "broken"}
    /\ receiving' = FALSE /\ results' = Append(results, Closed)
    /\ UNCHANGED <<audioVars, fed, feeder, socket, serverVars, collectVars>>

\* Mutant of Collect: the interim text stays when its final one comes.
Collect_KeepsLive ==
    /\ feeder = "take" /\ results # <<>> /\ results' = Tail(results)
    /\ LET r == Head(results)
       IN CASE r.kind = "closed" -> /\ committed' = committed \o live /\ live' = <<>>
                                    /\ feeder' = "done"
            [] r.kind = "final"  -> /\ committed' = committed \o Text(r)
                                    /\ UNCHANGED <<live, feeder>>
            [] OTHER -> live' = Text(r) /\ UNCHANGED <<committed, feeder>>
    /\ UNCHANGED <<audioVars, fed, socket, serverVars, receiving>>

\* _collect_stream_text takes a result; after the last the text is complete.
Collect ==
    /\ feeder = "take" /\ results # <<>> /\ results' = Tail(results)
    /\ LET r == Head(results)
       IN CASE r.kind = "closed" -> /\ committed' = committed \o live /\ live' = <<>>
                                    /\ feeder' = "done"
            [] r.kind = "final"  -> /\ committed' = committed \o Text(r) /\ live' = <<>>
                                    /\ UNCHANGED feeder
            [] OTHER -> live' = Text(r) /\ UNCHANGED <<committed, feeder>>
    /\ UNCHANGED <<audioVars, fed, socket, serverVars, receiving>>

\* The dictation is cancelled, and the receiver with it.
CancelStream ==
    /\ feeder \in {"feed", "take"} /\ feeder' = "cancelled" /\ receiving' = FALSE
    /\ UNCHANGED <<audioVars, fed, socket, serverVars, results, collectVars>>

-----------------------------------------------------------------------------
Server == Hears \/ Interim \/ Finalises \/ ServerCloses
Client == Feed \/ Receive \/ ReceiverEnds \/ Collect

SttNext == Speak \/ StopRecording \/ Server \/ ConnectionBreaks \/ Client \/ CancelStream

SttSpec == SttInit /\ [][SttNext]_sttVars

-----------------------------------------------------------------------------
Prefix(s, t) == Len(s) <= Len(t) /\ SubSeq(t, 1, Len(s)) = s

\* The text of a streamed dictation is what was spoken, each word once and in
\* order, however interim and final results followed on each other; of a
\* connection that broke it is the beginning, without a word about the rest.
\* (A final result without a text does not take an interim one back.)
TextIsSpoken ==
    feeder = "done" /\ ~misheard =>
        /\ Prefix(committed, WordsIn(0, said))
        /\ socket = "closed" => committed = WordsIn(0, said)
=============================================================================
