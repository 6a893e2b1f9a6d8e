----------------------------- MODULE TextStream -----------------------------
(***************************************************************************)
(* Stop sequences over a text that arrives in pieces: the detector of      *)
(* crates/llm-runtime/src/stop.rs and the two streams of streaming.rs that *)
(* use it.  A stream passes on what no later piece can turn into a stop    *)
(* sequence and withholds the rest.                                        *)
(*                                                                         *)
(* A text is its sequence of UTF-8 bytes; the bytes in Continuation are    *)
(* the ones that do not begin a character.  A piece ends between two       *)
(* characters, since the backend sends strings.  The chat stream is that   *)
(* of a request whose answer has no tool markup.                           *)
(***************************************************************************)
EXTENDS Integers, Sequences, SequencesExt, FiniteSetsExt

CONSTANTS
    Texts,          \* what a backend may generate
    StopLists,      \* the stop parameters of requests: sets of texts
    Continuation    \* the bytes that continue a character

Streams == {"chat", "completion"}
Reasons == {"stop", "length"}

\* Index i of the code is the place between byte i and byte i + 1.
is_char_boundary(t, i) ==
    i = 0 \/ i = Len(t) \/ (i \in 1 .. Len(t) - 1 /\ t[i + 1] \notin Continuation)

IsString(t) == t = <<>> \/ t[1] \notin Continuation

\* Validation refuses an empty stop sequence.
ASSUME StopsAssumption ==
    \A stops \in StopLists : IsFiniteSet(stops) /\ \A s \in stops : s # <<>> /\ IsString(s)
ASSUME TextsAssumption == \A t \in Texts : IsString(t)

VARIABLES
    stream,     \* which of the two streams this is
    stop,       \* its stop sequences
    text,       \* all that the backend generates
    raw_text,   \* what has arrived of it
    previous_len,   \* IncrementalStopDetector.previous_len
    stop_at,    \* where a stop sequence was found, -1 if none was
    sent,       \* the contents of the chunks sent to the client
    finish_reason,
    at          \* where the stream is

request == <<stream, stop, text>>
vars == <<request, raw_text, previous_len, stop_at, sent, finish_reason, at>>

Init ==
    /\ stream \in Streams
    /\ stop \in StopLists
    /\ text \in Texts
    /\ raw_text = <<>>
    /\ previous_len = 0
    /\ stop_at = -1
    /\ sent = <<>>
    /\ finish_reason = "length"
    /\ at = "receiving"
-----------------------------------------------------------------------------
(* stop.rs *)

saturating_sub(m, n) == IF n > m THEN 0 ELSE m - n

Occurs(s, t, i) == i + Len(s) <= Len(t) /\ SubSeq(t, i + 1, i + Len(s)) = s

\* Where a stop sequence begins in t, from the index on.
StopsFrom(t, from) == {i \in from .. Len(t) : \E s \in stop : Occurs(s, t, i)}

EarliestFrom(t, from) ==
    IF StopsFrom(t, from) = {} THEN -1 ELSE Min(StopsFrom(t, from))

max_stop_sequence_len == Max({0} \cup {Len(s) : s \in stop})

floor_char_boundary(t, index) == Max({i \in 0 .. index : is_char_boundary(t, i)})

\* What apply_stop_sequences leaves of a text that is there as a whole.
apply_stop_sequences(t) ==
    IF StopsFrom(t, 0) = {} THEN t ELSE SubSeq(t, 1, EarliestFrom(t, 0))

\* Mutant: the search may begin inside a character.
search_start_Bytes(t) ==
    saturating_sub(previous_len, saturating_sub(max_stop_sequence_len, 1))

\* The detector looks again only at as much as a stop sequence may reach back.
search_start(t) ==
    LET overlap == saturating_sub(max_stop_sequence_len, 1)
    IN floor_char_boundary(t, saturating_sub(previous_len, overlap))

\* Mutant: only the new piece is searched.
observe_NewPiece(t) == EarliestFrom(t, previous_len)

observe(t) == EarliestFrom(t, search_start(t))

\* Mutant: the index may fall inside a character.
safe_stream_emit_len_Bytes(t) ==
    IF max_stop_sequence_len <= 1 THEN Len(t)
    ELSE saturating_sub(Len(t), max_stop_sequence_len - 1)

\* Mutant: one byte too few is withheld.
safe_stream_emit_len_Short(t) ==
    IF max_stop_sequence_len <= 2 THEN Len(t)
    ELSE floor_char_boundary(t, saturating_sub(Len(t), max_stop_sequence_len - 2))

safe_stream_emit_len(t) ==
    IF max_stop_sequence_len <= 1 THEN Len(t)
    ELSE floor_char_boundary(t, saturating_sub(Len(t), max_stop_sequence_len - 1))
-----------------------------------------------------------------------------
(* streaming_completion_stream and streaming_chat_stream *)

emitted_len == Len(sent)

\* Mutant: a chunk begins at the start again.
SendUpTo_Whole(t, len) ==
    sent' = IF len > emitted_len THEN sent \o SubSeq(t, 1, len) ELSE sent

\* A chunk with the bytes up to an index, if there are any left to send.
SendUpTo(t, len) ==
    sent' = IF len > emitted_len THEN sent \o SubSeq(t, emitted_len + 1, len) ELSE sent

\* A piece that brings text; the last one may carry the backend's reason to end.
ReceiveText(n, reason) ==
    LET t == SubSeq(text, 1, n)
        found == observe(t)
    IN /\ at = "receiving" /\ n > Len(raw_text)
       /\ raw_text' = t
       /\ previous_len' = n
       /\ stop_at' = found
       /\ IF found >= 0
          THEN /\ SendUpTo(t, found)
               /\ finish_reason' = "stop"
               /\ at' = "ending"
          ELSE /\ SendUpTo(t, safe_stream_emit_len(t))
               /\ finish_reason' = IF reason = "none" THEN finish_reason ELSE reason
               /\ at' = IF reason = "none" THEN at ELSE "ending"
       /\ UNCHANGED request

\* A chunk without text ends the generation, or the backend's stream just ends.
ReceiveEnd(reason) ==
    /\ at = "receiving" /\ raw_text = text
    /\ finish_reason' = IF reason = "none" THEN finish_reason ELSE reason
    /\ at' = "ending"
    /\ UNCHANGED <<request, raw_text, previous_len, stop_at, sent>>

ReceiveError ==
    /\ at = "receiving"
    /\ at' = "failed"
    /\ UNCHANGED <<request, raw_text, previous_len, stop_at, sent, finish_reason>>

\* Mutant: the tail is given up whenever the request has stop sequences.
ChatWithholds_Always == stop # {}

\* Whether the tail is given up: the chat stream asks whether a stop sequence was
\* found, the completion stream what the finish reason is.
ChatWithholds == stop_at >= 0
CompletionWithholds == finish_reason = "stop"
Withholds == IF stream = "chat" THEN ChatWithholds ELSE CompletionWithholds

\* The withheld tail, then either the final chunks or a no-progress error.
Finish ==
    /\ at = "ending"
    /\ IF Withholds THEN UNCHANGED sent ELSE SendUpTo(raw_text, Len(raw_text))
    /\ at' \in {"complete", "failed"}
    /\ UNCHANGED <<request, raw_text, previous_len, stop_at, finish_reason>>

Boundaries == {n \in 0 .. Len(text) : is_char_boundary(text, n)}

Next ==
    \/ \E n \in Boundaries : ReceiveText(n, "none")
    \/ \E reason \in Reasons : ReceiveText(Len(text), reason)
    \/ \E reason \in Reasons \cup {"none"} : ReceiveEnd(reason)
    \/ ReceiveError
    \/ Finish

Spec == Init /\ [][Next]_vars
-----------------------------------------------------------------------------
(* Properties *)

\* The state keeps its types; what was sent is a part of what arrived.
TypeOK ==
    /\ stream \in Streams /\ stop \in StopLists /\ text \in Texts
    /\ IsPrefix(raw_text, text) /\ IsPrefix(sent, raw_text)
    /\ previous_len = Len(raw_text)
    /\ stop_at \in -1 .. Len(raw_text)
    /\ finish_reason \in Reasons
    /\ at \in {"receiving", "ending", "complete", "failed"}

\* The detector answers what a scan of the whole content would, although it looks
\* at the end only (asserted by incremental_stop_detector_matches_full_scan_with_
\* utf8_overlap for one text).
DetectorExact == stop_at = EarliestFrom(raw_text, 0)

\* Whatever comes later, nothing has been sent that the answer would not have had
\* as a whole: no byte of a stop sequence reaches the client before it is known.
NothingToTakeBack ==
    at = "receiving" => IsPrefix(sent, apply_stop_sequences(text))

\* No slice of the text is cut inside a character, which would panic: neither a chunk
\* that is sent nor what the detector searches when the next piece comes.
CutsBetweenCharacters ==
    /\ is_char_boundary(raw_text, emitted_len)
    /\ \A n \in Boundaries : at = "receiving" /\ n > Len(raw_text) =>
          LET t == SubSeq(text, 1, n) IN is_char_boundary(t, search_start(t))

\* A complete chat stream has sent what the same pieces give as a whole.
ChatComplete ==
    at = "complete" /\ stream = "chat" => sent = apply_stop_sequences(raw_text)

\* rust-metal-inference-engine-north-star.md on the chat route: "truncates parsed
\* assistant content at the earliest stop sequence."  A complete chat stream has sent
\* what that leaves of the answer, wherever the pieces of it were cut.
EarliestStopApplied ==
    at = "complete" /\ stream = "chat" => sent = apply_stop_sequences(text)

\* rust-metal-inference-engine-north-star.md on /v1/completions: the stream "applies
\* stop sequences on the incremental backend stream path", so an answer in which
\* none occurs arrives whole.
CompletionComplete ==
    at = "complete" /\ stream = "completion" => sent = apply_stop_sequences(raw_text)
=============================================================================
