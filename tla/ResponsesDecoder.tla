-------------------------- MODULE ResponsesDecoder --------------------------
(***************************************************************************)
(* Decoder of cogito-model/src/openai_responses/decode.rs: one text and one *)
(* thinking block per stream, calls by item; indices in order of arrival.   *)
(***************************************************************************)
EXTENDS ModelStream

Fresh == [started |-> FALSE, sealed |-> FALSE, index |-> 0, buf |-> <<>>]
ResponsesNew == [text |-> Fresh, thinking |-> Fresh, calls |-> Nothing, next |-> 0]

\* The block's index is allocated at its first event.
Started(dec, kind) ==
    IF dec[kind].started THEN dec
    ELSE [dec EXCEPT ![kind].started = TRUE, ![kind].index = dec.next, !.next = @ + 1]

\* on_item_added: only a call is noted.
ItemAdded(dec, item, kind) ==
    IF kind # "tool" THEN Emit(dec, <<>>)
    ELSE Emit([dec EXCEPT !.calls = With(@, item, dec.next), !.next = @ + 1],
              <<ToolUseStarted(dec.next, item)>>)

\* on_text_delta, on_reasoning_delta; argument deltas emit nothing, and their
\* buffer is never read.
ItemDelta(dec, item, kind, chunk) ==
    IF kind = "tool" THEN Emit(dec, <<>>)
    ELSE LET s == Started(dec, kind) IN
         Emit([s EXCEPT ![kind].buf = @ \o chunk],
              <<IF kind = "text" THEN TextDelta(s.text.index, chunk)
                ELSE ThinkingDelta(s.thinking.index, chunk)>>)

Sealing(dec, kind, text) ==
    IF kind = "text" THEN TextBlockCompleted(dec.text.index, text)
    ELSE ThinkingBlockCompleted(dec.thinking.index, text, None)

\* on_text_done, on_reasoning_done, on_args_done carry the whole of the block.
\* Arguments that do not parse are an error of the stream.
ItemDone(dec, item, kind, whole) ==
    IF kind = "tool"
    THEN IF item \notin DOMAIN dec.calls THEN Emit(dec, <<>>)
         ELSE Emit([dec EXCEPT !.calls = Without(@, item)],
                   <<ToolUseCompleted(dec.calls[item], item, ParsedArgs(whole))>>)
    ELSE LET s == Started(dec, kind) IN
         Emit([s EXCEPT ![kind].sealed = TRUE, ![kind].buf = <<>>], <<Sealing(s, kind, whole)>>)

\* classify_stop_reason: status and the reason of incomplete_details.  Calls
\* end a turn like anything else.
ClassifyStopReason(response) ==
    IF response.reason \in {"max_output_tokens", "max_tokens"} \/ response.status = "incomplete"
    THEN "MaxTokens" ELSE "EndTurn"

\* on_completed seals the blocks that had no done, and leaves the calls.
ResponseCompleted(dec, response) ==
    LET open == {k \in {"text", "thinking"} : dec[k].started /\ ~dec[k].sealed}
        Seal(k) == IF k \in open THEN <<Sealing(dec, k, dec[k].buf)>> ELSE <<>>
        After(k) == IF k \in open THEN [dec[k] EXCEPT !.sealed = TRUE, !.buf = <<>>] ELSE dec[k]
    IN  Emit([dec EXCEPT !.text = After("text"), !.thinking = After("thinking")],
             Seal("text") \o Seal("thinking") \o <<MessageCompleted(ClassifyStopReason(response))>>)
=============================================================================
