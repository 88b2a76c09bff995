-------------------------- MODULE AnthropicDecoder --------------------------
(***************************************************************************)
(* Decoder of cogito-model/src/anthropic/decode.rs: one buffer per block    *)
(* and kind, sealed at content_block_stop.                                  *)
(***************************************************************************)
EXTENDS ModelStream

AnthropicNew == [text |-> Nothing, tool |-> Nothing, thinking |-> Nothing, signature |-> Nothing,
                 stop |-> None]

\* ContentBlockStart; data: the text or the input it carries.  A redacted block
\* is sealed at its start.
BlockStart(dec, i, kind, id, data) ==
    CASE kind = "text"     -> Emit([dec EXCEPT !.text = With(@, i, data)], <<>>)
      [] kind = "tool"     -> Emit([dec EXCEPT !.tool = With(@, i, [id |-> id, json |-> data])],
                                   <<ToolUseStarted(i, id)>>)
      [] kind = "thinking" -> Emit([dec EXCEPT !.thinking = With(@, i, AtOr(@, i, <<>>))], <<>>)
      [] kind = "redacted" -> Emit(dec, <<ThinkingBlockCompleted(i, <<>>, "data")>>)

\* ContentBlockDelta.
BlockDelta(dec, i, kind, chunk) ==
    CASE kind = "text"      -> Emit([dec EXCEPT !.text = With(@, i, AtOr(@, i, <<>>) \o chunk)],
                                    <<TextDelta(i, chunk)>>)
      [] kind = "thinking"  -> Emit([dec EXCEPT !.thinking = With(@, i, AtOr(@, i, <<>>) \o chunk)],
                                    <<ThinkingDelta(i, chunk)>>)
      [] kind = "signature" -> Emit([dec EXCEPT !.signature = With(@, i, "signature")], <<>>)
      [] kind = "tool"      -> Emit(IF i \in DOMAIN dec.tool
                                    THEN [dec EXCEPT !.tool[i].json = @ \o chunk] ELSE dec, <<>>)

\* ContentBlockStop: the first buffer that knows the block is sealed.
BlockStop(dec, i) ==
    IF i \in DOMAIN dec.text
    THEN Emit([dec EXCEPT !.text = Without(@, i)], <<TextBlockCompleted(i, dec.text[i])>>)
    ELSE IF i \in DOMAIN dec.tool
    THEN Emit([dec EXCEPT !.tool = Without(@, i)],
              <<ToolUseCompleted(i, dec.tool[i].id, ParsedArgs(dec.tool[i].json))>>)
    ELSE IF i \in DOMAIN dec.thinking
    THEN Emit([dec EXCEPT !.thinking = Without(@, i),
                          !.signature = Without(@, i)],
              <<ThinkingBlockCompleted(i, dec.thinking[i], AtOr(dec.signature, i, None))>>)
    ELSE Emit(dec, <<>>)

\* parse_stop_reason.
ParseStopReason(s) ==
    CASE s = "tool_use"      -> "ToolUse"
      [] s = "max_tokens"    -> "MaxTokens"
      [] s = "stop_sequence" -> "StopSequence"
      [] OTHER               -> "EndTurn"

\* MessageDelta and MessageStop.
MessageDelta(dec, s) == Emit([dec EXCEPT !.stop = ParseStopReason(s)], <<>>)
MessageStop(dec) == Emit(dec, <<MessageCompleted(IF dec.stop = None THEN "EndTurn" ELSE dec.stop)>>)
=============================================================================
