--------------------------- MODULE CompatDecoder ----------------------------
(***************************************************************************)
(* Decoder of cogito-model/src/openai_compat/decode.rs: one text block, one *)
(* thinking block fed by reasoning_content or by inline <think> tags, calls *)
(* by stream index, everything sealed when the stream closes.  A tag is two *)
(* pieces: a prefix longer than "<" is retained and released by the same    *)
(* rule as "<" itself (from the last "<" on), so one cut point stands for   *)
(* them all.  The fields of a chunk are read one after the other, so a      *)
(* chunk with several is several chunks with one.                           *)
(***************************************************************************)
EXTENDS ModelStream

Lt == "<"
OPEN_TAG == <<Lt, "think>">>
CLOSE_TAG == <<Lt, "/think>">>
Pieces == {Lt, "think>", "/think>"}

CompatNew ==
    [text_buf |-> <<>>, text_started |-> FALSE, text_index |-> 0,
     thinking_buf |-> <<>>, thinking_started |-> FALSE, thinking_sealed |-> FALSE,
     tool_calls |-> Nothing, next_tool |-> 1, finish |-> None, finalized |-> FALSE,
     inside |-> FALSE, pending |-> <<>>, parser_disabled |-> FALSE]

\* The first thinking moves the text to index 1 and the calls behind it.
StartThinking(dec) ==
    IF dec.thinking_started THEN dec
    ELSE [dec EXCEPT !.thinking_started = TRUE, !.text_index = 1, !.next_tool = 2]

\* Text, or thinking, is buffered and passed on.
PushText(st, chunk) ==
    IF chunk = <<>> THEN st
    ELSE Emit([st.dec EXCEPT !.text_started = TRUE, !.text_buf = @ \o chunk],
              Append(st.out, TextDelta(st.dec.text_index, chunk)))

PushThinking(st, chunk) ==
    IF chunk = <<>> THEN st
    ELSE Emit([st.dec EXCEPT !.thinking_buf = @ \o chunk], Append(st.out, ThinkingDelta(0, chunk)))

SealThinking(st) ==
    Emit([st.dec EXCEPT !.thinking_buf = <<>>, !.thinking_sealed = TRUE],
         Append(st.out, ThinkingBlockCompleted(0, st.dec.thinking_buf, None)))

\* reasoning_content: the tag parser is switched off for good.
Reasoning(dec, chunk) ==
    PushThinking(Emit([StartThinking(dec) EXCEPT
                          !.parser_disabled = IF dec.thinking_started THEN @ ELSE TRUE], <<>>), chunk)

\* find and rfind, 0 for none.
Find(s, tag) ==
    LET at == {i \in 1..(Len(s) - 1) : SubSeq(s, i, i + 1) = tag}
    IN  IF at = {} THEN 0 ELSE CHOOSE i \in at : \A k \in at : i <= k

LastLt(s) ==
    LET at == {i \in DOMAIN s : s[i] = Lt}
    IN  IF at = {} THEN 0 ELSE CHOOSE i \in at : \A k \in at : k <= i

\* Mutant: nothing is held back.
SafeAll(s) == Len(s)

\* What is safe to pass on when no tag is in sight: all before the last "<".
Safe(s) == IF LastLt(s) = 0 THEN Len(s) ELSE LastLt(s) - 1

\* The loop of feed_with_tag_parser.
RECURSIVE ScanTags(_)
ScanTags(st) ==
    LET dec  == st.dec
        s    == dec.pending
        pos  == Find(s, IF dec.inside THEN CLOSE_TAG ELSE OPEN_TAG)
        upto == IF pos = 0 THEN Safe(s) ELSE pos - 1
        rest == Emit([dec EXCEPT !.pending = SubSeq(s, (IF pos = 0 THEN upto ELSE pos + 1) + 1, Len(s))],
                     st.out)
        fed  == IF dec.inside THEN PushThinking(rest, SubSeq(s, 1, upto))
                ELSE PushText(rest, SubSeq(s, 1, upto))
    IN  IF pos = 0 THEN fed
        ELSE IF dec.inside
        THEN LET sealed == SealThinking(fed)
             IN  ScanTags(Emit([sealed.dec EXCEPT !.inside = FALSE], sealed.out))
        ELSE ScanTags(Emit([StartThinking(fed.dec) EXCEPT !.inside = TRUE], fed.out))

\* delta.content: without the parser it ends the thinking and is plain text.
Content(dec, chunk) ==
    IF ~dec.parser_disabled
    THEN ScanTags(Emit([dec EXCEPT !.pending = @ \o chunk], <<>>))
    ELSE LET st == IF dec.thinking_started /\ ~dec.thinking_sealed THEN SealThinking(Emit(dec, <<>>))
                   ELSE Emit(dec, <<>>)
         IN  PushText(Emit([st.dec EXCEPT !.text_started = TRUE], st.out), chunk)

\* A fragment of delta.tool_calls: id (with the name) and arguments, each None
\* or <<>> if absent; "" is an id that is there and empty.  The call starts
\* once its id is known.
ToolCall(dec, i, id, chunk) ==
    LET old   == AtOr(dec.tool_calls, i, [index |-> 0, id |-> None, json |-> <<>>])
        buf   == [old EXCEPT !.id = IF id = None THEN @ ELSE id, !.json = @ \o chunk]
        start == buf.index = 0 /\ buf.id \notin {None, ""}
    IN  IF start
        THEN Emit([dec EXCEPT !.tool_calls = With(@, i, [buf EXCEPT !.index = dec.next_tool]),
                              !.next_tool = @ + 1],
                  <<ToolUseStarted(dec.next_tool, buf.id)>>)
        ELSE Emit([dec EXCEPT !.tool_calls = With(@, i, buf)], <<>>)

\* finish_reason: the latest counts.
Finish(dec, reason) == Emit([dec EXCEPT !.finish = reason], <<>>)

\* The parts of finalize: what the parser held back, ...
Drain(dec) ==
    LET st == Emit([dec EXCEPT !.pending = <<>>], <<>>)
    IN  IF dec.inside THEN PushThinking(st, dec.pending) ELSE PushText(st, dec.pending)

\* ... the thinking if it was never sealed, ...
SealOpenThinking(st) ==
    IF st.dec.thinking_started /\ ~st.dec.thinking_sealed THEN SealThinking(st) ELSE st

\* ... the text, ...
SealText(st) ==
    IF ~st.dec.text_started THEN st
    ELSE Emit([st.dec EXCEPT !.text_started = FALSE, !.text_buf = <<>>],
              Append(st.out, TextBlockCompleted(st.dec.text_index, st.dec.text_buf)))

\* ... and the calls that started, by stream index.
SealedCalls(dec) ==
    LET order == SetToSortSeq({i \in DOMAIN dec.tool_calls : dec.tool_calls[i].index # 0}, <)
        Call(i) == dec.tool_calls[i]
    IN  [n \in DOMAIN order |->
            ToolUseCompleted(Call(order[n]).index, Call(order[n]).id, ParsedArgs(Call(order[n]).json))]

\* parse_finish_reason, after to_ascii_lowercase.
ParseFinishReason(s) ==
    CASE s \in {"tool_calls", "tool_use"} -> "ToolUse"
      [] s \in {"length", "max_tokens"}   -> "MaxTokens"
      [] s = "stop_sequence"              -> "StopSequence"
      [] OTHER                            -> "EndTurn"

\* finalize; a stream that named no reason is taken as ended.
Finalize(dec) ==
    LET st == SealText(SealOpenThinking(Drain(dec)))
    IN  IF dec.finalized THEN Emit(dec, <<>>)
        ELSE Emit([st.dec EXCEPT !.tool_calls = Nothing, !.finalized = TRUE],
                  st.out \o SealedCalls(dec) \o <<MessageCompleted(ParseFinishReason(dec.finish))>>)
=============================================================================
