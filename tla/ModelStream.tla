----------------------------- MODULE ModelStream ----------------------------
(***************************************************************************)
(* What a provider adapter emits (ModelEvent, cogito-protocol/gateway.rs)   *)
(* and what becomes of it: H06 (cogito-core/src/harness/stream_demux.rs)    *)
(* feeds the recorder's two block buffers and collects the blocks of the    *)
(* ModelOutput.  A text is the sequence of its pieces.  Failing writes are  *)
(* in StepRecorder.                                                         *)
(***************************************************************************)
EXTENDS Integers, SequencesExt

None == "none"

\* A content block; id and opaque (provider_opaque) are None where there is
\* nothing to say.
ContentBlock(kind, id, data, opaque) == [kind |-> kind, id |-> id, data |-> data, opaque |-> opaque]

\* ModelEvent: index is its block_index.
ModelEvent(type, index, block) == [type |-> type, index |-> index, block |-> block]
TextDelta(index, chunk) == ModelEvent("TextDelta", index, ContentBlock("text", None, chunk, None))
TextBlockCompleted(index, text) ==
    ModelEvent("Completed", index, ContentBlock("text", None, text, None))
ThinkingDelta(index, chunk) ==
    ModelEvent("ThinkingDelta", index, ContentBlock("thinking", None, chunk, None))
ThinkingBlockCompleted(index, text, opaque) ==
    ModelEvent("Completed", index, ContentBlock("thinking", None, text, opaque))
ToolUseStarted(index, id) == ModelEvent("ToolUseStarted", index, ContentBlock("tool", id, <<>>, None))
ToolUseCompleted(index, id, args) ==
    ModelEvent("Completed", index, ContentBlock("tool", id, args, None))
MessageCompleted(stop) == ModelEvent("MessageCompleted", 0, ContentBlock("message", stop, <<>>, None))

\* The JSON of a call's arguments, in two fragments: an empty string is an
\* empty object, a cut one does not parse.
FullArgs == <<"{", "}">>
ParsedArgs(fragments) ==
    IF fragments = <<>> THEN <<"object">>
    ELSE IF fragments = FullArgs THEN <<"object", "of", "args">>
    ELSE <<"null">>

\* A decoder's step: the next decoder and the events it emits.
Emit(dec, out) == [dec |-> dec, out |-> out]

\* A HashMap with an entry put in or taken out.
Nothing == [i \in {} |-> <<>>]
With(f, i, v) == [k \in DOMAIN f \cup {i} |-> IF k = i THEN v ELSE f[k]]
Without(f, i) == Restrict(f, DOMAIN f \ {i})
AtOr(f, i, default) == IF i \in DOMAIN f THEN f[i] ELSE default

-----------------------------------------------------------------------------
(* The consumer: the recorder's buffers, the events it wrote, the content   *)
(* collected so far with its indices, and the stop reason once sealed.      *)

NoBuf == [open |-> FALSE, data |-> <<>>]
Idle == [text |-> NoBuf, thinking |-> NoBuf, recorded |-> <<>>, content |-> <<>>, stop |-> None]

\* Mutant: a delta takes the place of the one before it.
GrowReplaces(buf, chunk) == [open |-> TRUE, data |-> chunk]

\* on_text_delta, on_thinking_delta.
Grow(buf, chunk) == [open |-> TRUE, data |-> buf.data \o chunk]

\* on_text_block_complete, on_thinking_block_complete write what was buffered,
\* and nothing if nothing was; the content gets the block of the event.
Complete(d, ev) ==
    LET kept == [d EXCEPT !.content = Append(@, [index |-> ev.index, block |-> ev.block])]
        kind == ev.block.kind
    IN  IF kind = "tool" THEN [kept EXCEPT !.recorded = Append(@, ev.block)]
        ELSE IF ~d[kind].open THEN kept
        ELSE [kept EXCEPT !.recorded = Append(@, [ev.block EXCEPT !.data = d[kind].data]),
                          ![kind] = NoBuf]

\* One turn of demux's loop.
Demux(d, ev) ==
    CASE ev.type = "TextDelta"        -> [d EXCEPT !.text = Grow(@, ev.block.data)]
      [] ev.type = "ThinkingDelta"    -> [d EXCEPT !.thinking = Grow(@, ev.block.data)]
      [] ev.type = "Completed"        -> Complete(d, ev)
      [] ev.type = "MessageCompleted" -> [d EXCEPT !.stop = ev.block.id]
      [] ev.type = "ToolUseStarted"   -> d

\* The ModelOutput: a stable sort by index.
Output(d) ==
    LET Before(i, j) == \/ d.content[i].index < d.content[j].index
                        \/ d.content[i].index = d.content[j].index /\ i < j
        order == SetToSortSeq(DOMAIN d.content, Before)
    IN  [n \in DOMAIN order |-> d.content[order[n]].block]
=============================================================================
