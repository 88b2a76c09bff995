---------------------------- MODULE ModelGateway ----------------------------
(***************************************************************************)
(* One streaming model call: a provider that speaks its protocol, one of    *)
(* the three adapters of cogito-model, and H06 behind it.  The provider is  *)
(* external: it opens a block after the other, may be cut by its token      *)
(* limit, and its connection may close or fail at any point.                *)
(***************************************************************************)
EXTENDS AnthropicDecoder, ResponsesDecoder, CompatDecoder

CONSTANTS
    Providers,      \* of "anthropic", "responses", "compat"
    BlockKinds,     \* the blocks an Anthropic stream may have
    MaxBlocks,      \* bound: blocks, items or calls of a stream
    MaxChunks,      \* bound: chunks of a block, pieces of a chunk of content
    MaxPieces       \* bound: size of a compat stream, a piece of content 1 and a call 2

ASSUME ProvidersAssumption == Providers \subseteq {"anthropic", "responses", "compat"}
ASSUME BlockKindsAssumption == BlockKinds \subseteq {"text", "thinking", "tool", "redacted"}

\* The ids the provider gives its calls, and the chunks of a block.
CallIds == <<"call_1", "call_2", "call_3">>
Chunks == <<"a", "b", "c">>
ASSUME BoundsAssumption == MaxBlocks <= Len(CallIds) /\ MaxChunks <= Len(Chunks)

VARIABLES
    provider,   \* the adapter in use
    decoder,    \* its decoder
    demux,      \* H06 and the recorder
    phase,      \* where the stream is
    item,       \* the block the provider is in, and the chunks of it sent
    said        \* what the provider said: its blocks, and those of text whose first chunk
                \* came with their start; content and reasoning of a compat stream

vars == <<provider, decoder, demux, phase, item, said>>

Item(kind, chunks) == [kind |-> kind, chunks |-> chunks]
NoItem == Item("nothing", 0)

Init ==
    /\ provider \in Providers
    /\ decoder = CASE provider = "anthropic" -> AnthropicNew
                   [] provider = "responses" -> ResponsesNew
                   [] provider = "compat"    -> CompatNew
    /\ demux = Idle
    /\ phase = "open"
    /\ item = NoItem
    /\ said = [blocks |-> <<>>, early |-> {}, content |-> <<>>, reasoning |-> <<>>]

\* The loop of stream(): a wire event is decoded and its events are consumed.
Translate(step) ==
    /\ decoder' = step.dec
    /\ demux' = FoldLeft(Demux, demux, step.out)

-----------------------------------------------------------------------------
(* What the provider says.                                                 *)

Count == Len(said.blocks)
Current == Last(said.blocks)

\* A block of its own, numbered, with what of it came along; a redacted one
\* comes whole.
Open(kind, data) ==
    /\ item = NoItem
    /\ Count < MaxBlocks
    /\ item' = Item(kind, Len(data))
    /\ said' = [said EXCEPT
          !.early = IF kind = "text" /\ data # <<>> THEN @ \cup {Count + 1} ELSE @,
          !.blocks = Append(@, ContentBlock(IF kind = "redacted" THEN "thinking" ELSE kind,
                                            IF kind = "tool" THEN CallIds[Count + 1] ELSE None,
                                            data, IF kind = "redacted" THEN "data" ELSE None))]

\* The next chunk of the block it is in.
NextChunk == IF item.kind = "tool" THEN <<FullArgs[item.chunks + 1]>> ELSE <<Chunks[item.chunks + 1]>>
Say ==
    /\ item.kind \in {"text", "thinking", "tool"}
    /\ item.chunks < (IF item.kind = "tool" THEN Len(FullArgs) ELSE MaxChunks)
    /\ item' = [item EXCEPT !.chunks = @ + 1]
    /\ said' = [said EXCEPT !.blocks[Count].data = @ \o NextChunk]

\* The end of a block; no block of text is empty, arguments may be.  Cut by
\* the token limit, an Anthropic call ends with part of them.
Close ==
    /\ item # NoItem
    /\ CASE item.kind = "tool"     -> Current.data \in {<<>>, FullArgs} \/ provider = "anthropic"
         [] item.kind = "redacted" -> TRUE
         [] OTHER                  -> Current.data # <<>>
    /\ item' = NoItem

Calls == {said.blocks[i] : i \in {i \in DOMAIN said.blocks : said.blocks[i].kind = "tool"}}
Reason(cut, tools, end) ==
    IF \E b \in Calls : b.data \notin {<<>>, FullArgs} THEN cut
    ELSE IF Calls # {} THEN tools ELSE end

-----------------------------------------------------------------------------
(* Anthropic: SseEvent.  Indices count from 0.                              *)

Anthropic(p) == provider = "anthropic" /\ phase = p

\* A start may carry the first chunk of a text, or the whole input of a call.
Beginnings(kind) ==
    CASE kind = "text" -> {<<>>, <<Chunks[1]>>}
      [] kind = "tool" -> {<<>>, FullArgs}
      [] OTHER         -> {<<>>}

ContentBlockStart ==
    /\ Anthropic("open")
    /\ \E kind \in BlockKinds : \E data \in Beginnings(kind) :
        Open(kind, data) /\ Translate(BlockStart(decoder, Count, kind, CallIds[Count + 1], data))
    /\ UNCHANGED <<provider, phase>>

ContentBlockDelta ==
    /\ Anthropic("open")
    /\ Say
    /\ Translate(BlockDelta(decoder, Count - 1, item.kind, NextChunk))
    /\ UNCHANGED <<provider, phase>>

\* The signature of a thinking block, after its text.
SignatureDelta ==
    /\ Anthropic("open")
    /\ item.kind = "thinking" /\ item.chunks > 0 /\ Current.opaque = None
    /\ said' = [said EXCEPT !.blocks[Count].opaque = "signature"]
    /\ item' = [item EXCEPT !.chunks = MaxChunks]
    /\ Translate(BlockDelta(decoder, Count - 1, "signature", <<>>))
    /\ UNCHANGED <<provider, phase>>

ContentBlockStop ==
    /\ Anthropic("open")
    /\ Close
    /\ Translate(BlockStop(decoder, Count - 1))
    /\ UNCHANGED <<provider, phase, said>>

MessageEnds ==
    /\ item = NoItem
    /\ \/ /\ Anthropic("open") /\ phase' = "stopping"
          /\ Translate(MessageDelta(decoder, Reason("max_tokens", "tool_use", "end_turn")))
       \/ Anthropic("stopping") /\ phase' = "said" /\ Translate(MessageStop(decoder))
    /\ UNCHANGED <<provider, item, said>>

-----------------------------------------------------------------------------
(* Responses: StreamEvent.  A call's item id stands for its call id.        *)

Responses == provider = "responses" /\ phase = "open"

OutputItemAdded ==
    /\ Responses
    /\ \E kind \in {"text", "thinking", "tool"} :
        Open(kind, <<>>) /\ Translate(ItemAdded(decoder, CallIds[Count + 1], kind))
    /\ UNCHANGED <<provider, phase>>

OutputDelta ==
    /\ Responses
    /\ Say
    /\ Translate(ItemDelta(decoder, CallIds[Count], item.kind, NextChunk))
    /\ UNCHANGED <<provider, phase>>

OutputDone ==
    /\ Responses
    /\ Close
    /\ Translate(ItemDone(decoder, CallIds[Count], item.kind, Current.data))
    /\ UNCHANGED <<provider, phase, said>>

\* The stream ends at its terminal event.  Cut by the token limit, the item in
\* progress gets no done; a call cut short is no call.
Completed ==
    /\ Responses
    /\ Translate(ResponseCompleted(decoder,
            IF item = NoItem THEN [status |-> "completed", reason |-> None]
            ELSE [status |-> "incomplete", reason |-> "max_output_tokens"]))
    /\ said' = IF item.kind = "tool" THEN [said EXCEPT !.blocks = Front(@)] ELSE said
    /\ item' = NoItem
    /\ phase' = "ended"
    /\ UNCHANGED provider

-----------------------------------------------------------------------------
(* OpenAI-compatible: StreamChunk.                                          *)

Compat == provider = "compat" /\ phase = "open"
Fits(n) == Len(said.content) + 2 * Count + n <= MaxPieces

\* Reasoning streams first (wire.rs:125).
ReasoningChunk ==
    /\ Compat
    /\ Len(said.reasoning) < MaxChunks /\ said.content = <<>> /\ Count = 0
    /\ LET chunk == <<Chunks[Len(said.reasoning) + 1]>> IN
        /\ Translate(Reasoning(decoder, chunk))
        /\ said' = [said EXCEPT !.reasoning = @ \o chunk]
    /\ UNCHANGED <<provider, phase, item>>

ContentChunk ==
    /\ Compat
    /\ \E n \in 1..MaxChunks : \E chunk \in [1..n -> Pieces] :
        /\ Fits(n)
        /\ Translate(Content(decoder, chunk))
        /\ said' = [said EXCEPT !.content = @ \o chunk]
    /\ UNCHANGED <<provider, phase, item>>

\* The first fragment of a call has its id, the others none; the fragments of
\* different calls may alternate.  Some providers send fragments with an
\* empty id in between (decode.rs, SenseNova).
ToolCallChunk ==
    /\ Compat
    /\ \/ /\ Count < MaxBlocks /\ Fits(2)
          /\ Translate(ToolCall(decoder, Count, CallIds[Count + 1], <<>>))
          /\ said' = [said EXCEPT !.blocks = Append(@, ContentBlock("tool", CallIds[Count + 1], <<>>, None))]
       \/ \E i \in 1..Count :
            /\ Len(said.blocks[i].data) < Len(FullArgs)
            /\ LET chunk == <<FullArgs[Len(said.blocks[i].data) + 1]>> IN
                /\ Translate(ToolCall(decoder, i - 1, None, chunk))
                /\ said' = [said EXCEPT !.blocks[i].data = @ \o chunk]
       \/ /\ Count < MaxBlocks /\ Fits(2) /\ Count \notin DOMAIN decoder.tool_calls
          /\ Translate(ToolCall(decoder, Count, "", <<>>))
          /\ UNCHANGED said
    /\ UNCHANGED <<provider, phase, item>>

\* Any chunk may carry a finish_reason, and every chunk of some providers does.
FinishChunk ==
    /\ Compat
    /\ LET reason == Reason("length", "tool_calls", "stop") IN
        /\ decoder.finish # reason
        /\ Translate(Finish(decoder, reason))
    /\ UNCHANGED <<provider, phase, item, said>>

-----------------------------------------------------------------------------

\* The connection closes: only the compat adapter has something to add.
Closes ==
    /\ phase \in {"open", "stopping", "said"}
    /\ IF provider = "compat" THEN Translate(Finalize(decoder)) ELSE UNCHANGED <<decoder, demux>>
    /\ phase' = "ended"
    /\ UNCHANGED <<provider, item, said>>

\* An error event, a line that does not parse (the Responses adapter skips
\* it), a network error or a cancel: demux returns the error.
Fails ==
    /\ phase \in {"open", "stopping", "said"}
    /\ phase' = "failed"
    /\ UNCHANGED <<provider, decoder, demux, item, said>>

Next ==
    \/ ContentBlockStart \/ ContentBlockDelta \/ SignatureDelta \/ ContentBlockStop \/ MessageEnds
    \/ OutputItemAdded \/ OutputDelta \/ OutputDone \/ Completed
    \/ ReasoningChunk \/ ContentChunk \/ ToolCallChunk \/ FinishChunk
    \/ Closes \/ Fails

Spec == Init /\ [][Next]_vars

-----------------------------------------------------------------------------
(* Properties.                                                             *)

Kinds == {"text", "thinking", "tool"}

\* The tags of a content, read at once and without the decoder: a tag counts
\* if it is not of the kind of the one before it.
TagAt(s, q) == q >= 1 /\ q < Len(s) /\ SubSeq(s, q, q + 1) \in {OPEN_TAG, CLOSE_TAG}
InsideAt(s, p) ==
    \E q \in 1..(p - 2) : /\ SubSeq(s, q, q + 1) = OPEN_TAG
                          /\ \A r \in (q + 1)..(p - 2) : ~TagAt(s, r)
                              \/ SubSeq(s, r, r + 1) = OPEN_TAG
Counts(s, q) == TagAt(s, q) /\ (SubSeq(s, q, q + 1) = OPEN_TAG) # InsideAt(s, q)
Pick(s, P) == LET at == SetToSortSeq(P, <) IN [n \in DOMAIN at |-> s[at[n]]]
Plain(s) == {p \in DOMAIN s : ~Counts(s, p) /\ ~Counts(s, p - 1)}
OutsideText(s) == Pick(s, {p \in Plain(s) : ~InsideAt(s, p)})
ThoughtAfter(s, q) ==
    Pick(s, {p \in Plain(s) : /\ p > q /\ InsideAt(s, p)
                              /\ \A r \in (q + 1)..(p - 1) : ~Counts(s, r)})
Thoughts(s) ==
    LET opens == SetToSortSeq({q \in DOMAIN s : Counts(s, q) /\ ~InsideAt(s, q)}, <)
    IN  [n \in DOMAIN opens |-> ThoughtAfter(s, opens[n])]

\* The message, as it was meant: blocks in order, calls with their arguments
\* read; thinking, text and calls in this order for a compat stream.
Thinking(data) == ContentBlock("thinking", None, data, None)
Meant ==
    LET read == [i \in DOMAIN said.blocks |->
                    IF said.blocks[i].kind # "tool" THEN said.blocks[i]
                    ELSE [said.blocks[i] EXCEPT !.data = ParsedArgs(@)]]
        tagged == said.reasoning = <<>>
        thoughts == IF tagged THEN Thoughts(said.content) ELSE <<said.reasoning>>
        text == IF tagged THEN OutsideText(said.content) ELSE said.content
    IN  IF provider # "compat" THEN read
        ELSE [n \in DOMAIN thoughts |-> Thinking(thoughts[n])]
                 \o <<ContentBlock("text", None, text, None)>> \o read

\* A block with nothing in it is not written.
Telling(blocks) == SelectSeq(blocks, LAMBDA b : b.data # <<>> \/ b.opaque # None)

\* What is left of the blocks for one who sees their deltas only: nothing of a
\* redacted block, not the chunk a text started with.
FromDeltas(blocks) ==
    [i \in DOMAIN blocks |->
        IF i \in said.early THEN [blocks[i] EXCEPT !.data = Tail(@)]
        ELSE IF blocks[i].opaque = "data" THEN [blocks[i] EXCEPT !.opaque = None] ELSE blocks[i]]
OfKind(blocks, kind) == SelectSeq(blocks, LAMBDA b : b.kind = kind)

\* A kind of block that was sealed and taken up again, and not closed: the
\* decoders seal each kind once, so it is lost.
TakenUpAgain ==
    \/ provider = "compat" /\ decoder.thinking_sealed /\ decoder.thinking_buf # <<>>
    \/ provider = "responses" /\ \E k \in {"text", "thinking"} : decoder[k].sealed /\ decoder[k].buf # <<>>

Sealed == phase = "ended" /\ demux.stop # None

\* The log holds the message as the provider meant it, however it was cut into
\* chunks (a tag cut in two, fragments of calls in turn), with every signature at
\* its block, and no buffer of the recorder is left open for the next message to
\* run into.  What comes without a delta is not in it: the recorder writes what
\* it has buffered.
LogIsWhatWasSaid ==
    Sealed /\ ~TakenUpAgain =>
        /\ demux.recorded = Telling(FromDeltas(Meant))
        /\ ~demux.text.open /\ ~demux.thinking.open

\* The turn goes on with the output and a restart with the log: they hold the
\* same blocks of each kind in the same order, also of a cut stream, but for what
\* came without a delta, which only the output has.
OutputIsLog ==
    phase = "ended" =>
        \A k \in Kinds : OfKind(Telling(FromDeltas(Output(demux))), k) = OfKind(demux.recorded, k)
=============================================================================
