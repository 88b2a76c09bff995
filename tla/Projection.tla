----------------------------- MODULE Projection -----------------------------
(***************************************************************************)
(* From a history to a request: the standard projector                      *)
(* (cogito-context/src/projector/standard.rs), the prompt composer H04 and  *)
(* the tool surface H05 (cogito-core/src/harness), and the encoders of the  *)
(* three gateways (cogito-model/src/*/encode.rs).  All of it is pure.       *)
(* A text, a thought or a tool's arguments are named by the seq of the      *)
(* event that carries them.                                                 *)
(***************************************************************************)
EXTENDS Compactor, SequencesExt

CONSTANTS
    Allowed,    \* strategy.allowed_tools: the names it lets through
    ToolOrder   \* strategy.tool_order, <<>> for None; tools are numbers, in name order

\* What an event carries beyond Event: the range of a ContextCompacted and
\* whether a summary replaces it; the skills a TurnStarted asks for, a message
\* names, a call loads or a suffix holds; the form of a result; an override.
Data(lo, hi, names, form, mode) ==
    [lo |-> lo, hi |-> hi, names |-> names, form |-> form, mode |-> mode]
Inherit == [kind |-> "Inherit", tools |-> {}]
NoData == Data(0, 0, <<>>, "-", Inherit)

\* What a model streams, and what a conversation is made of.
BlockTypes == {"AssistantMessageAppended", "ThinkingBlockRecorded", "ToolUseRecorded"}
ConversationTypes == BlockTypes \cup {"TurnStarted", "ToolResultRecorded"}

-----------------------------------------------------------------------------
(* StandardProjector *)

Block(kind, body) == [kind |-> kind, seq |-> body.seq, turn |-> body.ev.turn,
                      key |-> body.ev.key, form |-> body.data.form, names |-> body.data.names]
Message(role, blocks) == [role |-> role, content |-> blocks]

NoBuffer == [thinking |-> <<>>, body |-> <<>>]

\* flush_assistant: nothing when the buffer is empty, thinking first otherwise.
Flush(acc) ==
    IF acc.buf = NoBuffer THEN acc
    ELSE [msgs |-> Append(acc.msgs, Message("assistant", acc.buf.thinking \o acc.buf.body)),
          buf |-> NoBuffer]

Push(acc, role, block) ==
    LET flushed == Flush(acc)
    IN  [flushed EXCEPT !.msgs = Append(@, Message(role, <<block>>))]

\* Mutant: a user message does not end the assistant message before it.
StepUnflushed(acc, body) ==
    LET type == body.ev.type
    IN  CASE type = "TurnStarted" -> [acc EXCEPT !.msgs = Append(@, Message("user", <<Block("Text", body)>>))]
          [] type = "AssistantMessageAppended" -> [acc EXCEPT !.buf.body = Append(@, Block("Text", body))]
          [] type = "ToolUseRecorded" -> [acc EXCEPT !.buf.body = Append(@, Block("ToolUse", body))]
          [] type = "ThinkingBlockRecorded" -> [acc EXCEPT !.buf.thinking = Append(@, Block("Thinking", body))]
          [] type = "ToolResultRecorded" -> Push(acc, "tool", Block("ToolResult", body))
          [] type = "ContextCompacted" -> IF body.data.form = "Summary"
                                          THEN Push(acc, "user", Block("Summary", body)) ELSE Flush(acc)
          [] OTHER -> acc

\* One event of the walk.
Step(acc, body) ==
    LET type == body.ev.type
    IN  CASE type = "ContextCompacted" -> IF body.data.form = "Summary"
                                          THEN Push(acc, "user", Block("Summary", body)) ELSE Flush(acc)
          [] type = "TurnStarted" -> Push(acc, "user", Block("Text", body))
          [] type = "ToolResultRecorded" -> Push(acc, "tool", Block("ToolResult", body))
          [] type = "AssistantMessageAppended" -> [acc EXCEPT !.buf.body = Append(@, Block("Text", body))]
          [] type = "ToolUseRecorded" -> [acc EXCEPT !.buf.body = Append(@, Block("ToolUse", body))]
          [] type = "ThinkingBlockRecorded" -> [acc EXCEPT !.buf.thinking = Append(@, Block("Thinking", body))]
          [] OTHER -> acc

\* The walk over the events, past those a compaction covers, and the assistant message left.
Walk(history) ==
    LET acc[n \in 0..Len(history)] ==
            IF n = 0 THEN [msgs |-> <<>>, buf |-> NoBuffer]
            ELSE IF Covered(history, history[n].seq) THEN acc[n - 1]
            ELSE Step(acc[n - 1], history[n])
    IN  Flush(acc[Len(history)]).msgs

\* The last event of a type that was written for a turn, 0 if there is none.
LatestFor(history, type, turn) ==
    Latest({i \in DOMAIN history : IsType(history[i], {type}) /\ history[i].ev.turn = turn})

\* Mutant: the suffix of whatever turn wrote one last.
SuffixOfAnyTurn(history, turn) ==
    LET at == Latest({i \in DOMAIN history : IsType(history[i], {"SystemPromptInjected"})})
    IN  IF at = 0 THEN <<>> ELSE history[at].data.names

\* find_system_prompt_suffix.
Suffix(history, turn) ==
    LET at == LatestFor(history, "SystemPromptInjected", turn)
    IN  IF at = 0 THEN <<>> ELSE history[at].data.names

-----------------------------------------------------------------------------
(* H05 and H04 *)

OverrideMode(history, turn) ==
    LET at == LatestFor(history, "ToolFilterOverridden", turn)
    IN  IF at = 0 THEN Inherit ELSE history[at].data.mode

\* apply_sort: by place in tool_order, what has none by name.
Sorted(tools) ==
    LET rest == ToSet(tools) \ ToSet(ToolOrder)
    IN  SelectSeq(ToolOrder, LAMBDA t : t \in ToSet(tools)) \o SetToSortSeq(rest, <)

\* surface, once it has found the override's mode: what the provider lists, the
\* strategy allows and the override leaves.
Surface(catalog, mode) ==
    LET Kept(t) == CASE mode.kind = "Replace"   -> t \in mode.tools
                     [] mode.kind = "Intersect" -> t \in Allowed /\ t \in mode.tools
                     [] OTHER                   -> t \in Allowed
    IN  Sorted(SelectSeq(catalog, Kept))

\* compose: the system prompt is strategy.system_prompt and the suffix.
Compose(history, turn, catalog) ==
    [system |-> Suffix(history, turn), messages |-> Walk(history),
     tools |-> Surface(catalog, OverrideMode(history, turn))]

-----------------------------------------------------------------------------
(* The encoders: the items of a request, each with the role it is sent      *)
(* under and the block it stands for.  body says what of a block is sent:   *)
(* "full", "summary" (a thought without its provider_opaque) or "empty".    *)

Item(role, block, body) == [role |-> role, kind |-> block.kind, seq |-> block.seq,
                            key |-> block.key, body |-> body]
Items(role, blocks, body) == [i \in DOMAIN blocks |-> Item(role, blocks[i], body)]
Request(system, tools, items) == [system |-> system, tools |-> tools, items |-> FlattenSeq(items)]

\* One message a role, block by block; a tool result is a user's block.
AnthropicItems(m) == Items(IF m.role = "assistant" THEN m.role ELSE "user", m.content, "full")
Anthropic(input) ==
    Request(input.system, input.tools, [i \in DOMAIN input.messages |-> AnthropicItems(input.messages[i])])

\* instructions, then flat items; a thought becomes a reasoning summary.
ResponsesItems(m) ==
    [k \in DOMAIN m.content |->
        Item(m.role, m.content[k], IF m.content[k].kind = "Thinking" THEN "summary" ELSE "full")]
Responses(input) ==
    Request(input.system, input.tools, [i \in DOMAIN input.messages |-> ResponsesItems(input.messages[i])])

\* Chat completions, without include_prior_thinking: the request has no place
\* for the system prompt, a result that is not a string is sent empty, calls
\* come after the text of their message.
CompatItems(m) ==
    LET texts == SelectSeq(m.content, LAMBDA b : b.kind \in {"Text", "Summary"})
        calls == SelectSeq(m.content, LAMBDA b : b.kind = "ToolUse")
        results == SelectSeq(m.content, LAMBDA b : b.kind = "ToolResult")
    IN  Items(m.role, texts \o calls, "full")
        \o [k \in DOMAIN results |->
               Item("tool", results[k], IF results[k].form = "json" THEN "empty" ELSE "full")]
Compat(input) ==
    Request(<<>>, input.tools, [i \in DOMAIN input.messages |-> CompatItems(input.messages[i])])
=============================================================================
