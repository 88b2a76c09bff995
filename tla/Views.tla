------------------------------- MODULE Views --------------------------------
(***************************************************************************)
(* What the two front ends make of a session's events, as pure functions:   *)
(* the models of the TUI (cogito-tui/src/render_model.rs, app.rs) and its   *)
(* translation of a log (resume.rs), the renderer of the REPL               *)
(* (cogito-cli/src/render.rs) and its replay (chat.rs), and what both take  *)
(* a line for.  A chunk of text is a number, a line of text the sequence of *)
(* its chunks; colours, layout, wording and times are left out.             *)
(***************************************************************************)
EXTENDS Integers, Sequences, SequencesExt

\* A StreamEvent; id is the chunk or the call.  subagent_call_id, turn_id and
\* message_id are not here: neither front end reads them.
Stream(kind, id, ok) == [kind |-> kind, id |-> id, ok |-> ok]
Lifecycle == {"TurnStarted", "TurnPaused", "TurnResumed", "TurnCompleted", "TurnFailed"}
Life(kind) == Stream(kind, 0, TRUE)

\* A ConversationEvent; ids are the chunks of a block or the call.
Entry(type, ids, ok) == [type |-> type, ids |-> ids, ok |-> ok]

-----------------------------------------------------------------------------
(* ChatModel *)

NewChat == [lines |-> <<>>, inText |-> FALSE, inThinking |-> FALSE]
ChatLine(kind, ids) == [kind |-> kind, ids |-> ids]

\* Mutant: a line pushed in the middle of a text does not end it.
PushedOpen(chat, kind, ids) == [chat EXCEPT !.lines = Append(@, ChatLine(kind, ids))]

\* push_user_prompt, push_notice, and the arm of ToolDispatchStarted.
Pushed(chat, kind, ids) ==
    [lines |-> Append(chat.lines, ChatLine(kind, ids)), inText |-> FALSE, inThinking |-> FALSE]

\* The arms of the deltas: an open block grows if its line is still the last.
Grown(chat, kind, open, id) ==
    LET last == Len(chat.lines)
    IN  IF ~open THEN Append(chat.lines, ChatLine(kind, <<id>>))
        ELSE IF last > 0 /\ chat.lines[last].kind = kind
        THEN [chat.lines EXCEPT ![last].ids = Append(@, id)]
        ELSE chat.lines

ChatOnEvent(chat, ev) ==
    CASE ev.kind \in {"TurnStarted", "TurnCompleted"} ->
            [chat EXCEPT !.inText = FALSE, !.inThinking = FALSE]
      [] ev.kind = "TextDelta" ->
            [lines |-> Grown(chat, "Text", chat.inText, ev.id), inText |-> TRUE, inThinking |-> FALSE]
      [] ev.kind = "ThinkingDelta" ->
            [lines |-> Grown(chat, "Thinking", chat.inThinking, ev.id), inText |-> FALSE, inThinking |-> TRUE]
      [] ev.kind = "ToolDispatchStarted" -> Pushed(chat, "Tool", <<ev.id>>)
      [] ev.kind \in {"TurnPaused", "TurnResumed", "TurnFailed"} -> Pushed(chat, "Notice", <<>>)
      [] OTHER -> chat

-----------------------------------------------------------------------------
(* ToolTreeModel: the nodes of each turn *)

Node(call) == [call |-> call, status |-> "Running", preview |-> "-"]
Finished(node) == node.status # "Running"
Status(ok) == IF ok THEN "Ok" ELSE "Err"

\* find_node_mut, over the ids of one session.
SetNode(tree, call, field, value) ==
    [t \in DOMAIN tree |-> [n \in DOMAIN tree[t] |->
        IF tree[t][n].call = call THEN [tree[t][n] EXCEPT ![field] = value] ELSE tree[t][n]]]

TreeOnEvent(tree, ev) ==
    CASE ev.kind = "TurnStarted" -> Append(tree, <<>>)
      [] ev.kind = "ToolDispatchStarted" ->
            LET groups == IF tree = <<>> THEN <<<<>>>> ELSE tree
            IN  [groups EXCEPT ![Len(groups)] = Append(@, Node(ev.id))]
      [] ev.kind = "ToolDispatchEnded" -> SetNode(tree, ev.id, "status", Status(ev.ok))
      [] OTHER -> tree

\* App::apply_stream_event: the flags.
NewFlags == [busy |-> FALSE, thinking |-> FALSE, count |-> 0]

\* Mutant: only a completed turn ends.
FlagsUntilCompleted(flags, ev) ==
    CASE ev.kind = "TurnStarted" -> [flags EXCEPT !.busy = TRUE, !.thinking = TRUE]
      [] ev.kind = "TurnCompleted" -> [busy |-> FALSE, thinking |-> FALSE, count |-> flags.count + 1]
      [] ev.kind \in {"TurnFailed", "TurnPaused"} -> [flags EXCEPT !.thinking = FALSE]
      [] OTHER -> flags

FlagsOnEvent(flags, ev) ==
    CASE ev.kind = "TurnStarted" -> [flags EXCEPT !.busy = TRUE, !.thinking = TRUE]
      [] ev.kind = "TurnCompleted" -> [busy |-> FALSE, thinking |-> FALSE, count |-> flags.count + 1]
      [] ev.kind \in {"TurnFailed", "TurnPaused"} -> [flags EXCEPT !.busy = FALSE, !.thinking = FALSE]
      [] ev.kind \in {"TextDelta", "ThinkingDelta", "ToolDispatchStarted"} -> [flags EXCEPT !.thinking = FALSE]
      [] ev.kind = "ToolDispatchEnded" -> [flags EXCEPT !.thinking = flags.busy]
      [] OTHER -> flags

-----------------------------------------------------------------------------
(* translate_events *)

Emit(acc, evs) == [acc EXCEPT !.out = @ \o evs]

\* One event of the log.  A block is one delta of all its chunks, which shows
\* what as many deltas show.  A call ends well until its result says otherwise.
Translate(acc, e) ==
    CASE e.type = "TurnStarted" ->
            [out |-> acc.out \o (IF acc.inTurn THEN <<Life("TurnCompleted")>> ELSE <<>>)
                             \o <<Life("TurnStarted")>>, inTurn |-> TRUE]
      [] e.type \in {"TurnCompleted", "TurnFailed"} -> [out |-> Append(acc.out, Life(e.type)), inTurn |-> FALSE]
      [] e.type = "AssistantMessageAppended" -> Emit(acc, [i \in DOMAIN e.ids |-> Stream("TextDelta", e.ids[i], TRUE)])
      [] e.type = "ThinkingBlockRecorded" -> Emit(acc, [i \in DOMAIN e.ids |-> Stream("ThinkingDelta", e.ids[i], TRUE)])
      [] e.type = "ToolUseRecorded" ->
            Emit(acc, <<Stream("ToolDispatchStarted", e.ids[1], TRUE), Stream("ToolDispatchEnded", e.ids[1], TRUE)>>)
      [] e.type = "ToolResultRecorded" ->
            Emit(acc, IF e.ok THEN <<>> ELSE <<Stream("ToolDispatchEnded", e.ids[1], FALSE)>>)
      [] OTHER -> acc

TranslateEvents(log) ==
    LET acc == FoldLeft(Translate, [out |-> <<>>, inTurn |-> FALSE], log)
    IN  IF acc.inTurn THEN Append(acc.out, Life("TurnCompleted")) ELSE acc.out

-----------------------------------------------------------------------------
(* The REPL's renderer.  A line is what is printed under one label; a tool   *)
(* has a line for its start and one for its end.                            *)

\* A chunk goes where the output stands: to the line of the last label.
Printed(r, kind, open, id) ==
    IF open THEN [r EXCEPT !.lines[Len(r.lines)].ids = Append(@, id)]
    ELSE [r EXCEPT !.lines = Append(@, ChatLine(kind, <<id>>))]

Ended(r) == [r EXCEPT !.inText = FALSE, !.inThinking = FALSE]

RenderOnEvent(r, ev) ==
    CASE ev.kind \in {"TurnStarted", "TurnCompleted"} -> Ended(r)
      [] ev.kind = "ThinkingDelta" -> [Printed(r, "Thinking", r.inThinking, ev.id) EXCEPT
                                           !.inText = IF r.inThinking THEN @ ELSE FALSE, !.inThinking = TRUE]
      [] ev.kind = "TextDelta" -> [Printed(r, "Text", r.inText, ev.id) EXCEPT !.inText = TRUE, !.inThinking = FALSE]
      [] ev.kind = "ToolDispatchStarted" -> Pushed(r, "Tool", <<ev.id>>)
      [] ev.kind = "ToolDispatchEnded" -> Pushed(r, Status(ev.ok), <<ev.id>>)
      [] OTHER -> Pushed(r, "Notice", <<>>)

\* replay_history: a call is printed with its result, and not without one.
ReplayEvent(acc, e) ==
    CASE e.type = "AssistantMessageAppended" -> [acc EXCEPT !.r = Pushed(@, "Text", e.ids)]
      [] e.type = "ThinkingBlockRecorded" -> [acc EXCEPT !.r = Pushed(@, "Thinking", e.ids)]
      [] e.type = "ToolUseRecorded" -> [acc EXCEPT !.starts = @ \cup {e.ids[1]}]
      [] e.type = "ToolResultRecorded" /\ e.ids[1] \in acc.starts ->
            [r |-> Pushed(Pushed(acc.r, "Tool", e.ids), Status(e.ok), e.ids), starts |-> acc.starts \ {e.ids[1]}]
      [] e.type \in {"TurnStarted", "TurnFailed"} -> [acc EXCEPT !.r = Pushed(@, "Notice", <<>>)]
      [] OTHER -> acc

ReplayHistory(r, log) == FoldLeft(ReplayEvent, [r |-> r, starts |-> {}], log).r

-----------------------------------------------------------------------------
(* A line of input.  Which of them it is depends on its words: a skill that  *)
(* may be activated, a text, /quit, nothing.                                *)

\* dispatch_input_line and parse_slash_skill: the REPL ends, asks again, or
\* submits the text or the skills.
LineOfRepl == {"Quit", "Again", "Trigger"}

\* on_key, slash::parse and dispatch: the TUI has no command to end.
LineOfTui == {"Again", "Unknown", "Trigger"}
=============================================================================
