----------------------------- MODULE Frontends ------------------------------
(***************************************************************************)
(* A front end on a session: the REPL (cogito-cli/src/chat.rs) or the TUI   *)
(* (cogito-tui/src: runtime_build.rs, event_loop.rs, keymap.rs).  It opens  *)
(* the session, replays the log and subscribes, then folds the broadcast    *)
(* into a view while the user types and presses Ctrl-C.  The session is     *)
(* Session and TurnDriver reduced to what is sent and written: the recorder *)
(* sends first and writes next, so a view may know more than the log, and   *)
(* it loses what the broadcast loses.                                       *)
(***************************************************************************)
EXTENDS Views, Broadcast, FiniteSets

CONSTANTS
    Kinds,      \* front ends: subset of {"cli", "tui"}
    Bounds      \* bounds of a behaviour: chunks and calls of its session, inputs,
                \* other keys pressed, times the session is opened

ASSUME KindsAssumption == Kinds \subseteq {"cli", "tui"}
ASSUME BoundsAssumption == Bounds \subseteq [items : Nat, turns : Nat, keys : Nat, opens : Nat]

VARIABLES
    log,        \* the session's events after SessionStarted
    sess,       \* the session: its turn, its recorder's buffers, what it holds
    writing,    \* the event that is sent and not yet written
    wire,       \* the front end's receiver; not yet one before it subscribes
    kind, pc,   \* which front end, and where it is
    ui,         \* its state
    bound,      \* the bounds of this behaviour
    keys, opens,
    seen,       \* history: items sent before the subscription, log length at it and at the replay
    lag,        \* history: the receiver has lost events
    muddled,    \* history: the front end's flag is wrong about the turn
    wrong       \* history: Ctrl-C left a turn it should have cancelled

vars == <<log, sess, writing, wire, kind, bound, pc, ui, keys, opens, seen, lag, muddled, wrong>>
clientVars == <<kind, bound, pc, ui, keys, opens, seen, lag, wrong>>

\* stream: the model answers; tools: calls are dispatched, or the model is called
\* next; answer: the result of a job is written; done: the turn ends next.
Active == {"stream", "tools", "done"}
\* items: chunks and calls so far.  text, thinking: the recorder's open blocks;
\* open: one of them has a chunk of this stream.  child: how far a subagent is.
NewSession == [mode |-> "idle", held |-> FALSE, inputs |-> 0, items |-> 0, text |-> <<>>,
               thinking |-> <<>>, open |-> FALSE, calls |-> <<>>, child |-> 0]

\* armed: the 2 s after a Ctrl-C.
NewUi == [chat |-> NewChat, tree |-> <<>>, flags |-> NewFlags, armed |-> FALSE,
          selected |-> <<>>, expanded |-> {}]
NotSeen == [early |-> 0, subscribed |-> 0, replayed |-> 0]

\* build and event_loop::run; run_repl.
Startup(k) == IF k = "tui" THEN <<"load", "subscribe">> ELSE <<"subscribe", "load">>
After(step) == IF step = Startup(kind)[1] THEN Startup(kind)[2] ELSE "loop"

Init == /\ log = <<>> /\ sess = NewSession /\ writing = <<>> /\ wire = NoFeed
        /\ kind \in Kinds /\ bound \in Bounds /\ pc = Startup(kind)[1]
        /\ ui = NewUi /\ keys = 0 /\ opens = 1
        /\ seen = NotSeen /\ lag = FALSE /\ muddled = FALSE /\ wrong = FALSE

Subscribed == pc = "loop" \/ (pc = "load" /\ Startup(kind)[1] = "subscribe")
Running == sess.mode \in Active

-----------------------------------------------------------------------------
(* The session *)

Send(ev) == wire' = IF Subscribed THEN Sent(wire, ev) ELSE wire
SendAndWrite(ev, entry) == Send(ev) /\ writing' = <<entry>> /\ UNCHANGED log
JustWrite(entry) == log' = Append(log, entry) /\ UNCHANGED <<wire, writing>>
Free == writing = <<>> /\ sess.mode # "gone"

\* append, after the send.
Write == /\ writing # <<>>
         /\ log' = log \o writing /\ writing' = <<>>
         /\ UNCHANGED <<sess, wire, muddled, clientVars>>

StartTurn ==
    /\ Free /\ sess.mode = "idle" /\ sess.held
    /\ sess' = [sess EXCEPT !.mode = "tools", !.held = FALSE, !.calls = <<>>]
    /\ SendAndWrite(Life("TurnStarted"), Entry("TurnStarted", <<>>, TRUE))
    /\ muddled' = (kind = "cli" /\ muddled)
    /\ UNCHANGED clientVars

CallModel ==
    /\ Free /\ sess.mode = "tools" /\ sess.calls = <<>>
    /\ sess' = [sess EXCEPT !.mode = "stream", !.open = FALSE, !.child = 0]
    /\ JustWrite(Entry("ModelCallStarted", <<>>, TRUE))
    /\ UNCHANGED <<muddled, clientVars>>

\* on_text_delta, on_thinking_delta: a buffer a broken stream left is taken up.
Delta(block, ev) ==
    /\ Free /\ sess.mode = "stream" /\ sess.items < bound.items
    /\ sess' = [sess EXCEPT !.items = @ + 1, ![block] = Append(@, sess.items + 1), !.open = TRUE]
    /\ Send(Stream(ev, sess.items + 1, TRUE))
    /\ UNCHANGED <<log, writing, muddled, clientVars>>

\* on_text_block_complete, on_thinking_block_complete: written, not sent.
BlockDone(block, type) ==
    /\ Free /\ sess.mode = "stream" /\ sess.open /\ sess[block] # <<>>
    /\ JustWrite(Entry(type, sess[block], TRUE))
    /\ sess' = [sess EXCEPT ![block] = <<>>, !.open = FALSE]
    /\ UNCHANGED <<muddled, clientVars>>

ToolUse ==
    /\ Free /\ sess.mode = "stream" /\ ~sess.open /\ sess.items < bound.items
    /\ sess' = [sess EXCEPT !.items = @ + 1, !.calls = Append(@, sess.items + 1)]
    /\ SendAndWrite(Stream("ToolDispatchStarted", sess.items + 1, TRUE),
                    Entry("ToolUseRecorded", <<sess.items + 1>>, TRUE))
    /\ UNCHANGED <<muddled, clientVars>>

\* The stream ends: the turn does, or its calls are next.
StreamEnd ==
    /\ Free /\ sess.mode = "stream" /\ ~sess.open
    /\ sess' = [sess EXCEPT !.mode = IF sess.calls = <<>> THEN "done" ELSE "tools"]
    /\ JustWrite(Entry("ModelCallCompleted", <<>>, TRUE))
    /\ UNCHANGED <<muddled, clientVars>>

\* An error, whatever is open.
StreamBreaks ==
    /\ Free /\ sess.mode = "stream"
    /\ sess' = [sess EXCEPT !.mode = "idle", !.calls = <<>>, !.open = FALSE]
    /\ SendAndWrite(Life("TurnFailed"), Entry("TurnFailed", <<>>, TRUE))
    /\ UNCHANGED <<muddled, clientVars>>

TurnEnd ==
    /\ Free /\ sess.mode = "done"
    /\ sess' = [sess EXCEPT !.mode = "idle"]
    /\ SendAndWrite(Life("TurnCompleted"), Entry("TurnCompleted", <<>>, TRUE))
    /\ UNCHANGED <<muddled, clientVars>>

Dispatching == sess.calls # <<>> /\ sess.child \in {0, 3}

ToolResult(ok) ==
    /\ Free /\ sess.mode \in {"tools", "answer"} /\ Dispatching
    /\ sess' = [sess EXCEPT !.calls = Tail(@), !.mode = "tools"]
    /\ SendAndWrite(Stream("ToolDispatchEnded", Head(sess.calls), ok),
                    Entry("ToolResultRecorded", <<Head(sess.calls)>>, ok))
    /\ UNCHANGED <<muddled, clientVars>>

\* An async call pauses the turn; the calls behind it are not taken up again.
Pause ==
    /\ Free /\ sess.mode = "tools" /\ Dispatching
    /\ sess' = [sess EXCEPT !.mode = "paused", !.calls = <<Head(@)>>]
    /\ SendAndWrite(Life("TurnPaused"), Entry("TurnPaused", <<Head(sess.calls)>>, TRUE))
    /\ UNCHANGED <<muddled, clientVars>>

JobCompleted ==
    /\ Free /\ sess.mode = "paused"
    /\ sess' = [sess EXCEPT !.mode = "answer"]
    /\ SendAndWrite(Life("TurnResumed"), Entry("JobCompletedRecorded", sess.calls, TRUE))
    /\ muddled' = TRUE
    /\ UNCHANGED clientVars

\* The bridge of a delegate call, which only the REPL has: the child's turn
\* goes to the parent's stream and not to its log.
ChildSends(ev) ==
    /\ Free /\ sess.mode = "tools" /\ sess.calls # <<>> /\ kind = "cli" /\ sess.items < bound.items
    /\ \/ sess.child = 0 /\ ev = Life("TurnStarted")
       \/ sess.child = 1 /\ ev = Stream("TextDelta", sess.items + 1, TRUE)
       \/ sess.child = 2 /\ ev \in {Life("TurnCompleted"), Life("TurnFailed")}
    /\ sess' = [sess EXCEPT !.child = @ + 1, !.items = IF ev.kind = "TextDelta" THEN @ + 1 ELSE @]
    /\ Send(ev)
    /\ muddled' = (muddled \/ sess.child = 2)
    /\ UNCHANGED <<log, writing, clientVars>>

ChildStep == \E ev \in {Life("TurnStarted"), Life("TurnCompleted"), Life("TurnFailed"),
                        Stream("TextDelta", sess.items + 1, TRUE)} : ChildSends(ev)

-----------------------------------------------------------------------------
(* Opening *)

\* replay_into_models; replay_history.  A new session has nothing to replay.
Replayed ==
    LET evs == TranslateEvents(log)
    IN  IF kind = "cli" THEN [ui EXCEPT !.chat = ReplayHistory(@, log)]
        ELSE [ui EXCEPT !.chat = FoldLeft(ChatOnEvent, @, evs), !.tree = FoldLeft(TreeOnEvent, @, evs),
                        !.flags = [FoldLeft(FlagsOnEvent, @, evs) EXCEPT !.thinking = FALSE]]

Load ==
    /\ pc = "load"
    /\ ui' = IF opens = 1 THEN ui ELSE Replayed
    /\ seen' = [seen EXCEPT !.replayed = Len(log)]
    /\ pc' = After("load")
    /\ UNCHANGED <<log, sess, writing, wire, kind, bound, keys, opens, lag, muddled, wrong>>

Subscribe ==
    /\ pc = "subscribe"
    /\ seen' = [seen EXCEPT !.early = sess.items, !.subscribed = Len(log)]
    /\ pc' = After("subscribe")
    /\ UNCHANGED <<log, sess, writing, wire, kind, bound, ui, keys, opens, lag, muddled, wrong>>

-----------------------------------------------------------------------------
(* The loop *)

Terminal == {"TurnCompleted", "TurnFailed", "TurnPaused"}
Unseen(kinds) == \E i \in DOMAIN wire.queue : wire.queue[i].kind \in kinds

\* The loop ends: the receiver and the view are dropped.
Leave == pc' = "leaving" /\ wire' = NoFeed /\ ui' = NewUi

\* App::apply_stream_event; the third arm of run_repl.
Applied(ev) ==
    IF kind = "tui"
    THEN [ui EXCEPT !.chat = ChatOnEvent(@, ev), !.tree = TreeOnEvent(@, ev), !.flags = FlagsOnEvent(@, ev)]
    ELSE [ui EXCEPT !.chat = RenderOnEvent(@, ev),
                    !.flags.busy = @ /\ ev.kind \notin Terminal, !.armed = @ /\ ev.kind \notin Terminal]

Receive ==
    /\ pc = "loop" /\ ~wire.lagged /\ wire.queue # <<>>
    /\ ui' = Applied(Head(wire.queue))
    /\ wire' = [wire EXCEPT !.queue = Tail(@)]
    /\ UNCHANGED <<log, sess, writing, kind, bound, pc, keys, opens, seen, lag, muddled, wrong>>

\* Lagged: the TUI says so and goes on, the REPL ends.
ReceiveLagged ==
    /\ pc = "loop" /\ wire.lagged
    /\ lag' = TRUE
    /\ IF kind = "cli" THEN Leave
       ELSE /\ wire' = [wire EXCEPT !.lagged = FALSE]
            /\ ui' = [ui EXCEPT !.chat = Pushed(@, "Notice", <<>>)]
            /\ UNCHANGED pc
    /\ UNCHANGED <<log, sess, writing, kind, bound, keys, opens, seen, muddled, wrong>>

Key == pc = "loop" /\ keys < bound.keys /\ keys' = keys + 1
\* history: a turn runs that the front end has been told of, nothing has made its flag
\* wrong, and this is no second press.
LeaveByCtrlC == Leave /\ wrong' = (wrong \/ (/\ Running /\ ~muddled /\ ~wire.lagged /\ ~Unseen({"TurnStarted"})
                                             /\ ~(kind = "cli" /\ ui.armed)))

\* handle_ctrl_c and the first arm of run_repl.  cancel_turn fires a token only
\* tools look at, and cancels a job the session is paused on: neither adds to
\* what the session may do here anyway.
CtrlC ==
    /\ Key /\ UNCHANGED <<log, sess, writing, kind, bound, opens, seen, lag, muddled>>
    /\ LET busy == ui.flags.busy
           cancels == busy /\ (kind = "tui" \/ ~ui.armed)
           hints == kind = "tui" /\ ~busy /\ ~ui.armed
       IN  \/ cancels /\ ui' = [ui EXCEPT !.armed = TRUE] /\ UNCHANGED <<wire, pc, wrong>>
           \/ hints /\ ui' = [ui EXCEPT !.armed = TRUE, !.chat = Pushed(@, "Notice", <<>>)]
                    /\ UNCHANGED <<wire, pc, wrong>>
           \/ ~cancels /\ ~hints /\ LeaveByCtrlC

\* CTRL_C_EXIT_WINDOW is over.
WindowCloses ==
    /\ pc = "loop" /\ ui.armed
    /\ ui' = [ui EXCEPT !.armed = FALSE]
    /\ UNCHANGED <<log, sess, writing, wire, kind, bound, pc, keys, opens, seen, lag, muddled, wrong>>

\* submit: an input waits in a slot while a turn runs or is paused.  The REPL's
\* flag is wrong from here on if the end of another turn is still to be seen, and
\* right again if not.
Submit == /\ sess.inputs < bound.turns /\ UNCHANGED keys
          /\ sess' = [sess EXCEPT !.held = TRUE, !.inputs = @ + 1]
          /\ muddled' = IF kind = "cli" THEN sess.held \/ sess.mode # "idle" \/ Unseen(Terminal) ELSE muddled

\* A line that is no input: an error, a hint, or nothing at all.
NoInput == UNCHANGED <<sess, muddled, keys>>

TypeLine ==
    /\ pc = "loop" /\ UNCHANGED <<log, writing, kind, bound, opens, seen, lag, wrong>>
    /\ IF kind = "cli"
       THEN \E input \in LineOfRepl :
               \/ input = "Quit" /\ Leave /\ NoInput
               \/ input = "Again" /\ NoInput /\ UNCHANGED <<wire, pc, ui>>
               \/ /\ input = "Trigger" /\ Submit
                  /\ ui' = [ui EXCEPT !.flags.busy = TRUE] /\ UNCHANGED <<wire, pc>>
       ELSE /\ UNCHANGED <<wire, pc>>
            /\ \E input \in LineOfTui :
               \/ input = "Again" /\ NoInput /\ UNCHANGED ui
               \/ /\ input = "Unknown" /\ Key /\ UNCHANGED <<sess, muddled>>
                  /\ ui' = [ui EXCEPT !.chat = Pushed(@, "Notice", <<>>)]
               \/ /\ input = "Trigger" /\ Submit
                  /\ ui' = [ui EXCEPT !.chat = Pushed(@, "Notice", <<>>)]

-----------------------------------------------------------------------------
(* The tool tree's keys.  A path is <<turn, node>>, both from 1.            *)

Has(path) == path # <<>> /\ path[1] \in DOMAIN ui.tree /\ path[2] \in DOMAIN ui.tree[path[1]]
NodeAt(path) == ui.tree[path[1]][path[2]]
TreeKey == /\ Key /\ kind = "tui"
           /\ UNCHANGED <<log, sess, writing, wire, kind, bound, pc, opens, seen, lag, muddled, wrong>>

\* navigate_tree: up from the first node of a turn goes to the last of the turn before.
Navigate(down) ==
    /\ TreeKey /\ ui.tree # <<>>
    /\ LET t == ui.selected[1] n == ui.selected[2]
           next == IF ui.selected = <<>> THEN <<1, 1>>
                   ELSE IF down
                   THEN IF n < Len(ui.tree[t]) THEN <<t, n + 1>>
                        ELSE IF t < Len(ui.tree) THEN <<t + 1, 1>> ELSE <<t, n>>
                   ELSE IF n > 1 THEN <<t, n - 1>>
                        ELSE IF t > 1 THEN <<t - 1, IF ui.tree[t - 1] = <<>> THEN 1 ELSE Len(ui.tree[t - 1])>>
                        ELSE <<t, n>>
       IN  ui' = [ui EXCEPT !.selected = next]

\* extract_tool_result: the first result of the call in the log, if it is there
\* yet.
ResultOf(call) ==
    LET results == {i \in DOMAIN log : log[i].type = "ToolResultRecorded" /\ log[i].ids[1] = call}
    IN  IF results = {} THEN "-"
        ELSE Status(log[CHOOSE i \in results : \A k \in results : i <= k].ok)

\* populate_result_preview: a preview once found is kept.
Preview(path) ==
    LET node == NodeAt(path)
    IN  IF node.preview # "-" THEN ui.tree
        ELSE SetNode(ui.tree, node.call, "preview", ResultOf(node.call))

\* Mutant: a node that still runs can be expanded.
ToggleAny(path) ==
    /\ TreeKey /\ Has(path)
    /\ ui' = [ui EXCEPT !.expanded = IF path \in @ THEN @ \ {path} ELSE @ \cup {path}]

\* expand_selected, quick_expand, and the action of ExpandNode.
Toggle(path) ==
    /\ TreeKey /\ Has(path) /\ Finished(NodeAt(path))
    /\ ui' = IF path \in ui.expanded THEN [ui EXCEPT !.expanded = @ \ {path}]
             ELSE [ui EXCEPT !.expanded = @ \cup {path}, !.tree = Preview(path)]

\* The n-th most recent call is the n-th path from the end.
Paths == FlattenSeq([t \in DOMAIN ui.tree |-> [n \in DOMAIN ui.tree[t] |-> <<t, n>>]])
QuickExpand == \E n \in DOMAIN Paths : Toggle(Paths[n])

\* expand_all_latest, collapse_all_latest: of the last turn.
InLatest == {path \in ToSet(Paths) : path[1] = Len(ui.tree)}
ExpandAll ==
    /\ TreeKey /\ ui.tree # <<>>
    /\ ui' = [ui EXCEPT !.expanded = @ \cup {path \in InLatest : Finished(NodeAt(path))}]
CollapseAll ==
    /\ TreeKey /\ ui.tree # <<>>
    /\ ui' = [ui EXCEPT !.expanded = @ \ InLatest]

TreeStep == \/ Navigate(TRUE) \/ Navigate(FALSE) \/ Toggle(ui.selected) \/ QuickExpand
            \/ ExpandAll \/ CollapseAll

-----------------------------------------------------------------------------
(* Leaving and coming back *)

\* Ctrl-D on an empty input; a closed stdin.
Quit == /\ Key /\ Leave
        /\ UNCHANGED <<log, sess, writing, kind, bound, opens, seen, lag, muddled, wrong>>

\* The TUI ends with its process.  The REPL shuts the session down and waits
\* for its turn, for 30 s.
Exit ==
    /\ pc = "leaving" /\ pc' = "gone"
    /\ sess' = [sess EXCEPT !.mode = "gone"] /\ writing' = <<>>
    /\ UNCHANGED <<log, wire, kind, bound, ui, keys, opens, seen, lag, muddled, wrong>>

Crash == /\ pc # "gone" /\ pc' = "gone" /\ opens < bound.opens
         /\ sess' = [sess EXCEPT !.mode = "gone"] /\ writing' = <<>> /\ wire' = NoFeed /\ ui' = NewUi
         /\ UNCHANGED <<log, kind, bound, keys, opens, seen, lag, muddled, wrong>>

\* What H03 makes of the log (Resume!Replay): its last turn, if that is open;
\* the calls of its last answer without a result; the job it is paused on.
Last1(positions) == IF positions = {} THEN 0 ELSE CHOOSE i \in positions : \A k \in positions : k <= i
At(types) == {i \in DOMAIN log : log[i].type \in types}
TurnAt == LET last == Last1(At({"TurnStarted", "TurnCompleted", "TurnFailed"}))
          IN  IF last > 0 /\ log[last].type = "TurnStarted" THEN last ELSE 0
Results == {log[i].ids[1] : i \in At({"ToolResultRecorded"})}
CallsSince(from) == SelectSeq(SubSeq(log, from, Len(log)), LAMBDA e : e.type = "ToolUseRecorded")
Pending(from) == SelectSeq([i \in DOMAIN CallsSince(from) |-> CallsSince(from)[i].ids[1]],
                           LAMBDA c : c \notin Results)

\* The mode and the calls of the session that takes the log up.
TakenUp ==
    LET paused == Last1({i \in At({"TurnPaused"}) : i > TurnAt})
        called == Last1({i \in At({"ModelCallStarted"}) : i > TurnAt})
        answered == Last1(At({"ModelCallCompleted"})) > called
        job == log[paused].ids
        completed == \E i \in At({"JobCompletedRecorded"}) : i > paused
        written == ToSet(job) \subseteq Results
    IN  CASE TurnAt = 0 -> <<"idle", <<>>>>
          [] TurnAt > 0 /\ paused > 0 -> IF ~completed THEN <<"paused", job>>
                                         ELSE IF written THEN <<"tools", <<>>>> ELSE <<"answer", job>>
          [] TurnAt > 0 /\ paused = 0 -> IF called = 0 \/ ~answered THEN <<"idle", <<>>>>
                                         ELSE IF CallsSince(called) = <<>> THEN <<"done", <<>>>>
                                         ELSE <<"tools", Pending(called)>>

\* A turn that was given up makes the log unreadable once another is begun in
\* it: such a session is not opened again.
Nested == \E i, k \in At({"TurnStarted"}) : i < k /\ At({"TurnCompleted", "TurnFailed"}) \cap i..k = {}

Reopen ==
    /\ pc = "gone" /\ opens < bound.opens /\ ~Nested
    /\ opens' = opens + 1
    /\ sess' = [NewSession EXCEPT !.inputs = sess.inputs, !.items = sess.items,
                                  !.mode = TakenUp[1], !.calls = TakenUp[2]]
    /\ pc' = Startup(kind)[1]
    /\ seen' = NotSeen /\ lag' = FALSE /\ wrong' = FALSE
    /\ muddled' = (TakenUp[1] # "idle")
    /\ UNCHANGED <<log, writing, wire, ui, kind, bound, keys>>

SessionStep ==
    \/ Write \/ StartTurn \/ CallModel \/ StreamEnd \/ StreamBreaks \/ TurnEnd \/ ToolUse \/ Pause \/ JobCompleted \/ ChildStep
    \/ Delta("text", "TextDelta") \/ Delta("thinking", "ThinkingDelta")
    \/ BlockDone("text", "AssistantMessageAppended") \/ BlockDone("thinking", "ThinkingBlockRecorded")
    \/ \E ok \in BOOLEAN : ToolResult(ok)

ClientStep ==
    \/ Load \/ Subscribe \/ Receive \/ ReceiveLagged \/ CtrlC \/ WindowCloses \/ TreeStep
    \/ Quit \/ Exit \/ Crash \/ Reopen \/ TypeLine

Next == SessionStep \/ ClientStep
Spec == Init /\ [][Next]_vars

-----------------------------------------------------------------------------
(* Properties *)

\* What is on the screen, as chunks and calls under the label they are shown under.
Shown == FlattenSeq([i \in DOMAIN ui.chat.lines |->
            IF ui.chat.lines[i].kind \notin {"Text", "Thinking", "Tool"} THEN <<>>
            ELSE [k \in DOMAIN ui.chat.lines[i].ids |-> <<ui.chat.lines[i].kind, ui.chat.lines[i].ids[k]>>]])
KindOf(type) == CASE type = "AssistantMessageAppended" -> "Text"
                  [] type = "ThinkingBlockRecorded" -> "Thinking" [] OTHER -> "Tool"
Blocks == {i \in DOMAIN log : log[i].type \in {"AssistantMessageAppended", "ThinkingBlockRecorded", "ToolUseRecorded"}}

Current == pc = "loop" /\ wire = NoFeed /\ ~lag
AnsweredBy(n, call) == \E i \in 1..n : log[i].type = "ToolResultRecorded" /\ log[i].ids = <<call>>

\* A front end that has lost no event shows all the log says, text as text and
\* thoughts as thoughts, whatever a user pushed in between.  What is missing was
\* sent before it subscribed and written after it replayed; for the REPL, which
\* subscribes first, it was being written just then, or is a call it found
\* without a result.
AllShown ==
    Current => \A i \in Blocks : \A k \in DOMAIN log[i].ids :
        \/ <<KindOf(log[i].type), log[i].ids[k]>> \in ToSet(Shown)
        \/ /\ i > seen.replayed /\ log[i].ids[k] <= seen.early
           /\ kind = "cli" => i > seen.subscribed
        \/ kind = "cli" /\ log[i].type = "ToolUseRecorded" /\ ~AnsweredBy(seen.replayed, log[i].ids[1])
           /\ log[i].ids[1] <= seen.early

\* Nothing is shown twice, except by the REPL what was both sent and written
\* between its subscription and its replay.
ShownOnce ==
    \A i, k \in DOMAIN Shown : i # k /\ Shown[i] = Shown[k] =>
        /\ kind = "cli" /\ Shown[i][2] > seen.early
        /\ \E n \in 1..seen.replayed : Shown[i][2] \in ToSet(log[n].ids)

\* What is on the screen is the log: all of it, and once, but for what the gap
\* between replay and subscription loses or doubles.
LogShown == AllShown /\ ShownOnce

\* A call with a result is shown with it, unless the result was sent after the
\* replay and before the subscription; one without is shown as running, unless it
\* was replayed, for a replayed call is shown as done.
NodesTrue ==
    Current /\ kind = "tui" /\ writing = <<>> => \A t \in DOMAIN ui.tree : \A n \in DOMAIN ui.tree[t] :
        LET node == ui.tree[t][n]
            results == {i \in DOMAIN log : log[i].type = "ToolResultRecorded" /\ log[i].ids = <<node.call>>}
        IN  IF results # {} THEN (\E i \in results : i \in seen.replayed + 1 .. seen.subscribed + 1)
                                 \/ \A i \in results : node.status = Status(log[i].ok)
            ELSE \/ node.status = "Running"
                 \/ \E i \in 1..seen.replayed : log[i].type = "ToolUseRecorded" /\ log[i].ids = <<node.call>>

\* Only a node that is done is expanded, and what is shown of its result is the
\* result, though the result is sent before it is written.
ExpansionsTrue ==
    /\ \A path \in ui.expanded : Has(path) /\ Finished(NodeAt(path))
    /\ \A t \in DOMAIN ui.tree : \A n \in DOMAIN ui.tree[t] :
          LET node == ui.tree[t][n]
          IN  node.preview # "-" => \E i \in DOMAIN log :
                 /\ log[i].type = "ToolResultRecorded" /\ log[i].ids = <<node.call>>
                 /\ node.preview = Status(log[i].ok)

\* What is expanded is looked up in the log, once: the result of a call that is
\* shown as done is there, unless it is being written just then or the call was
\* replayed without one.
ResultsFound ==
    kind = "tui" => \A t \in DOMAIN ui.tree : \A n \in DOMAIN ui.tree[t] :
        LET call == ui.tree[t][n].call
        IN  Finished(ui.tree[t][n]) /\ ResultOf(call) = "-" =>
                \/ writing # <<>> /\ writing[1].type = "ToolResultRecorded" /\ writing[1].ids = <<call>>
                \/ \E i \in 1..seen.replayed : log[i].type = "ToolUseRecorded" /\ log[i].ids = <<call>>

\* The tool tree is true to the log: statuses, expansions and previews, over lags
\* of the view behind the log and replays of a log that stops in a turn.
TreeTrue == NodesTrue /\ ExpansionsTrue /\ ResultsFound

\* Once it has caught up, a front end takes a turn for running when one runs (the
\* REPL: or is to run), except after a pause, a subagent, a resumed session or,
\* for the REPL, an input given ahead; and then no longer than until the next turn
\* (the REPL: the next input of an idle session).  And Ctrl-C leaves a running turn
\* behind only on the second press of the REPL, or while the flag is wrong.
FlagTrue ==
    /\ Current /\ ~muddled => (ui.flags.busy <=> Running \/ (kind = "cli" /\ sess.held))
    /\ wrong => lag
=============================================================================
