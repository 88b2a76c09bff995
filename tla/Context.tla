------------------------------ MODULE Context -------------------------------
(***************************************************************************)
(* H11, context management, and what it feeds: the pass context_managed.rs  *)
(* makes before every model call (compactor, system prompt injector, tool   *)
(* filter overrider, then H05 and H04), the skill injector                  *)
(* (cogito-context/src/injector/skill.rs), the skill provider, the          *)
(* activate_skill tool, and UpdateSession, which rebuilds the pipeline.     *)
(* A turn is that of TurnDriver reduced to synchronous calls; the events    *)
(* the projector, the injector and H03 read are kept.  The pass reads the   *)
(* log once: later steps of it work on the first seen events.               *)
(***************************************************************************)
EXTENDS Resume, Projection

CONSTANTS
    Hidden,             \* skills with disable-model-invocation
    Providers,          \* skill providers a session may be given: sets of names
    Catalogs,           \* tool providers: their list, the skills of their activate_skill
    Opened,             \* what a session may be opened with: [inject, skills, tools]
    Modes,              \* what an overrider writes
    Replacements,       \* "Drop" (truncate) and "Summary" (a custom compactor)
    Asked,              \* activate_skills of a TurnStarted
    Replies,            \* what the model streams: sequences of blocks
    Forms,              \* the form of a tool's output: "text", "json", "error"
    KeepFirst, KeepRecent,
    MaxTurns, MaxCalls, \* bounds: turns; model calls of a turn (strategy.max_turns)
    MaxTroubles         \* bound: reads and writes of the pass that fail, crashes, updates

ASSUME TruncateAssumption == KeepFirst \in BOOLEAN /\ KeepRecent \in Nat
ASSUME AskedAssumption == Asked \subseteq Seq(STRING)
ASSUME RepliesAssumption == Replies \subseteq Seq([kind : BlockTypes, names : Seq(STRING)])
ASSUME ContextBounds == {MaxTurns, MaxCalls, MaxTroubles} \subseteq Nat

NoSkills == {"no provider"}
NoTools == [list |-> <<>>, skills |-> {}]
Injectors == {"none", "skill"}

VARIABLES
    log,        \* the session's events
    pc, turn,   \* idle, refused, or the turn and its next step
    seen,       \* events the pass has read
    todo,       \* skills still to be activated by the pass
    fresh,      \* skills the pass has activated
    reply,      \* blocks the model has yet to stream
    pending,    \* calls to dispatch
    prompt,     \* the ModelInput of the pass
    conf,       \* the session's strategy, skills, tools and context pipeline
    deps,       \* the turn's own copy of pipeline and tools
    troubles,   \* failures, crashes and updates so far
    short,      \* history: the pass did not read the whole log
    dirty,      \* history: turns in which a read or write of the pass failed or a crash hit
    cut         \* history: turns with a stream that broke or a crash

vars == <<log, pc, turn, seen, todo, fresh, reply, pending, prompt, conf, deps, troubles,
          short, dirty, cut>>

NoPrompt == [system |-> <<>>, messages |-> <<>>, tools |-> <<>>]
History == SubSeq(log, 1, seen)
Evs == [i \in DOMAIN log |-> log[i].ev]
Meta(type) == Ev(type, turn, None, None, "-")

-----------------------------------------------------------------------------
(* The pipeline.  skills = NoSkills: no provider was ever given.            *)

\* build_pipeline_v2: the skill injector captures the provider it is built with.
Buildable(c) == c.inject = "none" \/ c.skills # NoSkills
Pipeline(c) == [inject |-> c.inject, skills |-> IF c.inject = "skill" THEN c.skills ELSE NoSkills]

NoDeps == [pipe |-> [inject |-> "none", skills |-> NoSkills], tools |-> NoTools]
Trouble == troubles < MaxTroubles /\ troubles' = troubles + 1

Init ==
    /\ log = <<>>
    /\ pc = "idle" /\ turn = None /\ seen = 0
    /\ todo = <<>> /\ fresh = <<>> /\ reply = <<>> /\ pending = <<>>
    /\ prompt = NoPrompt
    /\ \E c \in Opened : Buildable(c) /\ conf = c @@ [pipe |-> Pipeline(c)]
    /\ deps = NoDeps
    /\ troubles = 0
    /\ short = FALSE /\ dirty = {} /\ cut = {}

\* apply_session_update: what the spec leaves out stays; a pipeline that cannot
\* be built leaves the old one.  A turn in flight keeps its own and reads
\* nothing of conf: one place in it stands for all.
Update(spec) ==
    /\ pc \in {"idle", "stream"} /\ Trouble
    /\ LET c == [conf EXCEPT !.inject = IF spec.inject = "-" THEN @ ELSE spec.inject,
                             !.skills = IF spec.skills = {} THEN @ ELSE spec.skills,
                             !.tools = IF spec.tools = NoTools THEN @ ELSE spec.tools]
       IN  conf' = IF (spec.inject # "-" \/ spec.skills # {}) /\ Buildable(c)
                   THEN [c EXCEPT !.pipe = Pipeline(c)] ELSE c
    /\ UNCHANGED <<log, pc, turn, seen, todo, fresh, reply, pending, prompt, deps,
                   short, dirty, cut>>

Specs == [inject : Injectors \cup {"-"}, skills : Providers \cup {{}}, tools : Catalogs \cup {NoTools}]

-----------------------------------------------------------------------------
(* Writes *)

Appended(ev, data) == Append(log, [seq |-> Len(log), ev |-> ev, data |-> data])

\* A write nobody here sees fail.
Record(ev, data) == log' = Appended(ev, data) /\ UNCHANGED <<troubles, dirty>>

\* A write of the pass: it reaches the log, or it fails and the pass goes on.
Fail == /\ Trouble
        /\ dirty' = dirty \cup {turn}
        /\ UNCHANGED log
TryRecord(ev, data) == Record(ev, data) \/ Fail

\* record_system_prompt_injected, record_tool_filter_overridden: once a turn.
RecordOnce(type, data) ==
    IF LatestFor(log, type, turn) # 0 THEN UNCHANGED <<log, troubles, dirty>>
    ELSE TryRecord(Meta(type), data)

Goto(to) == pc' = to /\ UNCHANGED <<turn, conf, deps, cut>>
PassVars == <<seen, todo, fresh, short>>
CallVars == <<reply, pending, prompt>>

-----------------------------------------------------------------------------
(* The pass *)

\* try_start_turn: the turn gets the pipeline and the tools of this moment.
StartTurn(names) ==
    /\ pc = "idle" /\ FreshTurn(Evs) <= MaxTurns
    /\ turn' = FreshTurn(Evs)
    /\ Record(TurnStarted(turn', turn'), [NoData EXCEPT !.names = names])
    /\ deps' = [pipe |-> conf.pipe, tools |-> conf.tools]
    /\ pc' = "init"
    /\ UNCHANGED <<conf, cut, PassVars, CallVars>>

\* init::transit: the iteration budget, then ContextManageEntered.
Enter ==
    /\ pc = "init"
    /\ IF CountModelCalls(Evs, turn) >= MaxCalls
       THEN Goto("fail") /\ UNCHANGED <<log, troubles, dirty>>
       ELSE Goto("load") /\ Record(Meta("ContextManageEntered"), NoData)
    /\ UNCHANGED <<PassVars, CallVars>>

\* The history, once; a read that fails leaves what came before it.
Load ==
    /\ pc = "load" /\ Goto("compact")
    /\ \/ seen' = Len(log) /\ short' = FALSE /\ UNCHANGED troubles
       \/ /\ Trouble
          /\ seen' \in {0, Len(log) - 2} /\ short' = TRUE
    /\ dirty' = IF short' THEN dirty \cup {turn} ELSE dirty
    /\ UNCHANGED <<log, todo, fresh, CallVars>>

\* Step 1.  Whether the estimate is over the threshold is left open.
Compact ==
    /\ pc = "compact" /\ Goto("inject")
    /\ \/ UNCHANGED <<log, troubles, dirty>>
       \/ \E r \in TruncateRange(History, turn, KeepFirst, KeepRecent), how \in Replacements :
             TryRecord(Meta("ContextCompacted"), Data(r[1], r[2], <<>>, how, Inherit))
    /\ UNCHANGED <<PassVars, CallVars>>

\* collect_user_channel, collect_model_channel: the skills of the turn's own
\* TurnStarted, then those named by messages before it.
Named(history, type, turns) ==
    FlattenSeq([i \in DOMAIN history |->
        IF IsType(history[i], {type}) /\ history[i].ev.turn \in turns
        THEN history[i].data.names ELSE <<>>])

ByModel(history, t, provider) ==
    LET said == Named(history, "AssistantMessageAppended", 1..t - 1)
    IN  Picked(said, {i \in DOMAIN said : said[i] \in provider \ Hidden})

\* Mutant: the skills loaded by tool call are not counted.
PriorBySuffixOnly(history) ==
    ToSet(FlattenSeq([i \in DOMAIN history |->
        IF IsType(history[i], {"SkillActivated"}) THEN history[i].data.names ELSE <<>>]))

\* collect_prior_activations: by SkillActivated, or by a call that succeeded.
Prior(history) ==
    LET answered == {history[i].ev.key : i \in {k \in DOMAIN history :
                       IsType(history[k], {"ToolResultRecorded"}) /\ history[k].data.form # "error"}}
    IN  UNION {ToSet(history[i].data.names) : i \in {k \in DOMAIN history :
            \/ IsType(history[k], {"SkillActivated"})
            \/ IsType(history[k], {"ToolUseRecorded"}) /\ history[k].ev.key \in answered}}

\* The candidates, without repeats.
Candidates(history, t, provider) ==
    LET asked == Named(history, "TurnStarted", {t}) \o ByModel(history, t, provider)
    IN  Picked(asked, {i \in DOMAIN asked : /\ asked[i] \in provider \ Prior(history)
                                            /\ \A k \in 1..i - 1 : asked[k] # asked[i]})

\* Step 2: the none injector, or the skill injector up to its first write.
BeginInject ==
    /\ pc = "inject"
    /\ LET there == LatestFor(History, "SystemPromptInjected", turn) # 0
       IN  IF deps.pipe.inject = "skill" /\ there
           THEN Goto("override") /\ UNCHANGED todo
           ELSE /\ Goto("activate")
                /\ todo' = IF deps.pipe.inject = "skill"
                           THEN Candidates(History, turn, deps.pipe.skills) ELSE <<>>
    /\ fresh' = <<>>
    /\ UNCHANGED <<log, troubles, dirty, seen, short, CallVars>>

\* One SkillActivated; a failed write ends the injector, and the fallback
\* writes a suffix without bodies.
Activate ==
    /\ pc = "activate" /\ todo # <<>>
    /\ \/ /\ Record(Meta("SkillActivated"), [NoData EXCEPT !.names = <<Head(todo)>>])
          /\ todo' = Tail(todo) /\ fresh' = Append(fresh, Head(todo)) /\ Goto("activate")
       \/ /\ Fail
          /\ todo' = <<>> /\ fresh' = <<>> /\ Goto("suffix")
    /\ UNCHANGED <<seen, short, CallVars>>

\* SystemPromptInjected: the bodies of the skills just activated; if that
\* write fails, the fallback.
Inject ==
    /\ pc = "activate" /\ todo = <<>>
    /\ RecordOnce("SystemPromptInjected", [NoData EXCEPT !.names = fresh])
    /\ IF troubles' # troubles THEN Goto("suffix") ELSE Goto("override")
    /\ fresh' = <<>>
    /\ UNCHANGED <<seen, todo, short, CallVars>>

InjectFallback ==
    /\ pc = "suffix" /\ Goto("override")
    /\ RecordOnce("SystemPromptInjected", NoData)
    /\ UNCHANGED <<PassVars, CallVars>>

\* Step 3: the overrider; if its write fails, the fallback, which may fail too.
Override ==
    /\ pc = "override" /\ Goto("compose")
    /\ \/ \E mode \in Modes : RecordOnce("ToolFilterOverridden", [NoData EXCEPT !.mode = mode])
       \/ /\ Trouble /\ dirty' = dirty \cup {turn}
          /\ log' = IF LatestFor(log, "ToolFilterOverridden", turn) # 0 THEN log
                    ELSE Appended(Meta("ToolFilterOverridden"), NoData)
    /\ UNCHANGED <<PassVars, CallVars>>

\* H05, H04 and the pre_prompt hook, over the history of Load.
ComposePrompt ==
    /\ pc = "compose"
    /\ prompt' = Compose(History, turn, deps.tools.list)
    /\ Goto("call") \/ Goto("fail")
    /\ UNCHANGED <<log, troubles, dirty, PassVars, reply, pending>>

-----------------------------------------------------------------------------
(* The model call and its tools *)

CallModel ==
    /\ pc = "call" /\ Goto("stream")
    /\ Record(ModelCallStarted(turn), NoData)
    /\ reply' \in Replies
    /\ UNCHANGED <<PassVars, pending, prompt>>

StreamBlock ==
    /\ pc = "stream" /\ reply # <<>> /\ Goto("stream")
    /\ LET b == Head(reply)
           ev == IF b.kind = "ToolUseRecorded" THEN ToolUse(turn, FreshCall(Evs), "valid") ELSE Meta(b.kind)
       IN  /\ Record(ev, [NoData EXCEPT !.names = b.names])
           /\ pending' = IF b.kind = "ToolUseRecorded"
                         THEN Append(pending, [id |-> ev.key, names |-> b.names]) ELSE pending
    /\ reply' = Tail(reply)
    /\ UNCHANGED <<PassVars, prompt>>

StreamEnd ==
    /\ pc = "stream"
    /\ \/ /\ reply = <<>>
          /\ Record(ModelCallCompleted(turn, IF pending = <<>> THEN "EndTurn" ELSE "ToolUse"), NoData)
          /\ Goto(IF pending = <<>> THEN "complete" ELSE "dispatch")
          /\ UNCHANGED pending
       \/ /\ pc' = "fail" /\ cut' = cut \cup {turn} /\ pending' = <<>>
          /\ UNCHANGED <<log, troubles, dirty, turn, conf, deps>>
    /\ reply' = <<>> /\ prompt' = NoPrompt
    /\ UNCHANGED PassVars

\* activate_skill: the body of a registered skill the model may load.
Activates(c) == ToSet(c.names) \subseteq deps.tools.skills \ Hidden
Answers(c) == IF c.names = <<>> THEN Forms ELSE IF Activates(c) THEN {"text"} ELSE {"error"}

Dispatch ==
    /\ pc = "dispatch" /\ pending # <<>>
    /\ Goto("dispatch")
    /\ \E form \in Answers(Head(pending)) :
          Record(ToolResult(turn, Head(pending).id),
                 [NoData EXCEPT !.form = form, !.names = IF form = "error" THEN <<>> ELSE Head(pending).names])
    /\ pending' = Tail(pending)
    /\ UNCHANGED <<PassVars, reply, prompt>>

Round == /\ pc = "dispatch" /\ pending = <<>> /\ Goto("init")
         /\ UNCHANGED <<log, troubles, dirty, PassVars, CallVars>>

EndTurn ==
    /\ pc \in {"complete", "fail"}
    /\ Record(IF pc = "complete" THEN TurnCompleted(turn) ELSE TurnFailed(turn), NoData)
    /\ pc' = "idle" /\ turn' = None /\ seen' = 0 /\ prompt' = NoPrompt /\ short' = FALSE
    /\ deps' = NoDeps
    /\ UNCHANGED <<todo, fresh, reply, pending, conf, cut>>

\* A crash and the reopening: H03 takes the turn up where it can, gives it up
\* at RestartCurrentTurn, and refuses a log it cannot read.
Crash ==
    /\ turn # None /\ Trouble
    /\ LET d == Replay(Evs)
           use(c) == CHOOSE i \in DOMAIN log : IsType(log[i], {"ToolUseRecorded"}) /\ log[i].ev.key = c
       IN  /\ pc' = CASE d.point = "Malformed" -> "refused"
                      [] d.point = "ResumeFromModelCompleted" -> "complete"
                      [] d.point = "ResumeFromToolDispatching" -> "dispatch"
                      [] OTHER -> "idle"
           /\ turn' = IF d.point \in {"ResumeFromModelCompleted", "ResumeFromToolDispatching"}
                      THEN d.turn ELSE None
           /\ pending' = [n \in DOMAIN d.pending |->
                 [id |-> d.pending[n].id, names |-> log[use(d.pending[n].id)].data.names]]
           /\ cut' = IF pc' = "idle" THEN cut \cup {turn} ELSE cut
    /\ dirty' = dirty \cup {turn}
    /\ seen' = 0 /\ todo' = <<>> /\ fresh' = <<>> /\ reply' = <<>> /\ prompt' = NoPrompt
    /\ short' = FALSE
    /\ deps' = IF turn' = None THEN NoDeps ELSE [pipe |-> conf.pipe, tools |-> conf.tools]
    /\ UNCHANGED <<log, conf>>

Next ==
    \/ \E names \in Asked : StartTurn(names)
    \/ Enter \/ Load \/ Compact \/ BeginInject \/ Activate \/ Inject \/ InjectFallback
    \/ Override \/ ComposePrompt \/ CallModel \/ StreamBlock \/ StreamEnd
    \/ Dispatch \/ Round \/ EndTurn \/ Crash
    \/ \E spec \in Specs : Update(spec)

Spec == Init /\ [][Next]_vars

-----------------------------------------------------------------------------
(* Properties *)

AtCall == pc = "call"

\* The log as it stood when the pass began to read it.
Found == SubSeq(log, 1, Latest({i \in DOMAIN log : IsType(log[i], {"ContextManageEntered"})}))

\* The events a request has to say: those of the conversation no compaction
\* covers, and the summaries.
Said(history, unsent) ==
    {body \in ToSet(history) : /\ ~Covered(history, body.seq)
                               /\ \/ IsType(body, ConversationTypes \ unsent)
                                  \/ IsType(body, {"ContextCompacted"}) /\ body.data.form = "Summary"}

\* Each is in it once and with what Sent says of it, in the order of the log,
\* except that inside an assistant message the blocks of one kind may come
\* before those of another.
Faithful(req, history, unsent, Sent(_)) ==
    LET items == req.items
        said == Said(history, unsent)
    IN  /\ {<<items[i].seq, items[i].body>> : i \in DOMAIN items} = {<<b.seq, Sent(b)>> : b \in said}
        /\ Len(items) = Cardinality(said)
        /\ \A i, k \in DOMAIN items :
              i < k /\ items[k].seq < items[i].seq =>
                  /\ items[i].kind # items[k].kind
                  /\ \A j \in i..k : items[j].role = "assistant"

\* The request of each gateway says what the log said when the pass began (after
\* a failed read, what some beginning of the log says), over compactions, resumes
\* and failed writes: anthropic all of it, under the suffix found for the turn;
\* responses the same with thoughts cut to their summaries; chat completions
\* without thoughts, and, against what its wire types and comments lead one to
\* expect, without any system prompt and with nothing of a result that is not a
\* string.
RequestFaithful ==
    AtCall => \E n \in 0..Len(Found) :
        /\ ~short => n = Len(Found)
        /\ LET history == SubSeq(Found, 1, n)
               Whole(b) == "full"
               Summarised(b) == IF IsType(b, {"ThinkingBlockRecorded"}) THEN "summary" ELSE "full"
               Stringly(b) == IF b.data.form = "json" THEN "empty" ELSE "full"
           IN  /\ Faithful(Anthropic(prompt), history, {}, Whole)
               /\ Faithful(Responses(prompt), history, {}, Summarised)
               /\ Faithful(Compat(prompt), history, {"ThinkingBlockRecorded"}, Stringly)
               /\ Anthropic(prompt).system = Suffix(history, turn)
               /\ Responses(prompt).system = Suffix(history, turn)
               /\ Compat(prompt).system = <<>>

\* Providers refuse a request whose calls and results do not match: a call that
\* is sent has its result in the messages right behind it, and a result its
\* call right before, over compactions, resumes and short reads; calls of a
\* stream that broke excepted.
ResultsMatch ==
    AtCall => LET ms == prompt.messages
                  uses(i) == {b \in ToSet(ms[i].content) : b.kind = "ToolUse"}
                  Follows(i, k) == i < k /\ \A j \in i + 1..k : ms[j].role = "tool"
              IN  /\ \A i \in DOMAIN ms : \A b \in uses(i) :
                         b.turn \notin cut /\ ~short =>
                         \E k \in DOMAIN ms : Follows(i, k) /\ ms[k].content[1].key = b.key
                  /\ \A k \in DOMAIN ms : ms[k].role = "tool" =>
                         \E i \in DOMAIN ms : Follows(i, k) /\ \E b \in uses(i) : b.key = ms[k].content[1].key

\* From its second model call on, a turn is prompted as H11 decided for it: the
\* suffix and the tools of its own events, the bodies of all skills activated in
\* it.  No call sees the suffix of another turn.
LaterRoundsDecided ==
    AtCall => /\ \A i \in DOMAIN prompt.system : \E k \in DOMAIN log :
                    /\ log[k].ev = Meta("SkillActivated")
                    /\ prompt.system[i] \in ToSet(log[k].data.names)
              /\ CountModelCalls(Evs, turn) > 0 /\ turn \notin dirty =>
                    /\ prompt.tools = Surface(deps.tools.list, OverrideMode(log, turn))
                    /\ ToSet(prompt.system) =
                          UNION {ToSet(log[k].data.names) :
                                    k \in {i \in DOMAIN log : log[i].ev = Meta("SkillActivated")}}

\* The body of a skill goes into one suffix in the life of a session, and into
\* none after a call has loaded it.
SkillOnce ==
    \A i \in DOMAIN log : log[i].ev.type = "SystemPromptInjected" /\ log[i].ev.turn \notin dirty =>
        \A k \in 1..i - 1 :
            log[k].ev.turn < log[i].ev.turn /\ log[k].ev.type \in {"SystemPromptInjected", "ToolResultRecorded"}
            => ToSet(log[k].data.names) \cap ToSet(log[i].data.names) = {}
=============================================================================
