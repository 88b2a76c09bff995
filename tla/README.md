# A TLA+ model of cogito's agent runtime

cogito runs LLM agents as *sessions*. A session is an append-only log of events
and an actor that writes it: the actor starts a turn for every input, the turn
calls a model, dispatches the tools the model asks for, may be paused on a
background job, and must survive the loss of its process at any point ("any
Brain instance can resume any session"). This directory models that system in
TLA+: the runtime's registry and the session actors it opens, their turns, jobs,
commands and subagents, the resume coordinator, the event recorder and its file,
what the log becomes when it is shown to a model (compaction, skills,
projection, the providers' requests), the decoders of the providers' streams,
and the two front ends. TLC checks the models on small instances; TLAPS proves
for every instance the invariants of the job manager and its contract, of the
commands, of the recorder over its file, of the registry and its subagents,
those of the session that tie its turns to the log, and what of the context
pipeline is decided once and kept.

Source paths below are relative to `src/crates/`.

## 1. Inventory

| Component | Source | State | Operations | Talks to |
|---|---|---|---|---|
| Session actor | `cogito-core/src/runtime/session_loop.rs`, `handle.rs` | `in_flight`, `pending_user_input`, mailbox, `turn_result_rx`, `job_completion_rx` | startup with a resume point, the `select!` loop, one handler per `SessionCommand`, `drain_shutdown` | clients (mailbox), turn task (spawn, outcome channel), job manager, recorder |
| Runtime registry | `cogito-core/src/runtime/builder.rs` | session id -> handle | `open_session`, `close_session` | store, session actor |
| Subagents | `cogito-core/src/runtime/subagent.rs`, `RuntimeSpawner` in `builder.rs` | per call: child, receiver, timer | `delegate` | child session, its broadcast and log, parent's broadcast |
| H01 turn driver | `cogito-core/src/harness/turn_driver/` | FSM state, `TurnCtx` | one transition per state | everything below |
| H02 step recorder | `cogito-core/src/harness/step_recorder.rs` | `seq_counter`, `history_cache`, open text and thinking blocks, `current_message_id` | `record_*`, `on_*_delta`, `on_*_block_complete` | store, broadcast |
| H03 resume coordinator | `cogito-core/src/harness/resume.rs` | none | `replay` | store |
| H04/H05/H10 prompt, tool surface, strategy | `harness/prompt.rs`, `tool_surface.rs`, `cogito-strategy` | none | pure functions, lookups | H01, H11 |
| H06 stream demux | `harness/stream_demux.rs` | blocks of one model call | `demux` | gateway stream, H02 |
| H07/H08 resolver, dispatcher | `harness/tool_resolver.rs`, `dispatcher.rs` | none | validate, `dispatch_one` | tools, H02, job manager |
| H09 hooks | `harness/hooks/` | per hook | pre/post hooks | H01, H08 |
| H11 context manage | `transitions/context_managed.rs`, `cogito-context` | the pipeline; all else in the log | compact, inject, override, project; `UpdateSession` rebuilds it | H02, store, skill provider |
| Skills | `cogito-skills`, `builtins/activate_skill.rs` | the provider's skills | list, get, the tool, sigils in messages | H11, tools |
| Job manager | `cogito-jobs/src/local.rs`, `cogito-protocol/src/job.rs` | map of entries: status, outcome, abort handle, sink | `submit`, `status`, `cancel`, `on_complete`, `complete_internal` | job tasks, session actors (sink channels) |
| Store | `cogito-store/src/jsonl.rs` | one file per session | `append`, `latest_seq`, `replay` | H02, H03, H11 |
| Model adapters | `cogito-model/src/{anthropic,openai_compat,openai_responses}/` | the decoder of one stream: open blocks, calls in progress, tag parser | `stream`: wire events to `ModelEvent`s | provider, H06 |
| Request encoders | `cogito-model/src/*/encode.rs` | none | a projected history to a request | provider |
| Commands | `cogito-jobs/src/{bash,run_tests}.rs`, `cogito-sandbox/src/executor.rs` | child process, pipes, timer | `run`: exit, cancel, timeout | job manager, turn task, operating system |
| CLI, TUI | `cogito-cli/src/{chat,render}.rs`, `cogito-tui/src/` | chat and tool tree, busy flag, Ctrl-C window | replay, subscribe, fold events, keys and lines | `SessionHandle`, store, broadcast |
| Strategies, MCP, other builtin tools, plugins, config | their crates | small | see `PROJECT.json` | the harness |

What is hard here:

- **Concurrency.** One mailbox loop, one task per turn, one per job, a detached
  sender per completion, any number of clients; a mutex on the recorder, a
  mutex on the job map, bounded channels between all of them, one of which the
  actor sends to itself.
- **Crash at any await.** Nothing but the file survives. A turn's steps are
  several appends, so every pair of appends is a place to resume from.
- **Ordering.** A job may end before its turn is parked; an outcome is posted
  after the terminal event is in the log; a cancel is three commands, with other
  clients' commands between them.
- **Failing writes.** Most callers of the recorder go on when an append fails.
- **Derived state.** Sequence numbers, the budget of a resumed turn, the cache,
  the compacted ranges, the prompt and the views are all recomputed from the log.
- **Lossy broadcast.** Front ends and the spawner of subagents follow a session
  over a ring that drops what a slow reader has not read.
- **Check, await, act.** The registry is asked before and written after three
  awaits; H11 reads the log once and writes to it before it composes the prompt.
- **Timeouts.** A drain deadline, the wait for a child session and a command's
  deadline all give up on something that may still be at work.

What makes each part correct:

- *Job manager*: a registered sink is told exactly once, with the outcome the
  manager reports; a terminal status is final; no task is left running unasked.
- *Session actor*: one turn at a time; inputs in order and not lost; a paused
  turn goes on; every turn ends.
- *Log over restarts*: one result per call, every call answered before the next
  model call, nothing after a turn's terminal event, the model-call budget kept,
  every log resumable.
- *Model adapters*: the log and the output hold what the provider said, however
  it was cut into chunks; no block is left open.
- *Recorder and store*: numbers ascend without gap, the per-turn events are
  written once, the cache agrees with the file, compactor and recorder agree on turns,
  what was acknowledged stays.
- *Registry and subagents*: one writer per log; a delegate call returns, answers
  with its own child's final message and leaves no child behind; a close returns.
- *Context*: a request says what the log says, with calls and results matched; a
  turn is prompted as H11 decided; a skill is shown once.
- *Commands*: what is reported is what happened, no process is left unasked,
  every command ends.
- *Front ends*: what is shown is what the log says, once; Ctrl-C cancels before
  it leaves.

`PROJECT.json` lists every component with its status, and under `hazards` the
places where the code is exposed, each with the properties aimed at it.

## 2. Modules

| Module | Models | Uses |
|---|---|---|
| `EventLog` | the persisted events and lookups over a log | |
| `Resume` | H03 `replay`, a function from a log to a resume point | `EventLog` |
| `JobManager` | `LocalJobManager`, one action per critical section | |
| `OneShotCompletion` | what `job.rs` promises: abstract, two variables | |
| `TurnDriver` | H01 with H06, H07 and H08, one step per append | `JobManager`, `EventLog` |
| `Session` | actor, clients, turn tasks, job tasks, crash and reopening | `TurnDriver`, `Resume` |
| `JsonlStore` | the file: whole, torn and glued lines | `EventLog` |
| `Compactor` | `TruncateCompactor`: the range it proposes | `EventLog` |
| `StepRecorder` | H02 over the file, with opening, H11, streaming and failing writes | `Resume`, `JsonlStore`, `Compactor` |
| `ModelStream` | `ModelEvent`, H06's blocks and the recorder's buffers | |
| `AnthropicDecoder`, `ResponsesDecoder`, `CompatDecoder` | the decoders, as functions from a state and a wire event to a state and events | `ModelStream` |
| `ModelGateway` | a provider, its adapter and H06: one model call | the decoders |
| `Broadcast` | a receiver of tokio's broadcast: a ring that drops the oldest | |
| `Runtime` | the registry: `open_inner` between its awaits, the actors, `close_session` | |
| `Subagents` | `delegate` and its spawner | `Runtime`, `Broadcast` |
| `Projection` | projector, H04, H05 and the three encoders, as functions | `Compactor` |
| `Context` | H11's pass, the skill injector, `activate_skill`, `UpdateSession` | `Resume`, `Projection` |
| `Commands` | `DirectExecutor`, `bash`, `run_tests` | `JobManager` |
| `Views` | the models and renderers of the front ends, as functions | |
| `Frontends` | a front end on a session: opening, keys, lines, Ctrl-C | `Views`, `Broadcast` |
| `JobManagerProofs` | theorems on `JobManager`, and that it implements `OneShotCompletion` | `JobManager` |
| `CommandsProofs` | theorems on `Commands` | `Commands`, `JobManagerProofs` |
| `EventLogProofs` | lemmas on the readers of a log and on `Replay` | `Resume` |
| `SessionProofs` | theorems on `Session`: its turns, and who is in flight where jobs outlast the parking of their turn | `Session`, `JobManagerProofs`, `EventLogProofs` |
| `SessionCallsProofs` | theorems on `Session`: calls, the jobs they become, their answers and the next model call; that its log can be taken up | `SessionProofs` |
| `SubagentsProofs` | theorems on `Subagents` and `Runtime` | `Subagents` |
| `StepRecorderProofs` | theorems on `StepRecorder` | `StepRecorder`, `EventLogProofs` |
| `ContextProofs` | theorems on `Context` | `Context`, `EventLogProofs` |
| `MC...` | the instances TLC runs | |

A definition beginning with a comment "Mutant:" is a plausible bug in the
operator that follows it. No specification uses it; it is there to show that a
property can fail (`mutants` in `PROJECT.json`).

### JobManager

The entry map is `jobs` (status, sink, whether the abort handle is there; a terminal
status is the outcome); `submitting` are
submits between the insert and the patching of the abort handle, `workers` the
live tasks, `aborted` the tasks told to stop, `sends` the completions out of the
lock and not yet in their channel, `sinkQ` the bounded channels. `Submit` and
`PatchAbort` are the two critical sections of `submit`; `Complete`, `Cancel` and
`OnComplete` one each; `Deliver` is the awaited `send` after the lock is
released. `WorkerPanic` and `WorkerAborts` end a task without
`complete_internal`. `delivered`, `registered` and `replaced` are history
variables, read by properties alone.

### TurnDriver and Session

`drivers` maps a turn to its task: FSM state, model calls made, error streak,
unresolved and pending calls. Every append is a step, so a crash can fall
between any two; the recorder's mutex is modelled because `demux` keeps it for
the whole stream and the actor keeps it over the two appends of a completion.
Faults are inputs: a hook that rejects, a gateway that fails, a stream that ends
unsealed, a tool schema that changed over a restart ("drift"), a tool that
answers with a job nobody knows ("stray").

`mode` tells where the actor is. A handler that awaits is split at the await
(`starting`, `completing`, `recording`, `cancelling`, `forwarding`). The
`select!` is biased: `Arm3` may be taken only when the mailbox and the outcome
channel are empty. `Exit` covers both ends of `drain_shutdown`, the drained turn and the
deadline. A new actor (`incarnation`) gets a channel of its own. `Start*` are
the branches of `apply_resume_point`; `RestartCurrentTurn` is downgraded to a
fresh session, and the turn noted in `abandoned`.

Jobs do not panic in `Session` (they may in `JobManager`): the code has no
handler for it, and a paused turn then stays paused for ever.

### StepRecorder, JsonlStore, Compactor

A line of the file parses or not, and has its newline or not. A write that fails or is
cut leaves nothing, part of the line, or all of it but the newline; the next append runs
on from there. A crash inside a write is such a failed write followed by a crash. `pc`
is the position in a turn, named for the event written next; the tool round is reduced
to one synchronous call, since `TurnDriver` has the rest. H11's injection and override
are each tried and, when the write fails, tried once more as the fallback of the pass
(`Attempt`). A custom compactor may propose any range, the truncating one proposes what
its algorithm computes; the token estimate that decides whether to compact at all is a
free choice. A block of text is the set of model calls its chunks came from.

### ModelGateway and the decoders

A decoder maps its state and one wire event to its next state and the `ModelEvent`s it
emits (`Emit`); `Translate` lets H06 consume them. `said` is what the provider said,
kept apart from the decoder, so that the properties can compare it with what was
recorded. A block of Anthropic's may begin with its first piece (`Beginnings`) and a
redacted one has no other; `FromDeltas` is what is left of the blocks for one who, like
the recorder, sees their deltas only. A text is a sequence of pieces. For the
OpenAI-compatible stream the pieces are `<`, `think>` and `/think>`: together they make
tags, half tags and, out of place, ordinary text, so every way to cut a tag in two is
there. (A tag cut elsewhere is kept back by the same rule, from the last `<` on.)
Arguments of a call are two fragments, and parse, are empty or are cut. The provider is
external; it is given the freedoms the code mentions: a `finish_reason` on any chunk,
fragments with an empty id, calls in alternating fragments, reasoning in a field of its
own or in tags, an item without its done when the token limit cuts it, a connection that
closes or fails at any point.

### Runtime, Subagents, Broadcast

A process is one call of `open_inner` and the actor it spawns; `phase` tells at
which await it is (`measuring`: `latest_seq`; `collecting`: `replay`;
`starting`: the append of `SessionStarted`, the pipeline and the insert), then
`up`, `draining` or `gone`. `Refused` is an `Err` at any of them. The recorder's
counter is taken at `measuring` and used from `starting` on, which is where two
openings can part from the file. `Close` removes the handle and posts the
shutdown, `CloseReturns` is its answer; `ExitDrained` and `ExitAtDeadline` are the
two ends of `drain_shutdown`, and after the second the turn's task writes on. A
turn is reduced to its first event, its messages and its last. The last is two steps,
`Announce` and `Finish`, for the recorder broadcasts an event before it writes it,
and what a delegate call waits for may come before it is in the log; `ExitAtDeadline`
can fall between the two.

A delegate call is a process too, opened without registration, one level below
its parent. It waits on a receiver that may lag (`Sent` in `Broadcast`), times
out at any moment, shuts its child down and reads the child's log. The bridge
sends each event of the child to the parent's receiver. `raced` and `overran`
are history variables: they name the two ways to two writers on one log that the
code has (section 6), so that the properties can say there is no third.

### Projection and Context

The pass of `context_managed.rs` is split where it awaits: `Load` reads the log
(or part of it, when a read fails), then the compactor, the injector skill by
skill, the suffix, the overrider and the decision each write their event or
fail to, and the prompt is composed from the copy `Load` made. A truncating and a
custom compactor, a skill injector and none, and an overrider are all in. The
rest of the turn is a stream of blocks, synchronous calls and a crash at any
point with H03's resume after it. `Update` is `UpdateSession`.

A text or thought is named by the sequence number of its event, so that a
request can be compared with the log, and what an encoder makes of its body is
"full", "summary" or "empty": `Anthropic`, `Responses` and `Compat` are what the
three encoders make of a projected history. A skill's body is its name.
The providers' demand that a call's result follow it is a property
(`ResultsMatch`), not an assumption.

### Commands

`race` is the future of `DirectExecutor::run` (and of `run_cargo_nextest`, its
twin): waiting in the `select!`, draining the pipes, done, or dropped with its
task. `child` is the process, `heirs` the processes it leaves behind that still
hold its pipes. A job's future is driven by the manager's worker, so `Complete`
and `WorkerAborts` of `JobManager` are its ends; a foreground call belongs to
the turn's task, which nothing aborts. `Kill` is part of the arm that takes it,
since the signal is sent in the same poll.

### Views and Frontends

`Views` is pure: the chat and the tool tree as folds over stream events, the translation
of a log into such events, the renderer's lines. A line of input is one of the things
each front end can take it for (`LineOfRepl`, `LineOfTui`): which one depends on its
words, and nothing that is checked here depends on them. `Frontends` puts a REPL or a
TUI on a session that starts, streams, pauses, resumes, delegates and ends turns, and
may be crashed and opened again. The recorder sends an event and then writes it, so
`writing` holds what was sent and is not in the log. `seen` remembers where the log and
the broadcast were at the replay and the subscription; `muddled` that something happened
after which the busy flag is known to be wrong (section 6), until the next turn.

## 3. Runs

`tlc -config X.cfg M` for each line of `runs` in `PROJECT.json`.

| Run | Bounds | Shows |
|---|---|---|
| `jobs` | 2 jobs, 2 actors, channels of 1 | the type invariant, `OneShot`, `NothingLost`, `TrueOutcome`, `NoOrphanTask`, `OutcomeFinal`; the manager implements `OneShotCompletion`; registered sinks are told in the end |
| `session_faults` | 1 turn, 2 model calls of up to 2 tool calls, every fault, 2 crashes, fast jobs | `ToolResultOnce`, `NothingAfterTerminal`, `MatchedUnlessBehindJob`, `BudgetHonored`, `AsyncChainOrdered` |
| `session_control` | 2 inputs, 1 cancel, 1 shutdown, 1 crash, mailbox of 2 | the type invariant, `OneTurnInFlight`, `PauseHasCompletion`, `InputNotLost` (and in order), `UnresumableOnlyIfAbandoned` |
| `session_live` | 2 inputs, 1 crash | `TurnEnds`, `InputServed` |
| `recorder` | 2 turns, 1 model call, 1 failing write, 1 crash | `SeqsAscend`, `OncePerTurn`, `CacheFaithful`, `TruncateAccepted`, `AckedKept` |
| `decoders` | 3 blocks of 2 chunks, text, thinking, redacted thinking and calls; contents of up to 7 pieces in chunks of 1 or 2, a call counted as 2 | `LogIsWhatWasSaid` (and no block is left open), `OutputIsLog`; what came without a delta and what is taken up again are left out, see below |
| `runtime` | 1 session with 2 openers and 1 closer, who can also name the first call's child once the call has begun, 2 delegate calls, 3 operations in all, 2 messages per child, depth 2, broadcast of 2 | `OneWriter` (and the numbering of the log that rests on it), `AnswerIsFinal` (and no child is left), `WaitsEnd`: delegate calls and closes return |
| `context` | 2 turns of 2 model calls, 2 skills, 2 tools, 1 failed read, failed write, crash or update | `RequestFaithful` (every request, bodies and system prompt, against the log as the pass found it), `ResultsMatch`, `LaterRoundsDecided`, `SkillOnce` |
| `commands` | 1 job, 1 foreground call, 1 session | `StrayOnlyByAbort`, `DoneIsDone`, `CommandEnds` |
| `frontends` | both front ends; 2 items, 1 input, 1 key; 1 item, 2 keys; a session opened twice with 2 items, or with 2 inputs; 2 inputs and a key; broadcast of 2 | `LogShown` (`AllShown` and `ShownOnce`), `TreeTrue` (`NodesTrue`, `ExpansionsTrue` and `ResultsFound`), `FlagTrue` (and what Ctrl-C makes of it) |

What the passing properties leave out, because the code does otherwise (section 6):

- `LogIsWhatWasSaid` and `OutputIsLog` compare what the recorder can know, the
  deltas: the data of a redacted block and the text a block starts with are in the
  output and not in the log. `LogIsWhatWasSaid` also leaves out a stream in which a
  kind of block was sealed, taken up again and not closed (`TakenUpAgain`): that
  block is lost.
- `RequestFaithful` says of each gateway what its request is, the losses included:
  thoughts are cut to summaries for Responses and dropped from chat completions,
  which also drop the system prompt and every result that is not a string. It takes
  the log as it stood when the pass began, since the first call of a turn does not
  see what the pass decides; `LaterRoundsDecided` speaks of the calls after it.
- `MatchedUnlessBehindJob` leaves out the calls behind one that became a job, and
  `SkillOnce` the turns with a failed write, in which a skill may be lost.
- `OneWriter` leaves out sessions opened by two at once (`raced`) and those with a
  turn that outlived a drain deadline (`overran`); `StrayOnlyByAbort` the manager's
  abort.
- `TreeTrue` lets an expanded node keep its placeholder; what it says of it is that
  the result can only be missed while it is being written (`ResultsFound`).
  `FlagTrue` leaves out the turn after a pause, a subagent, a resumption or an input
  given ahead, up to the next one.

Why the bounds are enough for what is asked:

- two jobs and two sinks let a cancel, a completion and a registration of the
  same job race, one sink replace another, and two senders wait on one slot;
- two model calls of two tool calls give a response with a valid and an invalid
  call, one of them sync and one async, and a second round after it; two crashes
  give a crash during a resumed turn;
- `MailboxCap = 2` fills in `session_control`; elsewhere it is large enough not
  to, because a full mailbox stops the actor for good (section 6);
- in `recorder` the second turn can compact the first, and the crash can fall
  before, in or after it; one model call suffices because the sequence numbers,
  the cache and H11's records do not depend on how many there are;
- seven pieces hold a thought, text and half of a second thought, each tag cut or
  whole; three blocks hold a kind taken up again after another;
- in `runtime` two openers race each other and a closer, and the second can open
  what the first left behind; two calls can nest, and a third operation of a
  client falls beside them;
- in `context` the second turn can compact the first and meets the skills it
  activated; the second call of a turn sees what its own pass decided; one
  trouble at every possible place is enough because the pass keeps nothing
  between turns but the log;
- two items behind a ring of two slots let a front end lag by one; the five
  bounds of `frontends` are alternatives (`Bounds`), since a key in a long answer
  and a second opening ask different questions;
- a job and a foreground call do not share anything but the operating system;
  one session's channel is enough, since `jobs` has the rest of the manager.

`FastJobs = FALSE` lets a job end only once its turn is parked. The
`session_control` and `session_live` runs assume it, because without it a pause
can miss its completion, which is what `fast_job` shows; `session_faults` does
not assume it.

Deadlock is not checked: a session whose clients are done is idle, a refused or
failed one has stopped, a stream that ended is over.

**Fairness.** `JobFairSpec`: a job task ends or is aborted when told so, a
waiting send gets through when there is room, a live receiver receives.
`FairSpec`: weak fairness on the actor, the turn tasks, the job tasks, the sends
and the reopening of a session. That is what a tokio runtime gives to tasks that
can run, plus two assumptions on the outside: model streams and jobs end, and
somebody opens a session that went down. Nothing is assumed of clients, and
crashes are bounded, not fair. Actor fairness is weak on its disjunction; the
loop is biased, so an arm can be passed over while an earlier arm has work, and
the bounds on inputs make that finite. `FairSpec` of `Subagents`: openings go on,
actors take their commands and exit, a waiting delegate call reads, times out or
tears down, a close returns; nothing is assumed of turns, which may never end.
`CommandFairSpec`: a future that has begun is polled and its timer fires, and the
processes a command left behind end some time; nothing makes a child exit.

### Violation runs: code against what the repository says of it

| Run | Property | What happens |
|---|---|---|
| `given_up` | `AlwaysResumable` | a turn cut before its model call is sealed is given up without a terminal event; the next turn is nested in it and a second restart refuses the log |
| `fast_job` | `PauseEnds` | a completion that arrives before the turn is parked is dropped, and the turn stays paused |

`PROJECT.json` quotes the line each contradicts. `UnresumableOnlyIfAbandoned` is
the part of the first that does hold, and `session_live` the part of the second.
Section 6 lists the disagreements that have no run of their own.

## 4. Proofs

`tlapm M.tla` for each of the modules below. The theorems hold for every value
of the constants; the assumptions are the `ASSUME`s of the modules they are
about, all of which TLC evaluates on the runs.

**`JobManagerProofs`**, for every set of job ids and sinks and every capacity:
`JobTypeOK`, `OneShot`, `NothingLost`, `TrueOutcome`, `NoOrphanTask`,
`OutcomeFinal`. Assumed: `NoSink` is not a sink, capacities are positive. The
inductive invariant is `JobInv`, the conjunction of the invariants with
`Bookkeeping`. `OneShot` alone is not inductive: that a job tells its sink once
rests on the sink being taken out of its entry when the send is created, and on
there being no second send for a registration that was told. `Bookkeeping` is
what the critical sections keep up between them: a terminal job holds no sink, a
running job whose submit has returned has its abort handle, and whatever is
stored, on its way or told was registered, for a job in the map.

The module's last part is the refinement: `JobSpec` implements
`OneShotCompletion` (`ImplementsContract`). The initial states map to initial states; under `JobInv`
every action maps to a step of the contract or to a stutter, the one case that
needs the invariant being a completion that meets a terminal status.

**`CommandsProofs`**: every step of `Commands` is a step of the manager or leaves
it alone (`CommandsUseManager`), so `JobInv` holds there too; then
`StrayOnlyByAbort` and `DoneIsDone`, over a stronger invariant that says for each
position of the future what is true of the child, its heirs and its task.
Assumed: a foreground call is not a job.

**`EventLogProofs`** has the lemmas on logs: what an append does to positions,
started and ended turns and the count of model calls; that `InOrder` enumerates a
finite set of positions upwards, without gap or repeat; that every decision of
`Replay` is for a turn the log has started and not ended. `InOrder` is defined
by rank (the k-th member is the one with k members up to it), because a proof
about a recursive definition needs an induction the provers cannot instantiate;
where an induction is needed it is done on a least counterexample (`LeastNat`).

**`SessionProofs`**: `SessionTypeOK`, `BudgetHonored`, `NothingAfterTerminal`, for
any number of inputs, jobs, cancels, crashes and restarts, with every fault and
with fast jobs. The inductive invariant is `SessionInv`. Its core, `Held`, follows a
turn from hand to hand: it is held by its task, by an outcome on its way to the
actor, or by the actor paused on it, never by two of these; whoever holds a turn
that has ended will not write for it; a task counts its model calls as the log
does. Neither property is inductive without it: that nothing follows a terminal
event rests on the task that wrote it being the only holder, and the budget of
a resumed turn on the count in the log being the count its last task had. It is stated
of a log, tasks, outcomes and a turn in hand, so that each kind of step
(`HeldGoes`, `HeldAdds`, `HeldPost`, `HeldParks`, `HeldStarts`, `HeldResumes`, ...) is a lemma
and the actions are instances of them. Assumed: the constants' types, no stray
job id is one of the manager's.

The module's second part is about the actor: `OneTurnInFlight`, `PauseHasCompletion`,
`InputNotLost`, under `~FastJobs`: a job runs until the actor has parked the turn
that waits for it, unless it is cancelled. With `FastJobs` TLC finds all three
violated: a completion that finds the actor busy with a turn is dropped and clears
`in_flight` (`session_loop.rs:690`), so that a second turn may start beside the
first, ahead of the input in the slot, and the pause that follows waits for ever
(the run `fast_job`). The theorems say that nothing else breaks them, over any
number of inputs, jobs, cancels, shutdowns, crashes and restarts and with every
fault. The inductive invariant is
`SessionInv /\ ControlInv`. `ControlInv` follows a completion from the manager's
map over the send, the channel, the actor's hand and the mailbox: it is in one of
these places at most (`Pipe`), the actor is paused on its job all the while, and
the job will not speak again; while the actor is paused it is in one of them
(`Coming`). So `HandleStrayCompletion` is never enabled (`NoStrayCompletion`). That
a client's `CancelJob`, which comes from an older look at the actor, does no harm
is `Asks`: the job it names is the one the actor is still paused on, or is
over. `InputsInv` then puts the inputs in line: what was started came before
what is in hand, that before what is queued, and the slot is used beside a turn
only, which is what a stray completion would break. Assumed, beside the types: the
channels are numbered by incarnation.

**`SessionCallsProofs`**: `ToolResultOnce`, `AsyncChainOrdered` and
`MatchedUnlessBehindJob`, for any number of turns, calls, jobs, crashes and restarts, with
every fault and with fast jobs; and `UnresumableOnlyIfAbandoned`.
The inductive invariant is `SessionInv /\ CallsInv` (TLC agrees on the bounds of
`session_faults`). A call with neither a result nor a pause in the log is *free*,
and it belongs to the turn that used it. `CallsInv` says that the calls a task
still has to dispatch or to answer are free and its own, each once (`TaskOK`); that
a call a task or an outcome is paused on is answered only by the actor, after the
completion of its job is recorded, and that is recorded once (`OutcomeOK`,
`ActorOK`); and of the log what each event leaves for the next (`LogOK`). That one
task at a time may use these claims is `Held`, of `SessionProofs`. The hard case is
the restart: `Replay` reads positions, not turns, when it collects the calls
of the last model call. `Sequential` (a turn's events are written between its
start and its end) and `StreamsOK` (when a model call ends, every earlier call of
its turn is answered) are there for it: what it collects is free
(`UnansweredFree`).

`MatchedUnlessBehindJob` takes a second invariant on top, `MatchInv` (TLC agrees on
the same bounds). A call is *settled* when it is answered or comes after a call of
its turn that became a job; a running task owns every call of its turn that is
not (`SettledBut`), an outcome that paused leaves the call of its job only, and
a task has nothing of its own when it calls the model (`Orderly`). A call put back
by a restart may come after one that was submitted but not answered, so the queues
are kept in the order the calls were made, and what is dropped with a parked
task is behind its job. Of the log, `MatchedLog` keeps what a restart needs to find
the open calls again: calls come in order (`UsesRise`), each after a model call of
its turn that has not ended yet (`UsesStreamed`), and a pause leaves its own call
open only (`PausesSettled`). Assumed: what `SessionProofs` assumes.

`UnresumableOnlyIfAbandoned` needs both modules, `SessionInv /\ CallsInv /\
ControlInv`, and a third invariant, `ReadableInv` (TLC agrees on the bounds of
`session_control`). H03 refuses a log for three reasons, and each is excluded by
what another part of the system does. A completion without its pause: `LogOK`. A
turn started inside another: while no turn was given up, the last turn of the log
is in some hand or has ended (`Worked`, `TurnOpen`), and the actor starts a turn
with empty hands only. A model call that ended with calls the log does not have:
what the demultiplexer seals as `ToolUse` has a call after its opening
(`SealsTell`, `CallsLast`). `CanBeTakenUp` is the reader's half: a log without
these is taken for one of the resume points, and the pause it ends in has its
call. The theorem assumes, beside `~FastJobs`, that no model stops for tools
without calling one (`"stop" \notin Faults`); without either assumption TLC finds
a restart that fails with no turn given up (section 6 describes both).

**`SubagentsProofs`**: `OneWriter` and `AnswerIsFinal`, for any number of sessions,
openers, closers and nested calls. The inductive invariant (`SubagentsInvariant`)
follows the recorder's counter through the awaits of `open_inner`: what a process
read of the log still describes it later because, unless `raced` or `overran`
says otherwise, no other process may write meanwhile; and it follows the answer of a
call from the child's last message over the child's broadcast to the parent: an end
that was received is in the log or in the hand of a task that writes nothing else
before it (`Promised`).
Assumed: sessions, openers and calls are different things.

**`StepRecorderProofs`**: `SeqsAscend`, `CacheFaithful`, `OncePerTurn`, `AckedKept`
and `TruncateAccepted`, for any number of turns, failed and cut writes, crashes and openings. The
inductive invariant is `RInv` (TLC agrees on the bounds of `recorder`). `Past` says
of the last line, the only one that can be cut, what the counter knows of it: a
line cut by this recorder bears the number the next event will bear; one found at
the opening was counted. `Suffix` and `Whole` say that the cache is the end of
what was counted and, once nothing is missing, all of it. `Once` needs `Whole`:
that an event is not written twice rests on the search of a cache that has been
loaded. `Paid` is behind `AckedKept`: a cut line is a loss to come, of two events
if it was counted at the opening and will be glued to the next.

`TruncateAccepted` follows from `RInv` under `KeepRecent >= 1`. In a file that can be
read every event bears its position (`Numbers`), so that the compactor's scan can be
computed: a turn that another one follows ends right before an event that begins a
turn or a pass (`TurnEndFound`), and what is proposed reaches from the first to the
last of the turns it may drop (`RangeProposed`). The recorder looks at its loaded
cache, the compactor at the store: the two part at the first event and at a cut last
line only, and neither is in the way (`ProposedAccepted`). Without the assumption it is
false: the default of `keep_recent_turns` is 5 and 0 is not refused, and with 0 the
range of a turn whose passes could not be written reaches to the end of the log, where
a line that was cut just before its newline is in the store and not counted (TLC needs
three failed writes); the recorder then refuses the proposal and nothing is compacted.

**`ContextProofs`**: `SkillOnce`, `LaterRoundsDecided` and `ResultsMatch`, for any log,
replies, skills and tools, and any number of turns, rounds, failed reads and writes,
crashes and updates. The inductive invariant is `ContextInv` (TLC agrees on the bounds
of `context`). None of them is inductive. The body that goes into a suffix was picked by
an earlier step, from a copy of the log that is older still. `Sourced` says where names
come from: what a suffix holds was activated in its turn before it, and what a result
loads was asked for by its call before it. So whatever an earlier suffix or result has
brought is a prior activation of any history that reaches up to it (`PriorHas`). `Clean`
says what is true of a turn in which nothing failed, at each position of the pass: what
the pass has not read is of the turn itself, so an earlier turn's suffix cannot have
been missed; what is still to be activated and what has been are no prior activations;
the turn's suffix, once written, holds all that was activated in it, and it and the
override are among the events that every later pass reads. A later pass activates
nothing more, since the injector finds the suffix. With `OnceOf` (one suffix and one
override per turn) the history of a pass and the log then agree on both. A failed read
or write and a crash are what takes a turn out (`dirty`); the turns around it are
covered. That `Candidates` are names needs a value of the recursive function in
`FlattenSeq`; it is built up to the least index without one (`FlattenType`). What `H03`
takes up after a crash comes from the lemmas on `Replay`, which are stated for any set
of events with turn, key and job numbers. Assumed: the constants' types.

`ResultsMatch` relates a request to everything that happened to the session before, and
its proof has four parts. `RoundsOK` says of the log that no call is lost: it has its
result, or the turn has it in hand (`Open`), or its stream broke (`Accounted`); that
what waits to be dispatched is a call of the log (`InHand`); and that from a call to its
result there are only blocks of its message, a `ModelCallCompleted` and results
(`Behind`). The crash is where this is at stake: `ReplayOpenTurn` says what `H03` makes
of a turn that is open, and `CrashCalls` that the calls it takes up are those of the last
message without a result, that nothing has come between, and that a turn taken up was not
streaming. Second, `Bounded` says where the truncating compactor cuts: a range begins with
a turn and ends before the first pass of one. A call has a pass of its own turn before it,
so a range covers a call and its result or neither (`SameCover`). Third, `WalkMatches`
says of the projector alone, over any history, that a call and a result which follow each
other so, both visible, end up right behind each other in the messages: an induction over
the walk, written as a recursive function, from a least counterexample (`Walked` is its
invariant, with what the buffer still holds). Last, a pass that read the whole log has
missed no call and no result (`InPass`), which is why the first half of the property
excepts a short read. Broken streams are excepted (`cut`); crashes are not.

Only model-checked:

- everything temporal under fairness (`EventuallyTold`, `TurnEnds`,
  `InputServed`, `WaitsEnd`, `CommandEnds`), which the prover does not handle;
- `LogIsWhatWasSaid` and `OutputIsLog`: the tag scanner of `CompatDecoder` is
  recursive, as the loop it models, which keeps `ModelGateway` out of the
  prover's reach;
- `RequestFaithful`: each event a request has to say is in it once. The walk of the
  projector is proved about as far as calls and results go; that it leaves out no text, and
  that the encoders' concatenation of the messages (`FlattenSeq`) does not, is not;
- `LogShown`, `TreeTrue` and `FlagTrue` of `Frontends`: a view is the fold of the events
  shown so far, and that two folds agree is an induction over the log.

## 5. Plan

The order is by what a defect would cost. The modelling is done in this order:
jobs, session and resume; recorder, store and compaction; stream decoders;
registry and subagents; context, projection and encoders; front ends; commands.
Runs of one-off disagreements gave way to runs of new parts; the disagreements
are described in section 6.

Left to model, in order: the composition of hook handlers and `command_guard`;
the precedence and name clashes of strategy, skill and plugin registries; the
MCP provider's naming and its startup, where the order in which servers come up
decides which of two equal names wins.

Left to prove: `RequestFaithful`, from the invariant of the walk extended to all blocks;
`LogShown`, `TreeTrue` and `FlagTrue`, whose folds have to be written as recursive
functions with an invariant of their prefixes, as `Walk` is.

## 6. Limits, and other disagreements met

Not modelled: payloads and wording, drawing, schema validation and hooks beyond
their verdict, HTTP and the splitting of its lines, directories, environments and
the truncation of a command's output, and the parts `PROJECT.json` marks
`not_modelled` (parsing of configuration, strategies, skills and plugins at
startup; the MCP client, whose protocol is a library; test fixtures). `Session`
takes appends as atomic and successful; failing and torn writes are the subject
of `StepRecorder` and `Context`. A session of `Session` is not reopened while a
task of its old actor still runs; that is the subject of `Runtime`.

Seen while modelling, in the model's behaviours or by reading, without a run of
their own:

- A crash after a turn left a pause behind resumes at the old `TurnPaused`:
  the boundary scan (`resume.rs:200`) does not look at what came after the
  completion, so calls of later responses are forgotten.
- A stop reason `ToolUse` without calls is accepted live and `Malformed` on
  resume (`resume.rs:402`).
- `JobCompleted` while a turn is active clears `in_flight`
  (`session_loop.rs:690`): with a fast job the next input starts a second turn
  beside the first.
- The drain deadline may pass while the task is at work; it appends after the
  actor has gone (`session_loop.rs:1092`, against `builder.rs:145`).
- The actor awaits a send to its own bounded mailbox (`session_loop.rs:272`):
  with 64 commands queued it waits for itself.
- A second `on_complete` silently replaces the first (`local.rs:243`).
- `keep_recent_turns` counts the turn in progress, documented as "most-recent
  completed turns".
- A failed write of `SessionStarted` is swallowed; `TurnStarted` then has
  sequence number 0 and `replay(id, 0)` skips it.
- A lost `TurnFailed` leads to nested turns and a refused log.
- A crash between `JobSubmitted` and `TurnPaused` (`dispatcher.rs:100`) makes the
  restart dispatch the call again, as a second job; `H08-tool-dispatcher.md:88`
  expects the job to be found failed.
- The truncating compactor takes `ContextManageEntered`, written right after
  `TurnStarted`, for the end of the turn (`truncate.rs:226`), and the recorder
  accepts it: the last turn of a dropped range loses its input and keeps its
  answer, against `adr/0008-context-management.md:139`.
- A second `<think>` that is not closed, and a second Responses text without its
  done, are never sealed (`thinking_sealed` and `text_sealed` stay set): the
  block is lost, and its deltas stay in the recorder for the next message
  (`TakenUpAgain`).
- An empty `content` chunk between two reasoning chunks seals the thinking for
  good (`openai_compat/decode.rs:170`), with the same effect.
- A later fragment with an empty id overwrites the id of a call that has started
  (`openai_compat/decode.rs:200`).
- A compat stream that thinks after its first call started gives two blocks the
  same index: the calls are numbered from 2 again.
- `tool_args_buf` of the Responses decoder is documented as a fallback and never
  read; a call without its done is dropped.
- `gateway.rs:281` promises exactly one `MessageCompleted`; a cut Anthropic or
  Responses stream ends without one and `demux` returns `Ok`, while a cut compat
  stream is sealed as `EndTurn`.

*Sessions and jobs*

- A call answered by a job makes `tool_dispatching` return with the calls behind
  it dropped (`tool_dispatching.rs:90`); they never get a result, against
  `model_completed.rs:49` ("every ToolUseRecorded must have a matching
  ToolResultRecorded before the next model call"). `MatchedUnlessBehindJob` is
  what holds.
- Two opens of one session can both pass the registry's check
  (`builder.rs:199`), and an open may pass while a closed actor still drains
  (`builder.rs:162`); both actors then number from the same place.
- A child's depth is not taken from its meta when its session is opened again at
  the top level: it counts from 0.
- A lag on the child's broadcast ends the wait of `delegate` as if the child had
  completed (`builder.rs:747`): the answer is whatever it had said by then.
- The manager's cancel aborts a command's task before the race sees anything; the
  child goes on (`run_tests.rs:197` has it as a TODO), against `bash.rs:221`
  ("so a session shutdown / cancel still kills the child").
- A command's deadline kills the shell and not what it started; a process that
  keeps the pipes open keeps the command from ending (`executor.rs:104`), against
  `command.rs:31` ("Hard wall-clock timeout for this execution").

*Recorder and store*

- A stream that errs inside a text block leaves the block open
  (`stream_demux.rs:85`), and the next call's text is written under the old turn
  and message (`step_recorder.rs:179`), against `H02-step-recorder.md:47` ("one
  model call = one assistant message").
- A last line cut by a crash makes the session impossible to open
  (`jsonl.rs:108`), against `H02-step-recorder.md:60` ("must tolerate this by
  ignoring the trailing partial line on read").
- A redacted thinking block, or the text a block starts with, has no delta, so the
  recorder does not write it; the payload of the former is lost (`anthropic/decode.rs:101`), against
  `jsonl-v1.md:103` and `0019-reasoning-content-modeling.md:97`.

*Context*

- The first model call of a turn is composed from the history read before the
  pass wrote its events (`context_managed.rs:48`): a skill activated in a turn and
  its tool filter are seen from the second call on, against
  `H11-context-manage.md:95` ("It writes its own events to the log, which H04 and
  H05 then read to compose the prompt") and `H04-prompt-composer.md:116`.
- The same comment says a failed read falls back to an empty history; the code
  keeps what it had read.
- `H11-context-manage.md:85` says a failed fallback write fails the turn; the
  code logs it and goes on.
- A write that fails between `SkillActivated` and `SystemPromptInjected` loses
  the skill's body: the skill counts as shown from then on.
- A sigil cut over two text blocks is not seen; `activate_skill` keeps the
  provider it was built with when an update changes the session's skills.
- The chat-completions encoder drops the system prompt (`openai_compat/encode.rs`
  never reads `input.system`) and outputs that are not strings.
- What a broken stream had said stays in later prompts.

*Front ends*

- The TUI subscribes after its replay (`event_loop.rs:37`, after
  `runtime_build.rs:141`): events in between are lost. The REPL subscribes before
  it (`chat.rs:727`), against the comment on `replay_history` ("afterwards"):
  they are shown twice.
- The busy flag of both is cleared by a bridged subagent's end; the REPL's also
  by a pause and by the end of the turn before a queued input; `TurnResumed` sets
  neither. Ctrl-C then leaves a running turn behind.
- In the TUI a second Ctrl-C during a turn cancels again and never leaves, against
  the comment at `app.rs:22`.
- A replayed call without a result is shown as done by the TUI and not at all by
  the REPL; the TUI replays no prompts of the user.
- The TUI leaves without a shutdown; the REPL drains for up to 30 seconds.
- `/skill a b` names one skill "a b" in the TUI, two in the REPL, which
  `slash.rs:2` says it mirrors.
- Ctrl-E of the TUI expands the calls of the last turn without looking their results
  up, and a look by Ctrl-Enter while the result is being written finds none and is not
  repeated: "(loading result...)" stays until the call is closed and opened again
  (`keymap.rs:266`, `app.rs:152`), against `cogito-tui/README.md:86`.
- `TurnCancelled` is handled everywhere and sent nowhere.
