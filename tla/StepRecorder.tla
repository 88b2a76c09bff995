---------------------------- MODULE StepRecorder ----------------------------
(***************************************************************************)
(* H02, the step recorder (cogito-core/src/harness/step_recorder.rs), on    *)
(* top of the JSONL store, driven the way a session drives it: opened and   *)
(* resumed by open_inner, written to by the steps of one turn after the     *)
(* other.  The turn is that of TurnDriver, with the events H11 and H06      *)
(* write kept and the tool round reduced to one synchronous call.           *)
(* Any write may fail (most callers go on) and leave a torn line; a crash   *)
(* in the middle of a write is a failed write and then a crash.             *)
(***************************************************************************)
EXTENDS Resume, JsonlStore, Compactor

CONSTANTS
    KeepFirst, KeepRecent,  \* TruncateConfig: keep_first_user, keep_recent_turns
    Kinds,                  \* the kinds of block the model streams, of BlockTypes
    Compactors,             \* the compactors a strategy may name: "truncate", "custom"
    MaxTurns,               \* bound: turns started
    MaxMessages,            \* bound: model calls made
    MaxTexts,               \* bound: the model calls that stream blocks, the first ones
    MaxFaults,              \* bound: writes that fail
    MaxCrashes              \* bound: crashes of the process

ASSUME TruncateAssumption == KeepFirst \in BOOLEAN /\ KeepRecent \in Nat
ASSUME CompactorsAssumption == Compactors \subseteq {"truncate", "custom"}

VARIABLES
    file,           \* the session's file
    seq_counter,    \* the seq of the next event
    history_cache,  \* the events this recorder wrote, older ones in front once loaded
    blocks,         \* current_text_block and current_thinking_block
    message,        \* current_message_id, None before the first model call
    pc,             \* where the session is
    turn,           \* the turn in flight
    call,           \* the tool call to dispatch
    turns,          \* turns started so far
    messages,       \* message ids minted so far
    faults,         \* writes that failed so far
    crashes         \* crashes so far

storeVars == <<file, seq_counter, history_cache, faults>>
vars == <<storeVars, blocks, message, pc, turn, call, turns, messages, crashes>>

BlockTypes == {"AssistantMessageAppended", "ThinkingBlockRecorded"}
ASSUME KindsAssumption == Kinds \subseteq BlockTypes

\* An event that carries no call and no job.
Meta(type, t) == Ev(type, t, None, None, "-")

\* pc is down, refused at the opening, idle, or in a turn and named for what is
\* next: enter, compact, inject and override (again: the fallback), decide, leave,
\* compose, prompt, the two of a stream, dispatch, complete, fail.
Streaming == {"stream", "called"}

\* What an event carries beyond Event: the range of a ContextCompacted; the
\* message of a text or thinking block and the messages its chunks came with.
Data(lo, hi, msg, chunks) == [lo |-> lo, hi |-> hi, msg |-> msg, chunks |-> chunks]
NoData == Data(0, 0, None, {})

\* The envelope.
Body(ev, data) == [seq |-> seq_counter, ev |-> ev, data |-> data]

\* TextBlockBuf, ThinkingBlockBuf: opened in a turn and a message.
NoBlock == [open |-> FALSE, turn |-> None, msg |-> None, chunks |-> {}]

Init ==
    /\ file = <<>>
    /\ seq_counter = 0 /\ history_cache = <<>>
    /\ blocks = [k \in Kinds |-> NoBlock]
    /\ message = None /\ turn = None /\ call = None
    /\ pc = "down"
    /\ turns = 0 /\ messages = 0 /\ faults = 0 /\ crashes = 0

-----------------------------------------------------------------------------
(* The recorder.                                                           *)

\* Mutant: the counter is advanced before the store has the event.
WriteAdvancesFirst(ev, data, cache, how) ==
    /\ file' = IF how = "ok" THEN Appended(file, Body(ev, data)) ELSE Torn(file, Body(ev, data), how)
    /\ seq_counter' = seq_counter + 1
    /\ history_cache' = IF how = "ok" THEN Append(cache, Body(ev, data)) ELSE cache
    /\ how = "ok" \/ faults < MaxFaults
    /\ faults' = IF how = "ok" THEN faults ELSE faults + 1

\* append: the store first; the counter and the cache only once it is Ok.
\* cache is the history cache the caller has by then.
Write(ev, data, cache, how) ==
    \/ /\ how = "ok"
       /\ file' = Appended(file, Body(ev, data))
       /\ seq_counter' = seq_counter + 1
       /\ history_cache' = Append(cache, Body(ev, data))
       /\ UNCHANGED faults
    \/ /\ how \in Tears
       /\ faults < MaxFaults
       /\ file' = Torn(file, Body(ev, data), how)
       /\ faults' = faults + 1
       /\ history_cache' = cache
       /\ UNCHANGED seq_counter

Hows == {"ok"} \cup Tears

\* ensure_prior_history_loaded: what is missing in front of the cache is read
\* from the store, without the event of seq 0.
Missing == seq_counter - Len(history_cache)
LoadFails == Missing # 0 /\ ~Readable(file)

\* Mutant: nothing is loaded.
LoadedNothing == history_cache

\* Mutant: events the cache holds already are loaded again.
LoadedTwice == IF Missing = 0 THEN history_cache ELSE ReplayFrom(file, 0) \o history_cache

Loaded ==
    LET stored == ReplayFrom(file, 0)
    IN  IF Missing = 0 THEN history_cache
        ELSE Picked(stored, {i \in DOMAIN stored : stored[i].seq < Missing}) \o history_cache

\* record_system_prompt_injected, record_tool_filter_overridden: at most once
\* per turn, looked up in the loaded cache.
RecordOnce(type) ==
    LET cache == Loaded
    IN  IF LoadFails THEN UNCHANGED storeVars
        ELSE IF \E i \in DOMAIN cache : cache[i].ev = Meta(type, turn)
        THEN /\ history_cache' = cache
             /\ UNCHANGED <<file, seq_counter, faults>>
        ELSE \E how \in Hows : Write(Meta(type, turn), NoData, cache, how)

\* The five invariants of record_context_compacted.
Accepts(cache, lo, hi) ==
    /\ hi < seq_counter
    /\ lo <= hi
    /\ \E i \in DOMAIN cache : cache[i].seq = lo /\ IsType(cache[i], {"TurnStarted"})
    /\ \A i \in DOMAIN cache :
        (cache[i].seq > hi /\ \A k \in 1..(i - 1) : cache[k].seq <= hi)
            => IsType(cache[i], {"TurnStarted", "ContextManageEntered"})
    /\ ~CompactedFor(cache, turn)

RecordContextCompacted(cache, lo, hi) ==
    IF LoadFails THEN UNCHANGED storeVars
    ELSE IF ~Accepts(cache, lo, hi)
    THEN /\ history_cache' = cache
         /\ UNCHANGED <<file, seq_counter, faults>>
    ELSE \E how \in Hows :
            Write(Meta("ContextCompacted", turn), Data(lo, hi, None, {}), cache, how)

-----------------------------------------------------------------------------
(* Opening and crashing.                                                   *)

\* open_inner refuses a file that latest_seq or replay cannot read.
OpenFails ==
    /\ pc = "down"
    /\ LatestFails(file) \/ ~Readable(file)
    /\ pc' = "refused"
    /\ UNCHANGED <<storeVars, blocks, message, turn, call, turns, messages, crashes>>

\* open_inner of a new session: SessionStarted is written, or lost.
OpenNew ==
    /\ pc = "down"
    /\ file = <<>>
    /\ \E how \in Hows : Write(Meta("SessionStarted", None), NoData, history_cache, how)
    /\ pc' = "idle"
    /\ UNCHANGED <<blocks, message, turn, call, turns, messages, crashes>>

\* open_inner of a session the store has, and the turn H03 resumes.
OpenExisting ==
    /\ pc = "down"
    /\ file # <<>> /\ Readable(file)
    /\ seq_counter' = LatestSeq(file) + 1
    /\ LET prior == ReplayFrom(file, 0)
           d     == Replay([i \in DOMAIN prior |-> prior[i].ev])
       IN  \/ /\ d.point = "Malformed"
              /\ pc' = "refused"
              /\ UNCHANGED <<turn, call>>
           \/ /\ d.point \in {"FreshTurn", "RestartCurrentTurn"}
              /\ pc' = "idle"
              /\ UNCHANGED <<turn, call>>
           \/ /\ d.point = "ResumeFromModelCompleted"
              /\ pc' = "complete"
              /\ turn' = d.turn
              /\ UNCHANGED call
           \/ /\ d.point = "ResumeFromToolDispatching"
              /\ pc' = IF d.pending = <<>> THEN "enter" ELSE "dispatch"
              /\ turn' = d.turn
              /\ call' = IF d.pending = <<>> THEN None ELSE d.pending[1].id
    /\ UNCHANGED <<file, history_cache, faults, blocks, message, turns, messages, crashes>>

\* The process dies, and the recorder with it.
Crash ==
    /\ pc \notin {"down", "refused"}
    /\ crashes < MaxCrashes
    /\ crashes' = crashes + 1
    /\ seq_counter' = 0 /\ history_cache' = <<>>
    /\ blocks' = [k \in Kinds |-> NoBlock]
    /\ message' = None /\ turn' = None /\ call' = None
    /\ pc' = "down"
    /\ UNCHANGED <<file, faults, turns, messages>>

-----------------------------------------------------------------------------
(* The steps of a turn.                                                    *)

\* try_start_turn: no turn without its TurnStarted.
StartTurn ==
    /\ pc = "idle"
    /\ turns < MaxTurns
    /\ turns' = turns + 1
    /\ \E how \in Hows :
        /\ Write(TurnStarted(turns', turns'), NoData, history_cache, how)
        /\ IF how = "ok" THEN pc' = "enter" /\ turn' = turns' ELSE UNCHANGED <<pc, turn>>
    /\ UNCHANGED <<blocks, message, call, messages, crashes>>

\* The events that are written and their failure ignored: the event of each
\* pc and the pc after it.
Plain == [enter    |-> <<Meta("ContextManageEntered", turn), "compact">>,
          decide   |-> <<Meta("ContextDecisionRecorded", turn), "leave">>,
          leave    |-> <<Meta("ContextManageCompleted", turn), "compose">>,
          compose  |-> <<Meta("PromptComposed", turn), "prompt">>,
          dispatch |-> <<ToolResult(turn, call), "enter">>,
          complete |-> <<TurnCompleted(turn), "idle">>,
          fail     |-> <<TurnFailed(turn), "idle">>]

RecordPlain ==
    /\ pc \in DOMAIN Plain
    /\ \E how \in Hows : Write(Plain[pc][1], NoData, history_cache, how)
    /\ pc' = Plain[pc][2]
    /\ UNCHANGED <<blocks, message, turn, call, turns, messages, crashes>>

\* context_managed, step 1.  An estimate under the threshold, or a compactor
\* that proposes nothing, leaves the log alone; a custom compactor may propose
\* anything, here a range of one event or two, one that reaches the end of the
\* log or beyond it, or an inverted one.  (UpdateSession may change the
\* strategy between two turns.)
History == ReplayFrom(file, 0)

Proposals ==
    (IF "truncate" \in Compactors THEN TruncateRange(History, turn, KeepFirst, KeepRecent) ELSE {})
        \cup (IF "custom" \in Compactors
               THEN {<<1, 0>>} \cup UNION {{<<lo, hi>> : hi \in {lo, lo + 1, seq_counter - 1, seq_counter}} :
                                          lo \in 0..seq_counter}
               ELSE {})

Compact ==
    /\ pc = "compact"
    /\ \/ UNCHANGED storeVars
       \/ LET cache == Loaded
          IN  \E r \in Proposals : RecordContextCompacted(cache, r[1], r[2])
    /\ pc' = "inject"
    /\ UNCHANGED <<blocks, message, turn, call, turns, messages, crashes>>

\* context_managed, steps 2 and 3: a record, and a fallback that asks for it
\* once more if it failed.
Attempt(type, done, fallback) ==
    /\ RecordOnce(type)
    /\ pc' = IF LoadFails \/ faults' # faults THEN fallback ELSE done

Inject ==
    /\ \/ pc = "inject" /\ Attempt("SystemPromptInjected", "override", "inject_again")
       \/ pc = "inject_again" /\ Attempt("SystemPromptInjected", "override", "override")
       \/ pc = "override" /\ Attempt("ToolFilterOverridden", "decide", "override_again")
       \/ pc = "override_again" /\ Attempt("ToolFilterOverridden", "decide", "decide")
    /\ UNCHANGED <<blocks, message, turn, call, turns, messages, crashes>>

\* record_model_call_started mints the message before it writes.  (A gateway
\* that refuses the stream is one whose stream errs at once.)
CallModel ==
    /\ pc = "prompt"
    /\ messages < MaxMessages
    /\ messages' = messages + 1
    /\ message' = messages + 1
    /\ \E how \in Hows : Write(ModelCallStarted(turn), NoData, history_cache, how)
    /\ pc' = "stream"
    /\ UNCHANGED <<blocks, turn, call, turns, crashes>>

\* Bound: one block of each kind per model call.
Written(k) == \E i \in DOMAIN file : file[i].body.ev.type = k /\ message \in file[i].body.data.chunks

\* on_text_delta, on_thinking_delta: the block is opened by its first chunk.
Delta(k) ==
    /\ pc \in Streaming
    /\ message <= MaxTexts /\ ~Written(k)
    /\ blocks' = [blocks EXCEPT ![k] =
                     IF @.open THEN [@ EXCEPT !.chunks = @ \cup {message}]
                     ELSE [open |-> TRUE, turn |-> turn, msg |-> message, chunks |-> {message}]]
    /\ UNCHANGED <<storeVars, message, pc, turn, call, turns, messages, crashes>>

\* on_text_block_complete, on_thinking_block_complete: the block is taken and
\* written under the turn and message it was opened in.  A failed write ends
\* demux.
BlockComplete(k) ==
    /\ pc \in Streaming
    /\ blocks[k].open
    /\ blocks' = [blocks EXCEPT ![k] = NoBlock]
    /\ \E how \in Hows :
        /\ Write(Meta(k, blocks[k].turn), Data(0, 0, blocks[k].msg, blocks[k].chunks), history_cache, how)
        /\ pc' = IF how = "ok" THEN pc ELSE "fail"
    /\ UNCHANGED <<message, turn, call, turns, messages, crashes>>

\* demux, ToolUseCompleted.
RecordToolUse ==
    /\ pc = "stream"
    /\ call' = message
    /\ \E how \in Hows :
        /\ Write(ToolUse(turn, call', "valid"), NoData, history_cache, how)
        /\ pc' = IF how = "ok" THEN "called" ELSE "fail"
    /\ UNCHANGED <<blocks, message, turn, turns, messages, crashes>>

\* demux, MessageCompleted; what the model said decides what comes next.  (A
\* stream that ends without it is in TurnDriver.)
Seal ==
    /\ pc \in Streaming
    /\ \E how \in Hows :
        /\ Write(ModelCallCompleted(turn, IF pc = "called" THEN "ToolUse" ELSE "EndTurn"),
                 NoData, history_cache, how)
        /\ pc' = IF how # "ok" THEN "fail" ELSE IF pc = "called" THEN "dispatch" ELSE "complete"
    /\ UNCHANGED <<blocks, message, turn, call, turns, messages, crashes>>

\* demux returns at the first error of the stream; the blocks stay as they are.
StreamError ==
    /\ pc \in Streaming
    /\ pc' = "fail"
    /\ UNCHANGED <<storeVars, blocks, message, turn, call, turns, messages, crashes>>

Next ==
    \/ OpenFails \/ OpenNew \/ OpenExisting \/ Crash
    \/ StartTurn \/ RecordPlain \/ Compact \/ Inject \/ CallModel
    \/ \E k \in Kinds : Delta(k) \/ BlockComplete(k)
    \/ RecordToolUse \/ Seal \/ StreamError

Spec == Init /\ [][Next]_vars

-----------------------------------------------------------------------------
(* Properties.                                                             *)

\* Lines are in strict ascending seq order, and a file that can be read has no
\* gap and no duplicate, over failed writes, crashes and reopenings
\* (docs/data-model/jsonl-v1.md).
SeqsAscend ==
    /\ \A i \in DOMAIN file : \A k \in (i + 1)..Len(file) :
        file[i].ok /\ file[k].ok => file[i].body.seq < file[k].body.seq
    /\ Readable(file) => \A i \in DOMAIN file : file[i].body.seq = i - 1

\* H11's events are in the log at most once per turn, though every round of a
\* turn asks for them again and a resumed turn does so with an empty cache.
OncePerTurn ==
    LET once == {i \in DOMAIN file :
                    file[i].ok /\ IsType(file[i].body, {"SystemPromptInjected", "ToolFilterOverridden",
                                                        "ContextCompacted"})}
    IN  \A i, k \in once : file[i].body.ev = file[k].body.ev => i = k

\* The cache is the end of the file, or all of it but the first line: neither
\* a failed write nor a lazy load makes it differ, and the count of missing
\* events never goes below zero (an unsigned subtraction in the code).
CacheFaithful ==
    /\ Missing >= 0
    /\ pc # "down" /\ Readable(file) /\ ~Dangling(file) =>
        LET n == Len(history_cache) IN
        /\ n <= Len(file)
        /\ \A i \in 1..n : history_cache[i] = file[Len(file) - n + i].body

\* What TruncateCompactor proposes the recorder accepts, and it never covers
\* the turns it is told to keep: the two agree on where turns begin and end,
\* on any log a session can leave behind.
TruncateAccepted ==
    pc = "compact" /\ ~LoadFails /\ Readable(file) =>
        \A r \in TruncateRange(History, turn, KeepFirst, KeepRecent) :
            /\ Accepts(Loaded, r[1], r[2])
            /\ LET starts == TurnStarts(History) IN
               \A n \in DOMAIN starts :
                   (n = 1 /\ KeepFirst) \/ n > Len(starts) - KeepRecent
                       => starts[n].seq \notin r[1]..r[2]

\* An append that returned Ok is in the file, as a line that can be read; a
\* write that was cut costs the one event that runs into it and no other.
AckedKept ==
    Cardinality({i \in DOMAIN history_cache :
        \A k \in DOMAIN file : file[k].body = history_cache[i] => ~file[k].ok}) <= faults
=============================================================================
