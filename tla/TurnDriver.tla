----------------------------- MODULE TurnDriver -----------------------------
(***************************************************************************)
(* H01, the turn driver (cogito-core/src/harness/turn_driver), with what it *)
(* calls: H06 (stream_demux.rs), H07 (the argument check), H08              *)
(* (dispatcher.rs).  Each turn has a task of its own that runs the FSM      *)
(*                                                                         *)
(*   Init -> ContextManaged -> PromptBuilt -> ModelCalling                  *)
(*     -> ModelCompleted -> ToolDispatching -> Init                         *)
(*                                                                         *)
(* to Completed, Failed or Paused and posts the outcome to the session      *)
(* actor.  Every append to the log is a step of its own, so that a crash    *)
(* can fall between any two.  The recorder is a mutex; a step that appends  *)
(* one event takes and releases it, demux holds it for the whole stream.    *)
(***************************************************************************)
EXTENDS JobManager, EventLog

CONSTANTS
    MaxModelCalls,              \* strategy.max_turns
    MAX_CONSECUTIVE_TOOL_ERRORS,
    MaxCalls,                   \* bound: tool calls in one model response
    Checks,                     \* what the calls look like to H07
    ToolKinds,                  \* how tools answer: "sync", "async", "stray"
    StrayJobs,                  \* job ids a tool may return that no manager knows
    Faults                      \* what may go wrong around the FSM

ASSUME BudgetAssumption == MaxModelCalls \in Nat
ASSUME StreakAssumption == MAX_CONSECUTIVE_TOOL_ERRORS \in Nat \ {0}
ASSUME ChecksAssumption == Checks \subseteq {"valid", "invalid"}
ASSUME ToolKindsAssumption == ToolKinds \subseteq {"sync", "async", "stray"}
ASSUME JobIdsAssumption == JobIds \subseteq Nat \ {0} /\ StrayJobs \subseteq Nat \ {0}
ASSUME StrayAssumption == JobIds \cap StrayJobs = {}
ASSUME FaultsAssumption == Faults \subseteq {"hook", "gateway", "unsealed", "stop", "drift"}

VARIABLES
    log,        \* the persisted events
    recorder,   \* the recorder's mutex: "free", or who keeps it over several steps
    drivers,    \* turn -> its task, for the turns whose task is alive
    results     \* the outcomes posted to the session actor

turnVars == <<log, recorder, drivers, results>>

Pcs == {"Init", "ContextManaged", "PromptBuilt", "Opening", "ModelCalling", "Sealed",
        "ModelCompleted", "ToolDispatching", "Invoked", "Submitting", "Submitted",
        "Registering", "Registered", "Failing", "Completed", "Failed", "Paused"}

Outcomes == {"Completed", "Failed", "Paused"}

Call == [id : Nat, ok : BOOLEAN]

\* A task's FSM state with the part of TurnCtx that matters: the model calls
\* made and the streak of rounds without a valid call.  todo holds the tool
\* calls of the model output not yet resolved, pend the ones to dispatch, bad
\* says that a call of this round failed H07, job is the job being submitted.
Driver == [pc : Pcs, mcalls : Nat, streak : Nat, todo : Seq(Call), pend : Seq(Call),
           bad : BOOLEAN, job : Nat]

Result == [turn : Nat, outcome : Outcomes, job : Nat]

\* The shape of the log, the turn tasks and the outcome channel.
TurnTypeOK ==
    /\ log \in Seq(Event)
    /\ recorder \in {"free", "demux", "actor"}
    /\ DOMAIN drivers \subseteq Nat
    /\ drivers \in [DOMAIN drivers -> Driver]
    /\ results \in Seq(Result)

TurnInit ==
    /\ log = <<>>
    /\ recorder = "free"
    /\ drivers = [t \in {} |-> {}]
    /\ results = <<>>

-----------------------------------------------------------------------------
(* enter_turn: the task a turn is spawned with.                            *)

Task(pc, mcalls, pend) ==
    [pc |-> pc, mcalls |-> mcalls, streak |-> 0, todo |-> <<>>, pend |-> pend,
     bad |-> FALSE, job |-> None]

FreshLikeInit == Task("Init", 0, <<>>)

FromModelCompleted(mcalls) == Task("ModelCompleted", mcalls, <<>>)

\* Mutant: a resumed turn starts with a budget of its own.
FreshBudget(mcalls, pend, drift) == Task("ToolDispatching", 0, pend)

\* resolve_pending re-validates the pending calls: one that fails, or whose
\* tool changed meanwhile (schema drift), fails the turn.
FromToolDispatching(mcalls, pend, drift) ==
    IF drift \/ \E n \in DOMAIN pend : ~pend[n].ok
    THEN Task("Failing", mcalls, pend)
    ELSE Task("ToolDispatching", mcalls, pend)

Spawn(t, task) ==
    drivers' = [u \in DOMAIN drivers \cup {t} |-> IF u = t THEN task ELSE drivers[u]]

-----------------------------------------------------------------------------
(* Steps of the FSM.                                                       *)

At(t, pc) == t \in DOMAIN drivers /\ drivers[t].pc = pc

Goto(t, pc) == drivers' = [drivers EXCEPT ![t].pc = pc]

\* Append one event through the recorder, by someone who does not hold it.
Record(e) == recorder = "free" /\ log' = Append(log, e)

\* The failing transition writes TurnFailed before it returns Failed.
RecordTurnFailed(t) ==
    /\ At(t, "Failing")
    /\ Record(TurnFailed(t))
    /\ Goto(t, "Failed")
    /\ UNCHANGED <<recorder, results, jobVars>>

\* init::transit: the iteration budget is checked before anything else.
InitTransit(t) ==
    /\ At(t, "Init")
    /\ Goto(t, IF drivers[t].mcalls >= MaxModelCalls THEN "Failing" ELSE "ContextManaged")
    /\ UNCHANGED <<log, recorder, results, jobVars>>

\* context_managed::transit: every error of H11 degrades and goes on; only
\* the pre_prompt hook can stop the turn.
ContextManagedTransit(t) ==
    /\ At(t, "ContextManaged")
    /\ \/ Goto(t, "PromptBuilt")
       \/ "hook" \in Faults /\ Goto(t, "Failing")
    /\ UNCHANGED <<log, recorder, results, jobVars>>

\* prompt_built::transit, first half: ModelCallStarted and the budget move
\* together.
RecordModelCallStarted(t) ==
    /\ At(t, "PromptBuilt")
    /\ Record(ModelCallStarted(t))
    /\ drivers' = [drivers EXCEPT ![t].pc = "Opening", ![t].mcalls = @ + 1]
    /\ UNCHANGED <<recorder, results, jobVars>>

\* prompt_built::transit, second half, and model_calling::transit taking the
\* recorder for the stream.
OpenStream(t) ==
    /\ At(t, "Opening")
    /\ \/ /\ recorder = "free"
          /\ recorder' = "demux"
          /\ drivers' = [drivers EXCEPT ![t].pc = "ModelCalling", ![t].todo = <<>>]
       \/ /\ "gateway" \in Faults
          /\ Goto(t, "Failing")
          /\ UNCHANGED recorder
    /\ UNCHANGED <<log, results, jobVars>>

\* demux, ToolUseCompleted.
DemuxToolUse(t) ==
    /\ At(t, "ModelCalling")
    /\ Len(drivers[t].todo) < MaxCalls
    /\ \E check \in Checks :
        LET c == FreshCall(log) IN
        /\ log' = Append(log, ToolUse(t, c, check))
        /\ drivers' = [drivers EXCEPT ![t].todo = Append(@, [id |-> c, ok |-> check = "valid"])]
    /\ UNCHANGED <<recorder, results, jobVars>>

\* demux, MessageCompleted.  A provider reports ToolUse when it emitted tool
\* calls; nothing in demux relies on it.
DemuxMessageCompleted(t) ==
    /\ At(t, "ModelCalling")
    /\ \E stop \in StopReasons :
        /\ "stop" \in Faults \/ (stop = "ToolUse" <=> drivers[t].todo # <<>>)
        /\ log' = Append(log, ModelCallCompleted(t, stop))
    /\ Goto(t, "Sealed")
    /\ UNCHANGED <<recorder, results, jobVars>>

\* demux returns and the recorder is released: at the end of the stream, which
\* an EOF may reach unsealed, or at its first error.
DemuxEnd(t) ==
    /\ \/ /\ At(t, "Sealed") \/ (At(t, "ModelCalling") /\ "unsealed" \in Faults)
          /\ drivers' = [drivers EXCEPT ![t].pc = "ModelCompleted", ![t].bad = FALSE]
       \/ /\ At(t, "Sealed") \/ At(t, "ModelCalling")
          /\ "gateway" \in Faults
          /\ Goto(t, "Failing")
    /\ recorder' = "free"
    /\ UNCHANGED <<log, results, jobVars>>

\* model_completed::transit, the loop over the blocks: a call that fails H07
\* gets its error result at once.
Resolve(t) ==
    /\ At(t, "ModelCompleted")
    /\ drivers[t].todo # <<>>
    /\ LET c == Head(drivers[t].todo) IN
       IF c.ok
       THEN /\ drivers' = [drivers EXCEPT ![t].todo = Tail(@), ![t].pend = Append(@, c)]
            /\ UNCHANGED log
       ELSE /\ Record(ToolResult(t, c.id))
            /\ drivers' = [drivers EXCEPT ![t].todo = Tail(@), ![t].bad = TRUE]
    /\ UNCHANGED <<recorder, results, jobVars>>

\* model_completed::transit, no tool call at all: the turn is complete.
RecordTurnCompleted(t) ==
    /\ At(t, "ModelCompleted")
    /\ drivers[t].todo = <<>> /\ drivers[t].pend = <<>> /\ ~drivers[t].bad
    /\ Record(TurnCompleted(t))
    /\ Goto(t, "Completed")
    /\ UNCHANGED <<recorder, results, jobVars>>

\* model_completed::transit, end: a round without a valid call lengthens the
\* streak, and the turn fails at MAX_CONSECUTIVE_TOOL_ERRORS.
CountErrors(t) ==
    /\ At(t, "ModelCompleted")
    /\ drivers[t].todo = <<>>
    /\ drivers[t].pend # <<>> \/ drivers[t].bad
    /\ LET streak == IF drivers[t].pend = <<>> THEN drivers[t].streak + 1 ELSE 0 IN
       drivers' = [drivers EXCEPT ![t].streak = streak,
                                  ![t].pc = IF streak >= MAX_CONSECUTIVE_TOOL_ERRORS
                                            THEN "Failing" ELSE "ToolDispatching"]
    /\ UNCHANGED <<log, recorder, results, jobVars>>

\* tool_dispatching::transit, the queue is empty.
DispatchDone(t) ==
    /\ At(t, "ToolDispatching")
    /\ drivers[t].pend = <<>>
    /\ Goto(t, "Init")
    /\ UNCHANGED <<log, recorder, results, jobVars>>

\* dispatch up to the tool's answer: a result (of the tool, of its panic, or
\* of a rejecting hook), a job it is submitting, or a stray job id.
Invoke(t) ==
    /\ At(t, "ToolDispatching")
    /\ drivers[t].pend # <<>>
    /\ \/ /\ "sync" \in ToolKinds
          /\ Goto(t, "Invoked")
          /\ UNCHANGED jobVars
       \/ /\ "async" \in ToolKinds
          /\ \E j \in JobIds :
              /\ \A i \in JobIds : i < j => i \in DOMAIN jobs \/ LookupCallId(log, i) # None
              /\ LookupCallId(log, j) = None
              /\ Submit(j)
              /\ drivers' = [drivers EXCEPT ![t].pc = "Submitting", ![t].job = j]
       \/ /\ "stray" \in ToolKinds
          /\ \E j \in StrayJobs :
              drivers' = [drivers EXCEPT ![t].pc = "Submitted", ![t].job = j]
          /\ UNCHANGED jobVars
    /\ UNCHANGED <<log, recorder, results>>

\* The tool's submit returns and with it invoke: InvokeOutcome::Async.
SubmitReturns(t) ==
    /\ At(t, "Submitting")
    /\ PatchAbort(drivers[t].job)
    /\ Goto(t, "Submitted")
    /\ UNCHANGED <<log, recorder, results>>

\* dispatch: JobSubmitted is written before the sink is registered.
RecordJobSubmitted(t) ==
    /\ At(t, "Submitted")
    /\ Record(JobSubmitted(t, Head(drivers[t].pend).id, drivers[t].job))
    /\ Goto(t, "Registering")
    /\ UNCHANGED <<recorder, results, jobVars>>

\* dispatch: on_complete with the session's channel s.  The manager does not
\* know a stray job: the call ends in an error result (the cancel that goes
\* before it finds no job either).
RegisterSink(t, s) ==
    /\ At(t, "Registering")
    /\ IF Known(drivers[t].job)
       THEN OnComplete(drivers[t].job, s) /\ Goto(t, "Registered")
       ELSE UNCHANGED jobVars /\ Goto(t, "Invoked")
    /\ UNCHANGED <<log, recorder, results>>

\* on_complete returns once its own send is through; the turn pauses, and the
\* calls behind this one are dropped with the task's state.
PauseTurn(t) ==
    /\ At(t, "Registered")
    /\ \A x \in sends : x.job = drivers[t].job => x.by # "registrant"
    /\ drivers' = [drivers EXCEPT ![t].pc = "Paused", ![t].pend = <<>>]
    /\ UNCHANGED <<log, recorder, results, jobVars>>

\* tool_dispatching::transit: the result is written before the next call.
RecordToolResult(t) ==
    /\ At(t, "Invoked")
    /\ Record(ToolResult(t, Head(drivers[t].pend).id))
    /\ drivers' = [drivers EXCEPT ![t].pc = "ToolDispatching", ![t].pend = Tail(@), ![t].job = None]
    /\ UNCHANGED <<recorder, results, jobVars>>

\* The task posts its outcome and ends.  listening: the actor still holds the
\* receiver; otherwise the outcome is dropped.
PostOutcome(t, listening) ==
    /\ t \in DOMAIN drivers
    /\ drivers[t].pc \in Outcomes
    /\ results' = IF listening
                  THEN Append(results, [turn |-> t, outcome |-> drivers[t].pc, job |-> drivers[t].job])
                  ELSE results
    /\ drivers' = [u \in DOMAIN drivers \ {t} |-> drivers[u]]
    /\ UNCHANGED <<log, recorder, jobVars>>

\* A step of turn t's task, whose session listens on channel s.
DriverStep(t, s, listening) ==
    \/ RecordTurnFailed(t)
    \/ InitTransit(t)
    \/ ContextManagedTransit(t)
    \/ RecordModelCallStarted(t)
    \/ OpenStream(t)
    \/ DemuxToolUse(t)
    \/ DemuxMessageCompleted(t)
    \/ DemuxEnd(t)
    \/ Resolve(t)
    \/ RecordTurnCompleted(t)
    \/ CountErrors(t)
    \/ DispatchDone(t)
    \/ Invoke(t)
    \/ SubmitReturns(t)
    \/ RecordJobSubmitted(t)
    \/ RegisterSink(t, s)
    \/ PauseTurn(t)
    \/ RecordToolResult(t)
    \/ PostOutcome(t, listening)
=============================================================================
