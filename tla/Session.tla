------------------------------- MODULE Session ------------------------------
(***************************************************************************)
(* A session (cogito-core/src/runtime/session_loop.rs, handle.rs): an actor *)
(* that owns the in-flight turn, its clients, the turn tasks it spawns, and *)
(* the job manager.  The actor is one task: a handler runs to its end       *)
(* before the next, but turn tasks, job tasks and clients run beside it.    *)
(* The process may crash at any step; the log is what survives.  A session  *)
(* that exited or crashed may be opened again, with a new channel (the       *)
(* incarnation); opening it while a task of the old actor still runs is the *)
(* registry's business and not modelled here.                               *)
(***************************************************************************)
EXTENDS TurnDriver, Resume

CONSTANTS
    MailboxCap,     \* capacity of the mailbox (64 in builder.rs)
    MaxInputs,      \* bound: triggers the clients submit
    MaxCancels,     \* bound: calls of cancel_turn
    MaxShutdowns,   \* bound: calls of shutdown
    MaxCrashes,     \* bound: crashes of the process
    FastJobs        \* may a job end before the actor has parked its turn?

\* Channels are numbered by incarnation; 0 is none, so NoSink must be 0.
ASSUME IncarnationsAssumption == Sinks = 1..(1 + MaxShutdowns + MaxCrashes) /\ NoSink = 0
ASSUME MailboxAssumption == MailboxCap \in Nat \ {0}

VARIABLES
    mode,           \* what the actor is doing
    inFlight,       \* state.in_flight
    pendingInput,   \* state.pending_user_input, 0 if empty
    mailbox,        \* the commands sent to the actor
    held,           \* the input or job the waiting handler has in hand
    incarnation,    \* the current actor's channel
    asking,         \* cancel_turn, as far as it got
    inputs,         \* the triggers submitted so far, numbered from 1
    cancels,        \* calls of cancel_turn so far
    shutdowns,      \* calls of shutdown so far
    crashes,        \* crashes so far
    abandoned,      \* history: the turns RestartCurrentTurn gave up
    forgotten       \* history: the inputs up to this one died with a process or an actor

actorVars == <<mode, inFlight, pendingInput, mailbox, held, incarnation>>
clientVars == <<asking, inputs, cancels, shutdowns>>
historyVars == <<crashes, abandoned, forgotten>>
sessionVars == <<actorVars, clientVars, historyVars>>
vars == <<jobVars, turnVars, sessionVars>>

\* running: in the select loop.  The next five are handlers that wait: starting
\* a turn and completing a job for the recorder, recording between the two
\* appends of a completion, cancelling for the manager's send, forwarding for
\* room in the mailbox.  draining: in drain_shutdown.
Handling == {"starting", "completing", "recording", "cancelling", "forwarding"}
Alive == {"running", "draining"} \cup Handling
Modes == {"down", "exited", "failed"} \cup Alive

NoTurn == [kind |-> "None", turn |-> None, job |-> None, call |-> None]
Active(t) == [kind |-> "Active", turn |-> t, job |-> None, call |-> None]
PausedOnJob(t, j, c) == [kind |-> "Paused", turn |-> t, job |-> j, call |-> c]

InFlight == [kind : {"None", "Active", "Paused"}, turn : Nat, job : Nat, call : Nat]

has_active_turn == inFlight.kind = "Active"
is_paused == inFlight.kind = "Paused"

\* n is the input of a Trigger, the job of a JobCompleted or a CancelJob.
Command == [cmd : {"Trigger", "JobCompleted", "InternalCancel", "Snapshot", "CancelJob", "Shutdown"},
            n : Nat]
Cmd(c, n) == [cmd |-> c, n |-> n]

\* The steps of cancel_turn: nothing under way, waiting for the ack, about to
\* ask for the paused job, waiting for the answer, about to cancel the job.
Asking == [step : {"idle", "acking", "acked", "snapping", "found"}, job : Nat]
Idle == [step |-> "idle", job |-> None]

\* The shape of the session, its channels and its clients; the bounded channels
\* keep to their capacity.
SessionTypeOK ==
    /\ JobTypeOK
    /\ TurnTypeOK
    /\ mode \in Modes
    /\ inFlight \in InFlight
    /\ pendingInput \in Nat
    /\ mailbox \in Seq(Command) /\ Len(mailbox) <= MailboxCap
    /\ held \in Nat
    /\ incarnation \in Sinks \cup {0}
    /\ asking \in Asking
    /\ inputs \in Nat /\ cancels \in Nat /\ shutdowns \in Nat /\ crashes \in Nat
    /\ abandoned \subseteq Nat
    /\ forgotten \in Nat

Init ==
    /\ JobInit
    /\ TurnInit
    /\ mode = "down"
    /\ inFlight = NoTurn
    /\ pendingInput = None
    /\ mailbox = <<>>
    /\ held = None
    /\ incarnation = 0
    /\ asking = Idle
    /\ inputs = 0 /\ cancels = 0 /\ shutdowns = 0 /\ crashes = 0
    /\ abandoned = {}
    /\ forgotten = 0

-----------------------------------------------------------------------------
(* Startup: run_session up to the loop, apply_resume_point.                *)

\* A new actor takes the session up.
NewActor ==
    /\ mode = "down" \/ (mode = "exited" /\ DOMAIN drivers = {})
    /\ incarnation + 1 \in Sinks
    /\ incarnation' = incarnation + 1

\* FreshTurn: nothing to do.  RestartCurrentTurn is downgraded to it.
StartIdle ==
    /\ NewActor
    /\ Replay(log).point \in {"FreshTurn", "RestartCurrentTurn"}
    /\ abandoned' = IF Replay(log).point = "RestartCurrentTurn"
                    THEN abandoned \cup {Replay(log).turn} ELSE abandoned
    /\ mode' = "running"
    /\ UNCHANGED <<jobVars, turnVars, inFlight, pendingInput, mailbox, held, clientVars,
                   crashes, forgotten>>

\* Malformed, or a pause without its JobSubmitted: the actor does not start.
StartFails ==
    /\ NewActor
    /\ \/ Replay(log).point = "Malformed"
       \/ Replay(log).point = "ResumePausedJob" /\ Replay(log).call = None
    /\ mode' = "failed"
    /\ UNCHANGED <<jobVars, turnVars, inFlight, pendingInput, mailbox, held, clientVars, historyVars>>

\* The two points that put a turn's task back to work on what the log holds.
StartTurn ==
    /\ NewActor
    /\ LET d == Replay(log) IN
       /\ \/ /\ d.point = "ResumeFromModelCompleted"
             /\ Spawn(d.turn, FromModelCompleted(CountModelCalls(log, d.turn)))
          \/ /\ d.point = "ResumeFromToolDispatching"
             /\ \E drift \in {FALSE} \cup {x \in {TRUE} : "drift" \in Faults /\ d.pending # <<>>} :
                  Spawn(d.turn, FromToolDispatching(CountModelCalls(log, d.turn), d.pending, drift))
       /\ inFlight' = Active(d.turn)
    /\ mode' = "running"
    /\ UNCHANGED <<jobVars, log, recorder, results, pendingInput, mailbox, held, clientVars, historyVars>>

\* Mutant: a job the manager does not know is waited for all the same.
StartPausedForgets ==
    /\ NewActor
    /\ LET d == Replay(log) IN
       /\ d.point = "ResumePausedJob" /\ d.call # None
       /\ inFlight' = PausedOnJob(d.turn, d.job, d.call)
       /\ IF Known(d.job) THEN OnComplete(d.job, incarnation') ELSE UNCHANGED jobVars
    /\ mode' = "running"
    /\ UNCHANGED <<turnVars, pendingInput, mailbox, held, clientVars, historyVars>>

\* ResumePausedJob: wait for the job if the manager knows it, else post the
\* failure a lost job stands for on the session's own channel.
StartPaused ==
    /\ NewActor
    /\ LET d == Replay(log) IN
       /\ d.point = "ResumePausedJob" /\ d.call # None
       /\ inFlight' = PausedOnJob(d.turn, d.job, d.call)
       /\ IF Known(d.job)
          THEN OnComplete(d.job, incarnation')
          ELSE /\ sinkQ' = [sinkQ EXCEPT ![incarnation'] =
                               Append(@, [job |-> d.job, outcome |-> "Failed"])]
               /\ UNCHANGED <<jobs, submitting, workers, aborted, sends, closed,
                              registered, replaced, delivered>>
    /\ mode' = "running"
    /\ UNCHANGED <<turnVars, pendingInput, mailbox, held, clientVars, historyVars>>

\* Mutant: the result is written again whether or not the log has it.
StartAfterJobAgain ==
    /\ NewActor
    /\ LET d == Replay(log) IN
       /\ d.point = "ResumeAfterJobCompletion"
       /\ Record(ToolResult(d.turn, d.call))
       /\ Spawn(d.turn, FromToolDispatching(CountModelCalls(log, d.turn), <<>>, FALSE))
       /\ inFlight' = Active(d.turn)
    /\ mode' = "running"
    /\ UNCHANGED <<jobVars, recorder, results, pendingInput, mailbox, held, clientVars, historyVars>>

\* ResumeAfterJobCompletion: the result is written unless it already is.
StartAfterJob ==
    /\ NewActor
    /\ LET d == Replay(log) IN
       /\ d.point = "ResumeAfterJobCompletion"
       /\ IF d.call \in Answered(log) THEN UNCHANGED log ELSE Record(ToolResult(d.turn, d.call))
       /\ Spawn(d.turn, FromToolDispatching(CountModelCalls(log, d.turn), <<>>, FALSE))
       /\ inFlight' = Active(d.turn)
    /\ mode' = "running"
    /\ UNCHANGED <<jobVars, recorder, results, pendingInput, mailbox, held, clientVars, historyVars>>

Start == StartIdle \/ StartFails \/ StartTurn \/ StartPaused \/ StartAfterJob

-----------------------------------------------------------------------------
(* Clients: SessionHandle.                                                 *)

\* Mutant: the mailbox is not bounded.
PostUnbounded(c) ==
    /\ mode \in Alive
    /\ mailbox' = Append(mailbox, c)

\* A send waits for room; once the actor is gone it errs, which changes nothing.
Post(c) ==
    /\ mode \in Alive
    /\ Len(mailbox) < MailboxCap
    /\ mailbox' = Append(mailbox, c)

ClientSubmit ==
    /\ inputs < MaxInputs
    /\ Post(Cmd("Trigger", inputs + 1))
    /\ inputs' = inputs + 1
    /\ UNCHANGED <<jobVars, turnVars, mode, inFlight, pendingInput, held, incarnation,
                   asking, cancels, shutdowns, historyVars>>

\* cancel_turn: InternalCancel and its ack, then SnapshotInFlight and its
\* answer, then CancelJob for the job found.  (The cancel token it fires
\* first is read by tools only.)
ClientCancel ==
    /\ \/ /\ asking.step = "idle" /\ cancels < MaxCancels
          /\ Post(Cmd("InternalCancel", 0))
          /\ asking' = [step |-> "acking", job |-> None]
          /\ cancels' = cancels + 1
       \/ /\ asking.step = "acked"
          /\ Post(Cmd("Snapshot", 0))
          /\ asking' = [step |-> "snapping", job |-> None]
          /\ UNCHANGED cancels
       \/ /\ asking.step = "found"
          /\ Post(Cmd("CancelJob", asking.job))
          /\ asking' = Idle
          /\ UNCHANGED cancels
    /\ UNCHANGED <<jobVars, turnVars, mode, inFlight, pendingInput, held, incarnation,
                   inputs, shutdowns, historyVars>>

ClientShutdown ==
    /\ shutdowns < MaxShutdowns
    /\ Post(Cmd("Shutdown", 0))
    /\ shutdowns' = shutdowns + 1
    /\ UNCHANGED <<jobVars, turnVars, mode, inFlight, pendingInput, held, incarnation,
                   asking, inputs, cancels, historyVars>>

-----------------------------------------------------------------------------
(* The actor's loop.                                                       *)

\* Arm 2 is taken when no outcome waits, arm 3 when the mailbox is empty too.
Arm2 == mode = "running" /\ results = <<>> /\ mailbox # <<>>
Arm3 == mode = "running" /\ results = <<>> /\ mailbox = <<>>

Take(c) == Arm2 /\ Head(mailbox).cmd = c /\ mailbox' = Tail(mailbox)

\* try_start_turn: no turn is active; TurnStarted is written, then the task
\* is spawned.
TryStartTurn(n, base) ==
    LET t == FreshTurn(log) IN
    /\ recorder = "free"
    /\ log' = Append(base, TurnStarted(t, n))
    /\ Spawn(t, FreshLikeInit)
    /\ inFlight' = Active(t)

\* Mutant: a paused turn is not a reason to hold the input back.
HandleTriggerWhilePaused ==
    /\ Take("Trigger")
    /\ IF has_active_turn
       THEN /\ pendingInput' = Head(mailbox).n
            /\ UNCHANGED <<mode, held>>
       ELSE /\ mode' = "starting"
            /\ held' = Head(mailbox).n
            /\ UNCHANGED pendingInput
    /\ UNCHANGED <<jobVars, turnVars, inFlight, incarnation, clientVars, historyVars>>

\* Mutant: an input that arrives during a turn is dropped.
HandleTriggerDrops ==
    /\ Take("Trigger")
    /\ IF has_active_turn \/ is_paused
       THEN UNCHANGED <<mode, held>>
       ELSE /\ mode' = "starting"
            /\ held' = Head(mailbox).n
    /\ UNCHANGED <<jobVars, turnVars, inFlight, pendingInput, incarnation, clientVars, historyVars>>

\* Trigger: started, or held in the one slot, over what is there.
HandleTrigger ==
    /\ Take("Trigger")
    /\ IF has_active_turn \/ is_paused
       THEN /\ pendingInput' = Head(mailbox).n
            /\ UNCHANGED <<mode, held>>
       ELSE /\ mode' = "starting"
            /\ held' = Head(mailbox).n
            /\ UNCHANGED pendingInput
    /\ UNCHANGED <<jobVars, turnVars, inFlight, incarnation, clientVars, historyVars>>

StartHeldInput ==
    /\ mode = "starting"
    /\ TryStartTurn(held, log)
    /\ held' = None
    /\ mode' = "running"
    /\ UNCHANGED <<jobVars, recorder, results, pendingInput, mailbox, incarnation, clientVars, historyVars>>

\* JobCompleted when the turn is not paused on that job: the event is dropped.
\* in_flight was taken out before the test and is put back only if the
\* session is paused.
HandleStrayCompletion ==
    /\ Take("JobCompleted")
    /\ ~is_paused \/ inFlight.job # Head(mailbox).n
    /\ inFlight' = IF is_paused THEN inFlight ELSE NoTurn
    /\ UNCHANGED <<jobVars, turnVars, mode, pendingInput, held, incarnation, clientVars, historyVars>>

\* JobCompleted for the job the turn is paused on ...
HandleJobCompleted ==
    /\ Take("JobCompleted")
    /\ is_paused /\ inFlight.job = Head(mailbox).n
    /\ mode' = "completing"
    /\ UNCHANGED <<jobVars, turnVars, inFlight, pendingInput, held, incarnation,
                   clientVars, historyVars>>

\* ... JobCompletedRecorded, with the recorder kept for the result ...
RecordJobCompleted ==
    /\ mode = "completing"
    /\ Record(JobCompletedRecorded(inFlight.turn, inFlight.job))
    /\ recorder' = "actor"
    /\ mode' = "recording"
    /\ UNCHANGED <<jobVars, drivers, results, inFlight, pendingInput, mailbox, held,
                   incarnation, clientVars, historyVars>>

\* ... then the result, and the turn's task is spawned with nothing pending
\* and the model calls counted in the log.
FinishJobCompleted ==
    /\ mode = "recording"
    /\ log' = Append(log, ToolResult(inFlight.turn, inFlight.call))
    /\ recorder' = "free"
    /\ Spawn(inFlight.turn,
             FromToolDispatching(CountModelCalls(log, inFlight.turn), <<>>, FALSE))
    /\ inFlight' = Active(inFlight.turn)
    /\ mode' = "running"
    /\ UNCHANGED <<jobVars, results, pendingInput, mailbox, held, incarnation, clientVars, historyVars>>

\* InternalCancel and SnapshotInFlight answer the client; cancel_turn goes on
\* only if a paused job was found.
HandleProbe ==
    /\ \/ /\ Take("InternalCancel")
          /\ asking' = [step |-> "acked", job |-> None]
       \/ /\ Take("Snapshot")
          /\ asking' = IF is_paused THEN [step |-> "found", job |-> inFlight.job] ELSE Idle
    /\ UNCHANGED <<jobVars, turnVars, mode, inFlight, pendingInput, held, incarnation,
                   inputs, cancels, shutdowns, historyVars>>

\* CancelJob: a job the manager does not know is only warned about.
HandleCancelJob ==
    /\ Take("CancelJob")
    /\ IF Known(Head(mailbox).n) THEN Cancel(Head(mailbox).n) ELSE UNCHANGED jobVars
    /\ mode' = "cancelling"
    /\ UNCHANGED <<turnVars, inFlight, pendingInput, held, incarnation, clientVars, historyVars>>

\* cancel returns once its own send, to this actor's channel, is through.
CancelReturns ==
    /\ mode = "cancelling"
    /\ \A x \in sends : x.by # "canceller"
    /\ mode' = "running"
    /\ UNCHANGED <<jobVars, turnVars, inFlight, pendingInput, mailbox, held, incarnation,
                   clientVars, historyVars>>

HandleShutdown ==
    /\ Take("Shutdown")
    /\ mode' = "draining"
    /\ UNCHANGED <<jobVars, turnVars, inFlight, pendingInput, held, incarnation, clientVars, historyVars>>

\* Arm 3: a completion is taken off the channel ...
TakeCompletion ==
    /\ Arm3
    /\ sinkQ[incarnation] # <<>>
    /\ held' = Head(sinkQ[incarnation]).job
    /\ Receive(incarnation)
    /\ mode' = "forwarding"
    /\ UNCHANGED <<turnVars, inFlight, pendingInput, mailbox, incarnation, clientVars, historyVars>>

\* Mutant: the completion is dropped instead of forwarded.
DropCompletion ==
    /\ mode = "forwarding"
    /\ held' = None
    /\ mode' = "running"
    /\ UNCHANGED <<jobVars, turnVars, inFlight, pendingInput, mailbox, incarnation, clientVars,
                   historyVars>>

\* ... and sent to the actor's own mailbox, which waits for room.
ForwardCompletion ==
    /\ mode = "forwarding"
    /\ Len(mailbox) < MailboxCap
    /\ mailbox' = Append(mailbox, Cmd("JobCompleted", held))
    /\ held' = None
    /\ mode' = "running"
    /\ UNCHANGED <<jobVars, turnVars, inFlight, pendingInput, incarnation, clientVars, historyVars>>

\* Mutant: a failed turn's TurnFailed is written a second time.
OnTurnCompleteRecordsAgain(r) ==
    LET call  == LookupCallId(log, r.job)
        parks == r.outcome = "Paused" /\ call # None
    IN  /\ recorder = "free"
        /\ log' = IF parks THEN Append(log, TurnPaused(r.turn, r.job))
                  ELSE Append(log, TurnFailed(r.turn))
        /\ inFlight' = IF parks THEN PausedOnJob(r.turn, r.job, call) ELSE NoTurn
        /\ UNCHANGED <<drivers, pendingInput>>

\* Mutant: the held input is not started when the turn ends.
OnTurnCompleteNoDrain(r) ==
    LET call  == LookupCallId(log, r.job)
        parks == r.outcome = "Paused" /\ call # None
    IN  /\ recorder = "free"
        /\ log' = IF parks THEN Append(log, TurnPaused(r.turn, r.job)) ELSE log
        /\ inFlight' = IF parks THEN PausedOnJob(r.turn, r.job, call) ELSE NoTurn
        /\ UNCHANGED <<drivers, pendingInput>>

\* on_turn_complete for the outcome r.  Completed and Failed are in the log
\* already.  A pause is parked and written; one whose JobSubmitted cannot be
\* found fails the turn.  With no turn in flight the held input is started.
OnTurnComplete(r) ==
    LET call  == LookupCallId(log, r.job)
        parks == r.outcome = "Paused" /\ call # None
        base  == IF parks THEN Append(log, TurnPaused(r.turn, r.job))
                 ELSE IF r.outcome = "Paused" THEN Append(log, TurnFailed(r.turn))
                 ELSE log
    IN  /\ recorder = "free"
        /\ IF parks
           THEN /\ inFlight' = PausedOnJob(r.turn, r.job, call)
                /\ log' = base
                /\ UNCHANGED <<drivers, pendingInput>>
           ELSE IF pendingInput = None
           THEN /\ inFlight' = NoTurn
                /\ log' = base
                /\ UNCHANGED <<drivers, pendingInput>>
           ELSE /\ TryStartTurn(pendingInput, base)
                /\ pendingInput' = None

\* Arm 1, and the same in drain_shutdown while a turn is active.
TakeOutcome ==
    /\ mode = "running" \/ (mode = "draining" /\ has_active_turn)
    /\ results # <<>>
    /\ results' = Tail(results)
    /\ OnTurnComplete(Head(results))
    /\ UNCHANGED <<jobVars, recorder, mode, mailbox, held, incarnation, clientVars, historyVars>>

\* drain_shutdown ends when no turn is active or at its deadline.  The actor
\* drops its channels and what is in them; a client waiting for an answer
\* gets none.
Exit ==
    /\ mode = "draining"
    /\ CloseSink(incarnation)
    /\ mode' = "exited"
    /\ inFlight' = NoTurn
    /\ pendingInput' = None
    /\ mailbox' = <<>>
    /\ results' = <<>>
    /\ asking' = Idle
    /\ forgotten' = inputs
    /\ UNCHANGED <<log, recorder, drivers, held, incarnation, inputs, cancels, shutdowns,
                   crashes, abandoned>>

\* The process dies: everything but the log is gone.
Crash ==
    /\ mode \notin {"down", "failed"}
    /\ crashes < MaxCrashes
    /\ crashes' = crashes + 1
    /\ jobs' = [j \in {} |-> {}]
    /\ submitting' = {} /\ workers' = {} /\ aborted' = {} /\ sends' = {}
    /\ sinkQ' = [s \in Sinks |-> <<>>]
    /\ closed' = {} /\ registered' = {} /\ replaced' = {}
    /\ delivered' = [r \in Registration |-> <<>>]
    /\ recorder' = "free"
    /\ drivers' = [t \in {} |-> {}]
    /\ results' = <<>>
    /\ mode' = "down"
    /\ inFlight' = NoTurn
    /\ pendingInput' = None
    /\ mailbox' = <<>>
    /\ held' = None
    /\ asking' = Idle
    /\ forgotten' = inputs
    /\ UNCHANGED <<log, incarnation, inputs, cancels, shutdowns, abandoned>>

-----------------------------------------------------------------------------

\* The steps of the actor.
ActorStep ==
    \/ TakeOutcome
    \/ HandleTrigger
    \/ StartHeldInput
    \/ HandleStrayCompletion
    \/ HandleJobCompleted
    \/ RecordJobCompleted
    \/ FinishJobCompleted
    \/ HandleProbe
    \/ HandleCancelJob
    \/ CancelReturns
    \/ HandleShutdown
    \/ TakeCompletion
    \/ ForwardCompletion
    \/ Exit

\* The steps of the turn tasks, and of the job tasks.
TurnStep ==
    /\ \E t \in DOMAIN drivers :
        DriverStep(t, incarnation, mode \in Alive)
    /\ UNCHANGED sessionVars

WorkerRuns ==
    /\ \E j \in workers :
        /\ FastJobs \/ (is_paused /\ inFlight.job = j) \/ j \in aborted
        /\ Complete(j, "Completed") \/ WorkerAborts(j)
    /\ UNCHANGED <<turnVars, sessionVars>>

SendRuns ==
    /\ \E x \in sends : Deliver(x)
    /\ UNCHANGED <<turnVars, sessionVars>>

JobStep == WorkerRuns \/ SendRuns

ClientStep == ClientSubmit \/ ClientCancel \/ ClientShutdown

Next == Start \/ ClientStep \/ ActorStep \/ TurnStep \/ JobStep \/ Crash

Spec == Init /\ [][Next]_vars

\* Tokio runs every task that can run, jobs and model streams come to an end,
\* and a session that can be opened again is.  Nothing is assumed of clients,
\* and nothing rules out a crash.
FairSpec ==
    /\ Spec
    /\ WF_vars(Start)
    /\ WF_vars(ActorStep)
    /\ WF_vars(TurnStep)
    /\ WF_vars(WorkerRuns)
    /\ WF_vars(SendRuns)

-----------------------------------------------------------------------------
(* Properties of the log.                                                  *)

Turns == 1..Cardinality(Positions(log, {"TurnStarted"}))

\* A turn never makes more model calls than its budget, however often it is
\* paused, crashed and resumed: the count each new task starts from is read
\* off the log (ADR-0038).
BudgetHonored == \A t \in Turns : CountModelCalls(log, t) <= MaxModelCalls

\* No tool call gets two results, though the turn task, the JobCompleted
\* handler and apply_resume_point all write them.
ToolResultOnce ==
    \A i, k \in Positions(log, {"ToolResultRecorded"}) : log[i].key = log[k].key => i = k

\* The events of an async call come in the order JobSubmitted, TurnPaused,
\* JobCompletedRecorded, ToolResultRecorded, and once each per job
\* (write-before-transition, over dispatcher, actor and restart).
AsyncChainOrdered ==
    /\ \A p \in Positions(log, {"TurnPaused"}) :
        \E i \in 1..(p - 1) : log[i].type = "JobSubmitted" /\ log[i].job = log[p].job
                              /\ log[i].turn = log[p].turn
    /\ \A c \in Positions(log, {"JobCompletedRecorded"}) :
        /\ \E p \in 1..(c - 1) : log[p] = TurnPaused(log[c].turn, log[c].job)
        /\ \A d \in Positions(log, {"JobCompletedRecorded"}) : log[d].job = log[c].job => d = c
        /\ \A r \in Positions(log, {"ToolResultRecorded"}) :
               log[r].key = LookupCallId(log, log[c].job) => c < r

\* A turn's terminal event is its last: no task, handler or restart writes
\* for a turn that has completed or failed.
NothingAfterTerminal ==
    \A i \in Positions(log, {"TurnCompleted", "TurnFailed"}) :
        \A k \in DOMAIN log : k > i => log[k].turn # log[i].turn

\* Every tool call of a turn has its result before the turn's next model call
\* (model_completed.rs:49), over cut streams, drift, failed validations and
\* restarts, unless an earlier call of the turn became a job: the calls behind a
\* job in its response are dropped, and so are, by a restart, those of a later one.
MatchedUnlessBehindJob ==
    \A m \in Positions(log, {"ModelCallStarted"}) :
        \A u \in 1..(m - 1) :
            log[u].type = "ToolUseRecorded" /\ log[u].turn = log[m].turn =>
                \/ \E r \in (u + 1)..(m - 1) : log[r] = ToolResult(log[u].turn, log[u].key)
                \/ \E i \in Positions(log, {"JobSubmitted"}), k \in 1..(u - 1) :
                      log[k].type = "ToolUseRecorded" /\ log[k].key = log[i].key /\ log[k].turn = log[m].turn

-----------------------------------------------------------------------------
(* Properties that tie the actor to its tasks, its jobs and the log.       *)

\* One turn in flight: a task that runs is that of the turn the actor holds
\* as active, and the outcome it posts finds it so.
OneTurnInFlight ==
    mode \in Alive =>
        /\ \A t \in DOMAIN drivers : inFlight = Active(t)
        /\ \A n \in DOMAIN results : inFlight = Active(results[n].turn)
        /\ Cardinality(DOMAIN drivers) + Len(results) <= 1

\* A paused session is never stranded: the completion it waits for is still
\* to come, on its way, or being applied.
PauseHasCompletion ==
    (mode \in Alive /\ is_paused) =>
        LET j == inFlight.job IN
        \/ j \in workers /\ jobs[j].status = "Running" /\ jobs[j].sink = incarnation
        \/ \E x \in sends : x.job = j /\ x.sink = incarnation
        \/ \E n \in DOMAIN sinkQ[incarnation] : sinkQ[incarnation][n].job = j
        \/ mode = "forwarding" /\ held = j
        \/ \E n \in DOMAIN mailbox : mailbox[n] = Cmd("JobCompleted", j)
        \/ mode \in {"draining", "completing", "recording"}

\* An input is never lost while the actor lives: it is queued, held, started,
\* or has given way to a later one (the single slot, latest wins).  And turns are
\* started in the order the inputs came in, each input at most once.
InputNotLost ==
    /\ \A n \in (forgotten + 1)..inputs :
        \/ \E i \in DOMAIN mailbox : mailbox[i] = Cmd("Trigger", n)
        \/ mode = "starting" /\ held = n
        \/ pendingInput >= n
        \/ \E i \in Positions(log, {"TurnStarted"}) : log[i].key >= n
    /\ \A i, k \in Positions(log, {"TurnStarted"}) : i < k => log[i].key < log[k].key

\* Startup fails only on the log of a session that has given up a turn: any
\* other log the system writes, cut at any point, can be resumed.
UnresumableOnlyIfAbandoned == mode = "failed" => abandoned # {}

\* Any Brain instance can resume any session (README.md:23).
AlwaysResumable == mode # "failed"

\* A turn that is paused goes on, unless the session itself goes down.
PauseEnds == (mode \in Alive /\ is_paused) ~> (~is_paused \/ mode \notin Alive)

\* Every turn that was started ends, over pauses, crashes and restarts, or is
\* one a restart gave up.
TurnEnds ==
    \A t \in 1..(MaxInputs) :
        (\E i \in DOMAIN log : log[i].type = "TurnStarted" /\ log[i].turn = t)
            ~> \/ \E i \in DOMAIN log : log[i] \in {TurnCompleted(t), TurnFailed(t)}
               \/ t \in abandoned

\* An input the actor holds is started or gives way to a later one, unless it
\* dies with the actor.
InputServed ==
    \A n \in 1..MaxInputs :
        (inputs >= n) ~> \/ \E i \in DOMAIN log : log[i].type = "TurnStarted" /\ log[i].key >= n
                         \/ forgotten >= n
=============================================================================
