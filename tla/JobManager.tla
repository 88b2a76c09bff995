----------------------------- MODULE JobManager -----------------------------
(***************************************************************************)
(* LocalJobManager (cogito-jobs/src/local.rs): background jobs in an        *)
(* in-memory map behind a mutex, one tokio task per job, and a one-shot     *)
(* completion sink per registration.  A step is one critical section of     *)
(* the mutex; the send on a sink happens after the mutex is released, so it *)
(* is a step of its own, and it waits while the sink's channel is full.     *)
(***************************************************************************)
EXTENDS Integers, Sequences, FiniteSets

CONSTANTS
    JobIds,     \* the ids submit_internal may mint
    Sinks,      \* the completion channels, one per session actor
    NoSink,     \* Option::None
    SinkCap     \* capacity of a completion channel (32 in builder.rs)

ASSUME SinksAssumption == NoSink \notin Sinks
ASSUME SinkCapAssumption == SinkCap \in Nat \ {0}

VARIABLES
    jobs,       \* the map: job id -> lifecycle, for the jobs submitted so far
    submitting, \* the jobs whose submit_internal has not returned
    workers,    \* the jobs whose task is alive
    aborted,    \* the tasks told to stop at their next await
    sends,      \* sends taken out of the map and not yet on the channel
    sinkQ,      \* the completion channels
    closed,     \* the channels whose receiver is gone
    registered, \* history: the registrations <<job, sink>> that succeeded
    replaced,   \* history: the registrations a later one pushed out of the map
    delivered   \* history: the outcomes each registration was told

jobVars == <<jobs, submitting, workers, aborted, sends, sinkQ, closed,
             registered, replaced, delivered>>

Terminal == {"Completed", "Failed", "Cancelled"}
Statuses == {"Running"} \cup Terminal

\* The outcome is None exactly while the job runs, and JobOutcome's variants
\* are those of the terminal statuses, so the status stands for both.
\* abort: the abort handle is there to be taken.
Lifecycle == [status : Statuses, sink : Sinks \cup {NoSink}, abort : BOOLEAN]

Registration == JobIds \X Sinks

Completion == [job : JobIds, outcome : Terminal]

\* Who is awaiting a send: a job's own task, or the caller of cancel or
\* on_complete.
Senders == {"worker", "canceller", "registrant"}
Send == [job : JobIds, sink : Sinks, outcome : Terminal, by : Senders]

\* The shape of the manager's state; the tasks that are alive or being
\* submitted belong to jobs in the map.
JobTypeOK ==
    /\ jobs \in [DOMAIN jobs -> Lifecycle]
    /\ DOMAIN jobs \subseteq JobIds
    /\ submitting \subseteq DOMAIN jobs
    /\ workers \subseteq DOMAIN jobs
    /\ aborted \subseteq workers
    /\ sends \subseteq Send
    /\ sinkQ \in [Sinks -> Seq(Completion)]
    /\ closed \subseteq Sinks
    /\ registered \subseteq Registration
    /\ replaced \subseteq registered
    /\ delivered \in [Registration -> Seq(Terminal)]

JobInit ==
    /\ jobs = [j \in {} |-> {}]
    /\ submitting = {}
    /\ workers = {}
    /\ aborted = {}
    /\ sends = {}
    /\ sinkQ = [s \in Sinks |-> <<>>]
    /\ closed = {}
    /\ registered = {}
    /\ replaced = {}
    /\ delivered = [r \in Registration |-> <<>>]

\* A caller can name a job once submit has returned its id.
Known(j) == j \in DOMAIN jobs \ submitting

\* The send that follows taking sink s out of job j's entry.
Firing(j, s, outcome, who) ==
    IF s = NoSink THEN {} ELSE {[job |-> j, sink |-> s, outcome |-> outcome, by |-> who]}

\* submit_internal: the entry is inserted before the task is spawned.
Submit(j) ==
    /\ j \notin DOMAIN jobs
    /\ jobs' = [i \in DOMAIN jobs \cup {j} |->
                   IF i = j THEN [status |-> "Running", sink |-> NoSink, abort |-> FALSE]
                   ELSE jobs[i]]
    /\ submitting' = submitting \cup {j}
    /\ workers' = workers \cup {j}
    /\ UNCHANGED <<aborted, sends, sinkQ, closed, registered, replaced, delivered>>

\* Mutant: the abort handle is never patched in.
PatchAbortForgotten(j) ==
    /\ j \in submitting
    /\ submitting' = submitting \ {j}
    /\ UNCHANGED <<jobs, workers, aborted, sends, sinkQ, closed, registered, replaced, delivered>>

\* submit_internal, end: the abort handle is patched in, whatever the status,
\* and the caller learns the id.
PatchAbort(j) ==
    /\ j \in submitting
    /\ jobs' = [jobs EXCEPT ![j].abort = TRUE]
    /\ submitting' = submitting \ {j}
    /\ UNCHANGED <<workers, aborted, sends, sinkQ, closed, registered, replaced, delivered>>

\* Mutant: complete_internal without its idempotency check.
CompleteUnchecked(j, outcome) ==
    /\ j \in workers
    /\ workers' = workers \ {j}
    /\ aborted' = aborted \ {j}
    /\ jobs' = [jobs EXCEPT ![j] = [status |-> outcome, sink |-> NoSink, abort |-> FALSE]]
    /\ sends' = sends \cup Firing(j, jobs[j].sink, outcome, "worker")
    /\ UNCHANGED <<submitting, sinkQ, closed, registered, replaced, delivered>>

\* Mutant: the sink is fired before the outcome is stored, and the lock is
\* released in between.
CompleteFiresFirst(j, outcome) ==
    /\ j \in workers
    /\ workers' = workers \ {j}
    /\ aborted' = aborted \ {j}
    /\ jobs' = [jobs EXCEPT ![j].sink = NoSink]
    /\ sends' = sends \cup Firing(j, jobs[j].sink, outcome, "worker")
    /\ UNCHANGED <<submitting, sinkQ, closed, registered, replaced, delivered>>

\* Mutant: the sink is taken out of the entry and not fired.
CompleteSilently(j, outcome) ==
    /\ j \in workers
    /\ workers' = workers \ {j}
    /\ aborted' = aborted \ {j}
    /\ jobs' = [jobs EXCEPT ![j] = [status |-> outcome, sink |-> NoSink, abort |-> FALSE]]
    /\ UNCHANGED <<submitting, sends, sinkQ, closed, registered, replaced, delivered>>

\* complete_internal, run by the job's task once its future resolves.  A job
\* that is already terminal keeps its outcome and its sink is not fired.
Complete(j, outcome) ==
    /\ j \in workers
    /\ workers' = workers \ {j}
    /\ aborted' = aborted \ {j}
    /\ IF jobs[j].status \in Terminal
       THEN UNCHANGED <<jobs, sends>>
       ELSE /\ jobs' = [jobs EXCEPT ![j] = [status |-> outcome, sink |-> NoSink, abort |-> FALSE]]
            /\ sends' = sends \cup Firing(j, jobs[j].sink, outcome, "worker")
    /\ UNCHANGED <<submitting, sinkQ, closed, registered, replaced, delivered>>

\* The job's future panics: its task ends without complete_internal.
WorkerPanic(j) ==
    /\ j \in workers
    /\ workers' = workers \ {j}
    /\ aborted' = aborted \ {j}
    /\ UNCHANGED <<jobs, submitting, sends, sinkQ, closed, registered, replaced, delivered>>

\* An aborted task stops at an await; until then it may still get as far as
\* complete_internal.
WorkerAborts(j) ==
    /\ j \in aborted
    /\ workers' = workers \ {j}
    /\ aborted' = aborted \ {j}
    /\ UNCHANGED <<jobs, submitting, sends, sinkQ, closed, registered, replaced, delivered>>

\* Mutant: cancel of a terminal job is not a no-op.
CancelUnchecked(j) ==
    /\ Known(j)
    /\ jobs' = [jobs EXCEPT ![j] = [status |-> "Cancelled", sink |-> NoSink, abort |-> FALSE]]
    /\ aborted' = IF jobs[j].abort THEN aborted \cup ({j} \cap workers) ELSE aborted
    /\ sends' = sends \cup Firing(j, jobs[j].sink, "Cancelled", "canceller")
    /\ UNCHANGED <<submitting, workers, sinkQ, closed, registered, replaced, delivered>>

\* Mutant: cancel clones the sink instead of taking it.
CancelKeepsSink(j) ==
    /\ Known(j)
    /\ jobs[j].status \notin Terminal
    /\ jobs' = [jobs EXCEPT ![j].status = "Cancelled", ![j].abort = FALSE]
    /\ aborted' = IF jobs[j].abort THEN aborted \cup ({j} \cap workers) ELSE aborted
    /\ sends' = sends \cup Firing(j, jobs[j].sink, "Cancelled", "canceller")
    /\ UNCHANGED <<submitting, workers, sinkQ, closed, registered, replaced, delivered>>

\* Mutant: cancel takes the entry out of the map.
CancelEvicts(j) ==
    /\ Known(j)
    /\ jobs' = [i \in DOMAIN jobs \ {j} |-> jobs[i]]
    /\ sends' = sends \cup Firing(j, jobs[j].sink, "Cancelled", "canceller")
    /\ UNCHANGED <<submitting, workers, aborted, sinkQ, closed, registered, replaced, delivered>>

\* cancel: Ok without effect on a terminal job.
Cancel(j) ==
    /\ Known(j)
    /\ IF jobs[j].status \in Terminal
       THEN UNCHANGED <<jobs, aborted, sends>>
       ELSE /\ jobs' = [jobs EXCEPT ![j] = [status |-> "Cancelled", sink |-> NoSink, abort |-> FALSE]]
            /\ aborted' = IF jobs[j].abort THEN aborted \cup ({j} \cap workers) ELSE aborted
            /\ sends' = sends \cup Firing(j, jobs[j].sink, "Cancelled", "canceller")
    /\ UNCHANGED <<submitting, workers, sinkQ, closed, registered, replaced, delivered>>

\* Mutant: on_complete does not look at the status.
OnCompleteUnchecked(j, s) ==
    /\ Known(j)
    /\ jobs' = [jobs EXCEPT ![j].sink = s]
    /\ replaced' = replaced \cup ({<<j, jobs[j].sink>>} \cap registered)
    /\ registered' = registered \cup {<<j, s>>}
    /\ UNCHANGED <<submitting, workers, aborted, sends, sinkQ, closed, delivered>>

\* on_complete: a terminal job is reported at once, else the sink is stored,
\* in place of an earlier one.
OnComplete(j, s) ==
    /\ Known(j)
    /\ IF jobs[j].status \in Terminal
       THEN /\ sends' = sends \cup Firing(j, s, jobs[j].status, "registrant")
            /\ UNCHANGED <<jobs, replaced>>
       ELSE /\ jobs' = [jobs EXCEPT ![j].sink = s]
            /\ replaced' = replaced \cup ({<<j, jobs[j].sink>>} \cap registered)
            /\ UNCHANGED sends
    /\ registered' = registered \cup {<<j, s>>}
    /\ UNCHANGED <<submitting, workers, aborted, sinkQ, closed, delivered>>

\* sink.send(..).await: waits for room; on a closed channel the event is
\* dropped.
Deliver(x) ==
    /\ x \in sends
    /\ sends' = sends \ {x}
    /\ IF x.sink \in closed
       THEN UNCHANGED <<sinkQ, delivered>>
       ELSE /\ Len(sinkQ[x.sink]) < SinkCap
            /\ sinkQ' = [sinkQ EXCEPT ![x.sink] = Append(@, [job |-> x.job, outcome |-> x.outcome])]
            /\ delivered' = [delivered EXCEPT ![<<x.job, x.sink>>] = Append(@, x.outcome)]
    /\ UNCHANGED <<jobs, submitting, workers, aborted, closed, registered, replaced>>

\* The session actor takes the next completion off its channel.
Receive(s) ==
    /\ s \notin closed
    /\ sinkQ[s] # <<>>
    /\ sinkQ' = [sinkQ EXCEPT ![s] = Tail(@)]
    /\ UNCHANGED <<jobs, submitting, workers, aborted, sends, closed, registered, replaced, delivered>>

\* The session actor exits and drops its receiver.
CloseSink(s) ==
    /\ s \notin closed
    /\ closed' = closed \cup {s}
    /\ sinkQ' = [sinkQ EXCEPT ![s] = <<>>]
    /\ UNCHANGED <<jobs, submitting, workers, aborted, sends, registered, replaced, delivered>>

\* A job's task: it completes, panics, or is stopped.
WorkerStep(j) ==
    \/ \E outcome \in Terminal : Complete(j, outcome)
    \/ WorkerPanic(j)
    \/ WorkerAborts(j)

\* The manager on its own: jobs submitted, cancelled and registered for by
\* any caller at any time.  A session actor registers a job with its own
\* channel once (dispatcher.rs:118, session_loop.rs:390).
JobNext ==
    \/ \E j \in JobIds :
        \/ Submit(j)
        \/ PatchAbort(j)
        \/ WorkerStep(j)
        \/ Cancel(j)
        \/ \E s \in Sinks \ closed : <<j, s>> \notin registered /\ OnComplete(j, s)
    \/ \E x \in sends : Deliver(x)
    \/ \E s \in Sinks : Receive(s) \/ CloseSink(s)

JobSpec == JobInit /\ [][JobNext]_jobVars

\* Tokio polls every task that can run: a task that is not stopped or lost to
\* a panic gets to its completion, a send with room gets through, an actor
\* keeps receiving.
JobFairSpec ==
    /\ JobSpec
    /\ \A j \in JobIds :
        /\ WF_jobVars(PatchAbort(j))
        /\ WF_jobVars(WorkerStep(j))
    /\ \A s \in Sinks :
        /\ WF_jobVars(\E x \in sends : x.sink = s /\ Deliver(x))
        /\ WF_jobVars(Receive(s))

-----------------------------------------------------------------------------
(* Properties.                                                             *)

Stored(r) == r[1] \in DOMAIN jobs /\ jobs[r[1]].sink = r[2]

Pending(r) == {x \in sends : x.job = r[1] /\ x.sink = r[2]}

\* A registration is told at most once: over cancel racing complete_internal
\* racing on_complete, the sink is in the map, on its way, or used up, and
\* never two of these.
OneShot ==
    \A r \in Registration :
        /\ Len(delivered[r]) <= 1
        /\ \A x, y \in Pending(r) : x = y
        /\ Stored(r) => Pending(r) = {} /\ delivered[r] = <<>>
        /\ Pending(r) # {} => delivered[r] = <<>>

\* A registration that was not replaced and whose receiver lives is never
\* lost between the map, the pending send and the channel; while the job
\* runs it is in the map.
NothingLost ==
    \A r \in registered \ replaced :
        \/ r[2] \in closed
        \/ Stored(r) /\ jobs[r[1]].status = "Running"
        \/ Pending(r) # {}
        \/ delivered[r] # <<>>

\* Whatever a sink is told is the outcome the manager reports for the job:
\* the loser of a race between cancel and the task is never announced.
TrueOutcome ==
    /\ \A x \in sends : x.job \in DOMAIN jobs /\ x.outcome = jobs[x.job].status
    /\ \A r \in Registration : \A i \in DOMAIN delivered[r] :
           r[1] \in DOMAIN jobs /\ delivered[r][i] = jobs[r[1]].status
    /\ \A s \in Sinks : \A i \in DOMAIN sinkQ[s] :
           sinkQ[s][i].job \in DOMAIN jobs /\ sinkQ[s][i].outcome = jobs[sinkQ[s][i].job].status

\* A task that outlives its job's terminal status has been told to stop:
\* cancel never misses the abort handle, the race submit_internal's comment
\* allows for.
NoOrphanTask ==
    \A j \in workers : jobs[j].status \in Terminal => j \in aborted

\* A terminal status is final: neither a late completion nor a second cancel
\* changes the outcome.
OutcomeFinal ==
    [][\A j \in DOMAIN jobs :
          jobs[j].status \in Terminal =>
              j \in DOMAIN jobs' /\ jobs'[j].status = jobs[j].status]_jobVars

\* Once the job is terminal, a registration that was not replaced is told, or
\* its receiver goes away.
EventuallyTold ==
    \A r \in Registration :
        (r \in registered \ replaced /\ jobs[r[1]].status \in Terminal)
            ~> (delivered[r] # <<>> \/ r[2] \in closed)

-----------------------------------------------------------------------------
(* The manager implements the contract.                                    *)

OutcomeOf ==
    [j \in JobIds |-> IF j \notin DOMAIN jobs THEN "absent"
                      ELSE IF jobs[j].status = "Running" THEN "open"
                      ELSE jobs[j].status]

NoticeOf ==
    [r \in Registration |-> IF r \notin registered THEN "none"
                            ELSE IF delivered[r] # <<>> THEN delivered[r][1]
                            ELSE IF Stored(r) \/ Pending(r) # {} THEN "owed"
                            ELSE "dropped"]

Contract == INSTANCE OneShotCompletion
    WITH Jobs <- JobIds, Listeners <- Sinks, Outcomes <- Terminal,
         outcome <- OutcomeOf, notice <- NoticeOf

\* LocalJobManager implements the one-shot contract of the JobManager trait.
ImplementsContract == Contract!Spec
=============================================================================
