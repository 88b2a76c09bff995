------------------------------ MODULE Commands ------------------------------
(***************************************************************************)
(* Shell commands: DirectExecutor::run (cogito-sandbox/src/executor.rs), a  *)
(* race between the child's exit, the turn's cancel token and a timer, and  *)
(* its callers.  The bash tool (cogito-jobs/src/bash.rs) runs a command in  *)
(* the foreground, the turn waiting for its answer, or as a job of          *)
(* LocalJobManager; run_tests has the same race of its own and is always a  *)
(* job.  The manager stops a job by aborting its task, which the race does  *)
(* not see: that, and children that leave processes of their own behind,    *)
(* is what makes the end of a command hard.                                 *)
(***************************************************************************)
EXTENDS JobManager

CONSTANT Foreground   \* the calls of bash that a turn waits for

ASSUME ForegroundAssumption == Foreground \cap JobIds = {}

\* The other runs are jobs, all of which are commands here.
Runs == JobIds \cup Foreground

VARIABLES
    race,    \* a run's future: where it is, and what ended the wait
    child,   \* its child process: none, running, exited or killed
    heirs,   \* the runs whose child left a process behind that holds its pipes
    fired,   \* the runs whose turn's cancel token has been cancelled
    answer   \* what a foreground call told its turn

commandVars == <<race, child, heirs, fired, answer>>
allVars == <<jobVars, commandVars>>

\* JobOutcome, by what the select! saw (bash.rs, run_tests.rs); "failed" is a spawn
\* or a wait that erred.
JobOutcome ==
    [exited |-> "Completed", failed |-> "Failed", cancelled |-> "Cancelled", timed_out |-> "Failed"]

\* The ToolResult of a foreground call: an output or the kind of its error.
SyncResult ==
    [exited |-> "Output", failed |-> "InvocationFailed", cancelled |-> "Cancelled",
     timed_out |-> "Timeout"]

\* A future is new, waiting in the select!, draining the pipes, drained, has told
\* its caller, or was dropped with its task.
CommandInit ==
    /\ JobInit
    /\ race = [r \in Runs |-> [at |-> "new", saw |-> "nothing"]]
    /\ child = [r \in Runs |-> "none"]
    /\ heirs = {}
    /\ fired = {}
    /\ answer = [c \in Foreground |-> "-"]

At(r, place) == race[r].at = place

-----------------------------------------------------------------------------
(* The future.  The task of a job drives it while it lives; a turn's task   *)
(* is never aborted.                                                        *)

Polled(r) == r \in Foreground \/ r \in workers

\* The call is invoked, or the job's task polled for the first time.  A spawn
\* that fails has nothing to drain.
Spawn(r) ==
    /\ Polled(r) /\ At(r, "new")
    /\ \/ /\ race' = [race EXCEPT ![r].at = "waiting"]
          /\ child' = [child EXCEPT ![r] = "running"]
       \/ /\ race' = [race EXCEPT ![r] = [at |-> "drained", saw |-> "failed"]]
          /\ UNCHANGED child
    /\ UNCHANGED <<jobVars, heirs, fired, answer>>

\* The select!'s first arm.  A wait that errs has lost the status.
SeesExit(r) ==
    /\ Polled(r) /\ At(r, "waiting")
    /\ child[r] = "exited"
    /\ \E saw \in {"exited", "failed"} : race' = [race EXCEPT ![r] = [at |-> "draining", saw |-> saw]]
    /\ UNCHANGED <<jobVars, child, heirs, fired, answer>>

\* Mutant: kills nothing.
KillNothing(r) == UNCHANGED <<child, heirs>>

\* child.kill(): the signal is sent in the poll that took the arm, to the
\* child alone; a child that had ended is only reaped.
Kill(r) ==
    /\ child' = [child EXCEPT ![r] = IF @ = "running" THEN "killed" ELSE @]
    /\ heirs' \in IF child[r] = "running" THEN {heirs, heirs \cup {r}} ELSE {heirs}

\* The second arm.
SeesCancel(r) ==
    /\ Polled(r) /\ At(r, "waiting")
    /\ r \in fired
    /\ race' = [race EXCEPT ![r] = [at |-> "draining", saw |-> "cancelled"]]
    /\ Kill(r)
    /\ UNCHANGED <<jobVars, fired, answer>>

\* Mutant: a command in the background has no deadline.
SeesDeadlineForeground(r) ==
    /\ r \in Foreground /\ At(r, "waiting")
    /\ race' = [race EXCEPT ![r] = [at |-> "draining", saw |-> "timed_out"]]
    /\ Kill(r)
    /\ UNCHANGED <<jobVars, fired, answer>>

\* The third arm: the timer may fire at any time.
SeesDeadline(r) ==
    /\ Polled(r) /\ At(r, "waiting")
    /\ race' = [race EXCEPT ![r] = [at |-> "draining", saw |-> "timed_out"]]
    /\ Kill(r)
    /\ UNCHANGED <<jobVars, fired, answer>>

Gone(r) == child[r] \in {"exited", "killed"}

\* Mutant: the readers are joined only if they have ended.
DrainAtOnce(r) ==
    /\ Polled(r) /\ At(r, "draining")
    /\ race' = [race EXCEPT ![r].at = "drained"]
    /\ UNCHANGED <<jobVars, child, heirs, fired, answer>>

\* Both readers are joined: the pipes are at their end when nobody holds them.
Drain(r) ==
    /\ Polled(r) /\ At(r, "draining")
    /\ Gone(r) /\ r \notin heirs
    /\ race' = [race EXCEPT ![r].at = "drained"]
    /\ UNCHANGED <<jobVars, child, heirs, fired, answer>>

\* invoke_background, run_cargo_nextest: the future resolves, and its task
\* goes on to complete_internal.
TellManager(j) ==
    /\ At(j, "drained")
    /\ Complete(j, JobOutcome[race[j].saw])
    /\ race' = [race EXCEPT ![j].at = "told"]
    /\ UNCHANGED <<child, heirs, fired, answer>>

\* invoke_sync: the result goes to the dispatcher.
TellTurn(c) ==
    /\ At(c, "drained")
    /\ answer' = [answer EXCEPT ![c] = SyncResult[race[c].saw]]
    /\ race' = [race EXCEPT ![c].at = "told"]
    /\ UNCHANGED <<jobVars, child, heirs, fired>>

\* The manager's abort takes effect at an await: the future is dropped where it
\* is, its child's handle with it, and kill_on_drop is not set.
Drop(j) ==
    /\ WorkerAborts(j)
    /\ race' = [race EXCEPT ![j].at = "dropped"]
    /\ UNCHANGED <<child, heirs, fired, answer>>

Step(r) ==
    \/ Spawn(r) \/ SeesExit(r) \/ SeesCancel(r) \/ SeesDeadline(r) \/ Drain(r)
    \/ r \in JobIds /\ (TellManager(r) \/ Drop(r))
    \/ r \in Foreground /\ TellTurn(r)

-----------------------------------------------------------------------------
(* The rest of the world.                                                   *)

\* The child ends by itself, with or without a process that outlives it.
ChildExits(r) ==
    /\ child[r] = "running"
    /\ child' = [child EXCEPT ![r] = "exited"]
    /\ heirs' \in {heirs, heirs \cup {r}}
    /\ UNCHANGED <<jobVars, race, fired, answer>>

HeirsEnd(r) ==
    /\ r \in heirs
    /\ heirs' = heirs \ {r}
    /\ UNCHANGED <<jobVars, race, child, fired, answer>>

\* cancel_turn, drain_shutdown: the token of the run's turn is cancelled.
FireToken(r) ==
    /\ r \notin fired
    /\ fired' = fired \cup {r}
    /\ UNCHANGED <<jobVars, race, child, heirs, answer>>

\* The manager, over jobs whose futures are commands.
ManagerStep ==
    /\ \/ \E j \in JobIds : Submit(j) \/ PatchAbort(j) \/ Cancel(j)
       \/ \E j \in JobIds, s \in Sinks \ closed : <<j, s>> \notin registered /\ OnComplete(j, s)
       \/ \E x \in sends : Deliver(x)
       \/ \E s \in Sinks : Receive(s) \/ CloseSink(s)
    /\ UNCHANGED commandVars

CommandNext ==
    \/ ManagerStep
    \/ \E r \in Runs : Step(r) \/ ChildExits(r) \/ HeirsEnd(r) \/ FireToken(r)

CommandSpec == CommandInit /\ [][CommandNext]_allVars

\* Tokio polls what can run and its timers fire.  Nothing makes a child exit;
\* the processes it leaves behind end some time, as no timer bounds them.
CommandFairSpec ==
    /\ CommandSpec
    /\ \A r \in Runs : WF_allVars(~At(r, "new") /\ Step(r)) /\ WF_allVars(HeirsEnd(r))

-----------------------------------------------------------------------------
(* Properties.                                                             *)

\* A command that still runs has a future waiting for it; only the manager's
\* cancel, which aborts the task, may leave one running without.  Over the
\* three arms of the select!, the abort and the readers, no other end of a
\* run leaves its process behind.
StrayOnlyByAbort ==
    \A r \in Runs : child[r] = "running" =>
        \/ At(r, "waiting") /\ Polled(r)
        \/ r \in JobIds /\ jobs[r].status = "Cancelled"

\* What is reported as done was done: the child ended by itself, was not
\* killed, and all it and its heirs wrote was read, whichever of the exit, the
\* token, the timer and the manager's cancel came first.
DoneIsDone ==
    \A r \in Runs :
        (IF r \in JobIds THEN r \in DOMAIN jobs /\ jobs[r].status = "Completed"
                             ELSE answer[r] = "Output")
            => child[r] = "exited" /\ r \notin heirs

\* A run that has begun comes to an end although its child never exits: its
\* timer, and the kill, see to it.
CommandEnds ==
    \A r \in Runs : At(r, "waiting") ~> race[r].at \in {"told", "dropped"}
=============================================================================
