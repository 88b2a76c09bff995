--------------------------- MODULE CommandsProofs ---------------------------
(***************************************************************************)
(* The end of a shell command, for any number of jobs, foreground calls and *)
(* sessions.  The manager under the commands takes no step it could not     *)
(* take by itself, so its invariant holds here too; what it gives the       *)
(* commands is that a task it aborts belongs to a cancelled job.            *)
(***************************************************************************)
EXTENDS Commands, JobManagerProofs

Places == {"new", "waiting", "draining", "drained", "told", "dropped"}
Endings == {"exited", "failed", "cancelled", "timed_out"}

CommandTypeOK ==
    /\ race \in [Runs -> [at : Places, saw : Endings \cup {"nothing"}]]
    /\ child \in [Runs -> {"none", "running", "exited", "killed"}]
    /\ heirs \subseteq Runs
    /\ answer \in [Foreground -> {"-", "Output", "InvocationFailed", "Cancelled", "Timeout"}]

\* A future and its child.  A child is alive only while its future waits for it or
\* after the future was dropped; the wait has ended for a reason before the pipes
\* are read; an exit that was seen was one, and nobody holds the pipes once read.
FutureAndChild ==
    \A r \in Runs :
        /\ At(r, "new") => child[r] = "none"
        /\ child[r] = "running" => At(r, "waiting") \/ At(r, "dropped")
        /\ race[r].at \in {"draining", "drained", "told"} => race[r].saw \in Endings
        /\ race[r].saw = "exited" => child[r] = "exited"
        /\ race[r].saw = "exited" /\ race[r].at \in {"drained", "told"} => r \notin heirs

\* A future and its task.  A future that waits is polled by a task that is alive,
\* and only the abort of a cancelled job's task drops one.
FutureAndTask ==
    /\ \A j \in aborted : jobs[j].status = "Cancelled"
    /\ \A r \in Runs :
        /\ At(r, "waiting") => Polled(r)
        /\ At(r, "dropped") => r \in JobIds /\ r \in DOMAIN jobs /\ jobs[r].status = "Cancelled"

\* What was reported comes from a future that has told its caller.
ReportedByFuture ==
    /\ \A j \in DOMAIN jobs : jobs[j].status = "Completed" => At(j, "told") /\ race[j].saw = "exited"
    /\ \A c \in Foreground : answer[c] = "Output" => At(c, "told") /\ race[c].saw = "exited"

CommandInv ==
    /\ JobInv
    /\ CommandTypeOK
    /\ FutureAndChild
    /\ FutureAndTask
    /\ ReportedByFuture

-----------------------------------------------------------------------------

\* What a future saw is an outcome of its job.
LEMMA OutcomeTypes ==
    ASSUME NEW saw \in Endings
    PROVE  /\ JobOutcome[saw] \in Terminal
           /\ JobOutcome[saw] = "Completed" => saw = "exited"
           /\ SyncResult[saw] \in {"Output", "InvocationFailed", "Cancelled", "Timeout"}
           /\ SyncResult[saw] = "Output" => saw = "exited"
BY DEF JobOutcome, SyncResult, Endings, Terminal

\* A command takes no step with the manager that the manager could not take by
\* itself.
LEMMA ManagerProjection == CommandInv /\ [CommandNext]_allVars => [JobNext]_jobVars
<1> SUFFICES ASSUME CommandInv, [CommandNext]_allVars
             PROVE  JobNext \/ UNCHANGED jobVars
    OBVIOUS
<1>1. CASE ManagerStep
    BY <1>1 DEF ManagerStep, JobNext
<1>2. ASSUME NEW r \in Runs, Step(r)
      PROVE  JobNext \/ UNCHANGED jobVars
    <2>1. ASSUME r \in JobIds, TellManager(r)
          PROVE  JobNext
        <3>1. JobOutcome[race[r].saw] \in Terminal
            BY <1>2, <2>1, OutcomeTypes DEF CommandInv, FutureAndChild, TellManager, At
        <3> QED
            BY <2>1, <3>1 DEF TellManager, JobNext, WorkerStep
    <2>2. ASSUME r \in JobIds, Drop(r)
          PROVE  JobNext
        BY <2>2 DEF Drop, JobNext, WorkerStep
    <2>3. CASE Spawn(r) \/ SeesExit(r) \/ SeesCancel(r) \/ SeesDeadline(r) \/ Drain(r) \/ TellTurn(r)
        BY <2>3 DEF Spawn, SeesExit, SeesCancel, SeesDeadline, Drain, TellTurn
    <2> QED
        BY <1>2, <2>1, <2>2, <2>3 DEF Step
<1>3. ASSUME NEW r \in Runs, ChildExits(r) \/ HeirsEnd(r) \/ FireToken(r)
      PROVE  UNCHANGED jobVars
    BY <1>3 DEF ChildExits, HeirsEnd, FireToken
<1> QED
    BY <1>1, <1>2, <1>3 DEF CommandNext, allVars

-----------------------------------------------------------------------------
(* Each step keeps the invariant.                                          *)

\* submit, cancel, on_complete and the channels: no future moves, a job is
\* cancelled by a cancel and by nothing else here.
LEMMA ManagerStepInv ==
    ASSUME CommandInv, JobInv', ManagerStep
    PROVE  CommandTypeOK' /\ FutureAndChild' /\ FutureAndTask' /\ ReportedByFuture'
<1>1. UNCHANGED <<race, child, heirs, answer>>
    BY DEF ManagerStep, commandVars
<1>2. CommandTypeOK' /\ FutureAndChild'
    BY <1>1 DEF CommandInv, CommandTypeOK, FutureAndChild, At
<1> DEFINE Entry(j) == /\ j \in DOMAIN jobs'
                       /\ \/ jobs'[j].status = jobs[j].status
                          \/ jobs'[j].status = "Cancelled"
           NewIsOpen == \A j \in DOMAIN jobs' \ DOMAIN jobs : jobs'[j].status = "Running"
           Kept == /\ \A j \in DOMAIN jobs : Entry(j)
                   /\ NewIsOpen
                   /\ \A j \in DOMAIN jobs : jobs[j].status \in Terminal => jobs'[j].status = jobs[j].status
                   /\ workers \subseteq workers'
                   /\ \A j \in aborted' \ aborted : jobs'[j].status = "Cancelled"
<1>3. Kept
    <2>1. jobs \in [DOMAIN jobs -> Lifecycle] /\ aborted \subseteq DOMAIN jobs
        BY DEF CommandInv, JobInv, JobTypeOK
    <2>2. ASSUME NEW j \in JobIds, Submit(j)
          PROVE  Kept
        BY <2>1, <2>2 DEF Submit
    <2>3. ASSUME NEW j \in JobIds, PatchAbort(j)
          PROVE  Kept
        BY <2>1, <2>3 DEF PatchAbort, Lifecycle
    <2>4. ASSUME NEW j \in JobIds, Cancel(j)
          PROVE  Kept
        BY <2>1, <2>4 DEF Cancel, Known, Terminal
    <2>5. ASSUME NEW j \in JobIds, NEW s \in Sinks, OnComplete(j, s)
          PROVE  Kept
        BY <2>1, <2>5 DEF OnComplete, Known, Lifecycle
    <2>6. CASE UNCHANGED <<jobs, workers, aborted>>
        BY <2>1, <2>6
    <2>7. ASSUME \/ \E x \in sends : Deliver(x)
                 \/ \E s \in Sinks : Receive(s) \/ CloseSink(s)
          PROVE  UNCHANGED <<jobs, workers, aborted>>
        BY <2>7 DEF Deliver, Receive, CloseSink
    <2> HIDE DEF Kept
    <2> QED
        BY <2>2, <2>3, <2>4, <2>5, <2>6, <2>7 DEF ManagerStep
<1>4. FutureAndTask'
    <2>1. aborted \subseteq DOMAIN jobs
        BY DEF CommandInv, JobInv, JobTypeOK
    <2> QED
        BY <1>1, <1>3, <2>1 DEF CommandInv, FutureAndTask, At, Polled, Terminal
<1>5. ReportedByFuture'
    BY <1>1, <1>3 DEF CommandInv, ReportedByFuture, At, Terminal
<1> QED
    BY <1>2, <1>4, <1>5

\* The future by itself: it spawns, sees the exit, the token or the deadline, and
\* joins the readers.
LEMMA FutureStepInv ==
    ASSUME CommandInv, NEW r \in Runs,
           Spawn(r) \/ SeesExit(r) \/ SeesCancel(r) \/ SeesDeadline(r) \/ Drain(r)
    PROVE  CommandTypeOK' /\ FutureAndChild' /\ FutureAndTask' /\ ReportedByFuture'
<1>1. UNCHANGED jobVars /\ UNCHANGED answer
    BY DEF Spawn, SeesExit, SeesCancel, SeesDeadline, Drain
<1>2. /\ race[r].at \in {"new", "waiting", "draining"}
      /\ Polled(r)
      /\ race'[r].at \in {"waiting", "draining", "drained"}
      /\ race'[r].at = "waiting" => race[r].at = "new"
    BY DEF CommandInv, CommandTypeOK, Spawn, SeesExit, SeesCancel, SeesDeadline, Drain, At
<1>3. \A q \in Runs \ {r} : race'[q] = race[q] /\ child'[q] = child[q] /\ (q \in heirs' => q \in heirs)
    BY DEF CommandInv, CommandTypeOK, Spawn, SeesExit, SeesCancel, SeesDeadline, Drain, Kill
<1>4. CommandTypeOK'
    BY <1>1 DEF CommandInv, CommandTypeOK, Spawn, SeesExit, SeesCancel, SeesDeadline, Drain, Kill,
                Places, Endings
<1>5. FutureAndChild'
    <2>1. ASSUME NEW q \in Runs \ {r}
          PROVE  /\ At(q, "new")' => child'[q] = "none"
                 /\ child'[q] = "running" => At(q, "waiting")' \/ At(q, "dropped")'
                 /\ race'[q].at \in {"draining", "drained", "told"} => race'[q].saw \in Endings
                 /\ race'[q].saw = "exited" => child'[q] = "exited"
                 /\ race'[q].saw = "exited" /\ race'[q].at \in {"drained", "told"} => q \notin heirs'
        BY <1>3 DEF CommandInv, FutureAndChild, At
    <2>2. /\ At(r, "new")' => child'[r] = "none"
          /\ child'[r] = "running" => At(r, "waiting")' \/ At(r, "dropped")'
          /\ race'[r].at \in {"draining", "drained", "told"} => race'[r].saw \in Endings
          /\ race'[r].saw = "exited" => child'[r] = "exited"
          /\ race'[r].saw = "exited" /\ race'[r].at \in {"drained", "told"} => r \notin heirs'
        BY DEF CommandInv, CommandTypeOK, FutureAndChild, At, Spawn, SeesExit, SeesCancel,
               SeesDeadline, Drain, Kill, Gone, Endings
    <2> QED
        BY <2>1, <2>2 DEF FutureAndChild
<1>6. FutureAndTask'
    BY <1>1, <1>2, <1>3 DEF CommandInv, FutureAndTask, At, Polled, jobVars
<1>7. ReportedByFuture'
    <2>1. ~At(r, "told")
        BY <1>2 DEF At
    <2>2. \A j \in DOMAIN jobs : j \in Runs
        BY DEF CommandInv, JobInv, JobTypeOK, Runs
    <2>3. \A c \in Foreground : c \in Runs
        BY DEF Runs
    <2> QED
        BY <1>1, <1>3, <2>1, <2>2, <2>3 DEF CommandInv, ReportedByFuture, At, jobVars
<1> QED
    BY <1>4, <1>5, <1>6, <1>7

\* The future resolves and its caller is told: complete_internal for a job.
LEMMA TellManagerInv ==
    ASSUME CommandInv, NEW j \in JobIds, TellManager(j)
    PROVE  CommandTypeOK' /\ FutureAndChild' /\ FutureAndTask' /\ ReportedByFuture'
<1> DEFINE o == JobOutcome[race[j].saw]
<1>1. /\ j \in Runs /\ At(j, "drained") /\ race[j].saw \in Endings
      /\ o \in Terminal /\ (o = "Completed" => race[j].saw = "exited")
    BY OutcomeTypes DEF Runs, CommandInv, FutureAndChild, TellManager, At
<1>2. /\ UNCHANGED <<child, heirs, answer>>
      /\ race' = [race EXCEPT ![j].at = "told"]
      /\ j \in workers /\ workers' = workers \ {j} /\ aborted' = aborted \ {j}
    BY DEF TellManager, Complete
<1>3. /\ race'[j].at = "told" /\ race'[j].saw = race[j].saw
      /\ \A q \in Runs \ {j} : race'[q] = race[q]
    BY <1>1, <1>2 DEF CommandInv, CommandTypeOK
<1>4. /\ j \in DOMAIN jobs /\ DOMAIN jobs' = DOMAIN jobs
      /\ \A i \in DOMAIN jobs \ {j} : jobs'[i] = jobs[i]
      /\ \/ jobs' = jobs
         \/ jobs'[j].status = o /\ jobs[j].status \notin Terminal
    BY DEF CommandInv, JobInv, JobTypeOK, TellManager, Complete
<1>5. CommandTypeOK'
    BY <1>1, <1>2 DEF CommandInv, CommandTypeOK, Places
<1>6. FutureAndChild'
    BY <1>1, <1>2, <1>3 DEF CommandInv, FutureAndChild, At
<1>7. FutureAndTask'
    <2>1. \A i \in aborted' : jobs'[i].status = "Cancelled"
        BY <1>2, <1>4 DEF CommandInv, FutureAndTask, JobInv, JobTypeOK
    <2>2. ASSUME NEW r \in Runs, At(r, "waiting")'
          PROVE  Polled(r)'
        BY <1>2, <1>3, <2>2 DEF CommandInv, FutureAndTask, At, Polled
    <2>3. ASSUME NEW r \in Runs, At(r, "dropped")'
          PROVE  r \in JobIds /\ r \in DOMAIN jobs' /\ jobs'[r].status = "Cancelled"
        BY <1>3, <1>4, <2>3 DEF CommandInv, FutureAndTask, At
    <2> QED
        BY <2>1, <2>2, <2>3 DEF FutureAndTask
<1>8. ReportedByFuture'
    <2>1. ASSUME NEW i \in DOMAIN jobs', jobs'[i].status = "Completed"
          PROVE  At(i, "told")' /\ race'[i].saw = "exited"
        <3>1. i \in Runs
            BY <1>4 DEF CommandInv, JobInv, JobTypeOK, Runs
        <3>2. CASE i # j
            BY <1>3, <1>4, <2>1, <3>1, <3>2 DEF CommandInv, ReportedByFuture, At
        <3>3. CASE i = j
            BY <1>1, <1>3, <1>4, <2>1, <3>3 DEF CommandInv, ReportedByFuture, At
        <3> QED
            BY <3>2, <3>3
    <2>2. ASSUME NEW c \in Foreground
          PROVE  c \in Runs /\ c # j
        BY ForegroundAssumption DEF Runs
    <2> QED
        BY <1>2, <1>3, <2>1, <2>2 DEF CommandInv, ReportedByFuture, At
<1> QED
    BY <1>5, <1>6, <1>7, <1>8

\* invoke_sync returns.
LEMMA TellTurnInv ==
    ASSUME CommandInv, NEW c \in Foreground, TellTurn(c)
    PROVE  CommandTypeOK' /\ FutureAndChild' /\ FutureAndTask' /\ ReportedByFuture'
<1> DEFINE a == SyncResult[race[c].saw]
<1>1. /\ c \in Runs /\ At(c, "drained") /\ race[c].saw \in Endings
      /\ a \in {"Output", "InvocationFailed", "Cancelled", "Timeout"}
      /\ a = "Output" => race[c].saw = "exited"
    BY OutcomeTypes DEF Runs, CommandInv, FutureAndChild, TellTurn, At
<1>2. /\ UNCHANGED <<child, heirs>> /\ UNCHANGED jobVars
      /\ race' = [race EXCEPT ![c].at = "told"]
      /\ answer' = [answer EXCEPT ![c] = a]
    BY DEF TellTurn
<1> HIDE DEF a
<1>3. /\ race'[c].at = "told" /\ race'[c].saw = race[c].saw
      /\ \A q \in Runs \ {c} : race'[q] = race[q]
      /\ answer'[c] = a /\ \A d \in Foreground \ {c} : answer'[d] = answer[d]
    BY <1>1, <1>2 DEF CommandInv, CommandTypeOK
<1>4. CommandTypeOK'
    BY <1>1, <1>2 DEF CommandInv, CommandTypeOK, Places
<1>5. FutureAndChild'
    BY <1>1, <1>2, <1>3 DEF CommandInv, FutureAndChild, At
<1>6. FutureAndTask'
    BY <1>2, <1>3 DEF CommandInv, FutureAndTask, At, Polled, jobVars
<1>7. ReportedByFuture'
    <2>1. \A j \in DOMAIN jobs : j \in Runs /\ j # c
        BY ForegroundAssumption DEF CommandInv, JobInv, JobTypeOK, Runs
    <2>2. \A d \in Foreground : d \in Runs
        BY DEF Runs
    <2> QED
        BY <1>1, <1>2, <1>3, <2>1, <2>2 DEF CommandInv, ReportedByFuture, At, jobVars
<1> QED
    BY <1>4, <1>5, <1>6, <1>7

\* The task of a cancelled job stops at an await.
LEMMA DropInv ==
    ASSUME CommandInv, NEW j \in JobIds, Drop(j)
    PROVE  CommandTypeOK' /\ FutureAndChild' /\ FutureAndTask' /\ ReportedByFuture'
<1>1. /\ j \in Runs /\ j \in aborted /\ j \in DOMAIN jobs
      /\ jobs[j].status = "Cancelled"
    BY DEF CommandInv, JobInv, JobTypeOK, FutureAndTask, Runs, Drop, WorkerAborts
<1>2. /\ UNCHANGED <<jobs, child, heirs, answer>>
      /\ race' = [race EXCEPT ![j].at = "dropped"]
      /\ workers' = workers \ {j} /\ aborted' = aborted \ {j}
    BY DEF Drop, WorkerAborts
<1>3. /\ race'[j].at = "dropped" /\ race'[j].saw = race[j].saw
      /\ \A q \in Runs \ {j} : race'[q] = race[q]
    BY <1>1, <1>2 DEF CommandInv, CommandTypeOK
<1>4. CommandTypeOK'
    BY <1>1, <1>2 DEF CommandInv, CommandTypeOK, Places
<1>5. FutureAndChild'
    BY <1>2, <1>3 DEF CommandInv, FutureAndChild, At
<1>6. FutureAndTask'
    BY <1>1, <1>2, <1>3 DEF CommandInv, FutureAndTask, At, Polled
<1>7. ReportedByFuture'
    <2>1. \A i \in DOMAIN jobs : i \in Runs
        BY DEF CommandInv, JobInv, JobTypeOK, Runs
    <2>2. \A d \in Foreground : d \in Runs /\ d # j
        BY ForegroundAssumption DEF Runs
    <2> QED
        BY <1>1, <1>2, <1>3, <2>1, <2>2 DEF CommandInv, ReportedByFuture, At
<1> QED
    BY <1>4, <1>5, <1>6, <1>7

\* The world around the futures: a child ends, its heirs end, a token is
\* cancelled.
LEMMA WorldInv ==
    ASSUME CommandInv, NEW r \in Runs, ChildExits(r) \/ HeirsEnd(r) \/ FireToken(r)
    PROVE  CommandTypeOK' /\ FutureAndChild' /\ FutureAndTask' /\ ReportedByFuture'
<1>1. UNCHANGED <<race, answer>> /\ UNCHANGED jobVars
    BY DEF ChildExits, HeirsEnd, FireToken
<1>2. CommandTypeOK'
    BY <1>1 DEF CommandInv, CommandTypeOK, ChildExits, HeirsEnd, FireToken
<1>3. \A q \in Runs : \/ child'[q] = child[q] /\ (q \in heirs' => q \in heirs)
                      \/ child[q] = "running" /\ child'[q] = "exited"
    BY DEF CommandInv, CommandTypeOK, ChildExits, HeirsEnd, FireToken
<1>4. FutureAndChild'
    BY <1>1, <1>3 DEF CommandInv, FutureAndChild, At
<1>5. FutureAndTask' /\ ReportedByFuture'
    BY <1>1 DEF CommandInv, FutureAndTask, ReportedByFuture, At, Polled, jobVars
<1> QED
    BY <1>2, <1>4, <1>5

-----------------------------------------------------------------------------

LEMMA CommandInvInit == CommandInit => CommandInv
<1> SUFFICES ASSUME CommandInit
             PROVE  CommandInv
    OBVIOUS
<1>1. JobInv
    BY InvInit DEF CommandInit
<1>2. CommandTypeOK /\ FutureAndChild
    BY DEF CommandInit, CommandTypeOK, FutureAndChild, Places, Endings, At
<1>3. FutureAndTask /\ ReportedByFuture
    BY DEF CommandInit, JobInit, FutureAndTask, ReportedByFuture, At
<1> QED
    BY <1>1, <1>2, <1>3 DEF CommandInv

\* The invariant is inductive.
LEMMA CommandInvStep == CommandInv /\ [CommandNext]_allVars => CommandInv'
<1> SUFFICES ASSUME CommandInv, [CommandNext]_allVars
             PROVE  CommandInv'
    OBVIOUS
<1>1. JobInv'
    BY ManagerProjection, InvStep DEF CommandInv
<1> DEFINE Kept == CommandTypeOK' /\ FutureAndChild' /\ FutureAndTask' /\ ReportedByFuture'
<1>2. ASSUME ManagerStep
      PROVE  Kept
    BY <1>1, <1>2, ManagerStepInv
<1>3. ASSUME NEW r \in Runs, Step(r)
      PROVE  Kept
    BY <1>3, FutureStepInv, TellManagerInv, DropInv, TellTurnInv DEF Step
<1>4. ASSUME NEW r \in Runs, ChildExits(r) \/ HeirsEnd(r) \/ FireToken(r)
      PROVE  Kept
    BY <1>4, WorldInv
<1>5. ASSUME UNCHANGED allVars
      PROVE  Kept
    <2>1. CommandTypeOK' /\ FutureAndChild'
        BY <1>5 DEF allVars, commandVars, CommandInv, CommandTypeOK, FutureAndChild, At
    <2>2. FutureAndTask' /\ ReportedByFuture'
        BY <1>5 DEF allVars, jobVars, commandVars, CommandInv, FutureAndTask, ReportedByFuture, At,
                    Polled
    <2> QED
        BY <2>1, <2>2
<1>6. Kept
    <2> HIDE DEF Kept
    <2> QED
        BY <1>2, <1>3, <1>4, <1>5 DEF CommandNext
<1> QED
    BY <1>1, <1>6 DEF CommandInv

LEMMA CommandInvAlways == CommandSpec => []CommandInv
BY CommandInvInit, CommandInvStep, PTL DEF CommandSpec

\* The manager behind the commands behaves as the manager on its own: whatever is
\* proved of LocalJobManager holds while bash and run_tests run over it.
THEOREM CommandsUseManager == CommandSpec => JobSpec
<1>1. CommandInit => JobInit
    BY DEF CommandInit
<1> QED
    BY <1>1, CommandInvAlways, ManagerProjection, PTL DEF CommandSpec, JobSpec

\* No end of a command leaves its process running without a future that waits for
\* it, but the manager's cancel.
THEOREM CommandsStrayOnlyByAbort == CommandSpec => []StrayOnlyByAbort
<1>1. CommandInv => StrayOnlyByAbort
    BY DEF CommandInv, FutureAndChild, FutureAndTask, StrayOnlyByAbort
<1> QED
    BY <1>1, CommandInvAlways, PTL

\* A job reported Completed, or an output returned to a turn, is of a child that
\* ended by itself and whose output was read to its end.
THEOREM CommandsDoneIsDone == CommandSpec => []DoneIsDone
<1>1. CommandInv => DoneIsDone
    <2> SUFFICES ASSUME CommandInv, NEW r \in Runs,
                        IF r \in JobIds THEN r \in DOMAIN jobs /\ jobs[r].status = "Completed"
                                        ELSE answer[r] = "Output"
                 PROVE  child[r] = "exited" /\ r \notin heirs
        BY DEF DoneIsDone
    <2>1. At(r, "told") /\ race[r].saw = "exited"
        BY DEF CommandInv, ReportedByFuture, Runs
    <2> QED
        BY <2>1 DEF CommandInv, FutureAndChild, At
<1> QED
    BY <1>1, CommandInvAlways, PTL
=============================================================================
