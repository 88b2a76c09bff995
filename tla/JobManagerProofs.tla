-------------------------- MODULE JobManagerProofs --------------------------
(***************************************************************************)
(* The properties of LocalJobManager for every set of jobs and sinks and    *)
(* every channel capacity, and that it implements the contract of the       *)
(* JobManager trait.                                                       *)
(***************************************************************************)
EXTENDS JobManager, TLAPS

\* What the manager's critical sections keep up between them: a terminal job
\* holds no sink; a running job whose submit has returned has its abort
\* handle; whatever is stored, on its way or told was registered, for a job in
\* the map.
Bookkeeping ==
    /\ \A j \in DOMAIN jobs : jobs[j].status \in Terminal => jobs[j].sink = NoSink
    /\ \A j \in DOMAIN jobs \ submitting : jobs[j].status = "Running" => jobs[j].abort = TRUE
    /\ \A r \in registered : r[1] \in DOMAIN jobs
    /\ \A r \in Registration :
           Stored(r) \/ Pending(r) # {} \/ delivered[r] # <<>> => r \in registered

JobInv ==
    /\ JobTypeOK
    /\ Bookkeeping
    /\ OneShot
    /\ NothingLost
    /\ TrueOutcome
    /\ NoOrphanTask

-----------------------------------------------------------------------------

\* Taking a sink out of a job's entry leaves at most one well-formed send.
LEMMA FiringType ==
    ASSUME NEW j \in JobIds, NEW s \in Sinks \cup {NoSink}, NEW outcome \in Terminal,
           NEW who \in Senders
    PROVE  Firing(j, s, outcome, who) \subseteq Send
BY DEF Firing, Send

\* An entry replaced by a well-formed one keeps the map well formed.
LEMMA EntryType ==
    ASSUME jobs \in [DOMAIN jobs -> Lifecycle], NEW j \in DOMAIN jobs, NEW e \in Lifecycle
    PROVE  /\ [jobs EXCEPT ![j] = e] \in [DOMAIN jobs -> Lifecycle]
           /\ DOMAIN [jobs EXCEPT ![j] = e] = DOMAIN jobs
OBVIOUS

\* Every call of the manager keeps its state well formed, also a registration of
\* a sink that was registered before.
LEMMA CallType ==
    ASSUME JobTypeOK,
           \/ \E j \in JobIds : \/ Submit(j) \/ PatchAbort(j) \/ WorkerStep(j) \/ Cancel(j)
                               \/ \E s \in Sinks : OnComplete(j, s)
           \/ \E x \in sends : Deliver(x)
           \/ \E s \in Sinks : Receive(s) \/ CloseSink(s)
           \/ UNCHANGED jobVars
    PROVE  JobTypeOK'
<1> USE SinksAssumption, SinkCapAssumption
<1>1. ASSUME NEW j \in JobIds, Submit(j)
      PROVE  JobTypeOK'
    BY <1>1 DEF JobTypeOK, Submit, Lifecycle, Statuses, Terminal
<1>2. ASSUME NEW j \in JobIds, PatchAbort(j)
      PROVE  JobTypeOK'
    BY <1>2 DEF JobTypeOK, PatchAbort, Lifecycle, Statuses, Terminal
<1>3. ASSUME NEW j \in JobIds, NEW outcome \in Terminal, Complete(j, outcome)
      PROVE  JobTypeOK'
    <2>1. CASE jobs[j].status \in Terminal
        BY <1>3, <2>1 DEF JobTypeOK, Complete
    <2>2. CASE jobs[j].status \notin Terminal
        <3> DEFINE e == [status |-> outcome, sink |-> NoSink, abort |-> FALSE]
        <3>1. j \in DOMAIN jobs /\ e \in Lifecycle /\ jobs[j].sink \in Sinks \cup {NoSink}
            BY <1>3 DEF JobTypeOK, Complete, Lifecycle, Statuses
        <3>2. jobs' = [jobs EXCEPT ![j] = e]
            BY <1>3, <2>2 DEF Complete
        <3>3. jobs' \in [DOMAIN jobs' -> Lifecycle] /\ DOMAIN jobs' = DOMAIN jobs
            BY <3>1, <3>2, EntryType DEF JobTypeOK
        <3>4. sends' \subseteq Send
            BY <1>3, <2>2, <3>1, FiringType DEF JobTypeOK, Complete, Senders
        <3> QED
            BY <1>3, <3>3, <3>4 DEF JobTypeOK, Complete
    <2> QED
        BY <2>1, <2>2
<1>4. ASSUME NEW j \in JobIds, WorkerPanic(j) \/ WorkerAborts(j)
      PROVE  JobTypeOK'
    BY <1>4 DEF JobTypeOK, WorkerPanic, WorkerAborts
<1>5. ASSUME NEW j \in JobIds, Cancel(j)
      PROVE  JobTypeOK'
    <2>1. CASE jobs[j].status \in Terminal
        BY <1>5, <2>1 DEF JobTypeOK, Cancel
    <2>2. CASE jobs[j].status \notin Terminal
        <3> DEFINE e == [status |-> "Cancelled", sink |-> NoSink, abort |-> FALSE]
        <3>1. j \in DOMAIN jobs /\ e \in Lifecycle /\ jobs[j].sink \in Sinks \cup {NoSink}
            BY <1>5 DEF JobTypeOK, Cancel, Known, Lifecycle, Statuses, Terminal
        <3>2. jobs' = [jobs EXCEPT ![j] = e]
            BY <1>5, <2>2 DEF Cancel
        <3>3. jobs' \in [DOMAIN jobs' -> Lifecycle] /\ DOMAIN jobs' = DOMAIN jobs
            BY <3>1, <3>2, EntryType DEF JobTypeOK
        <3>4. sends' \subseteq Send
            BY <1>5, <2>2, <3>1, FiringType DEF JobTypeOK, Cancel, Senders, Terminal
        <3> QED
            BY <1>5, <3>3, <3>4 DEF JobTypeOK, Cancel
    <2> QED
        BY <2>1, <2>2
<1>6. ASSUME NEW j \in JobIds, NEW s \in Sinks, OnComplete(j, s)
      PROVE  JobTypeOK'
    <2>1. <<j, s>> \in Registration
        BY DEF Registration
    <2>2. CASE jobs[j].status \in Terminal
        <3>1. sends' \subseteq Send
            BY <1>6, <2>2, FiringType DEF JobTypeOK, OnComplete, Senders
        <3> QED
            BY <1>6, <2>1, <2>2, <3>1 DEF JobTypeOK, OnComplete
    <2>3. CASE jobs[j].status \notin Terminal
        <3> DEFINE e == [jobs[j] EXCEPT !.sink = s]
        <3>1. j \in DOMAIN jobs /\ e \in Lifecycle
            BY <1>6 DEF JobTypeOK, OnComplete, Known, Lifecycle
        <3>2. jobs' = [jobs EXCEPT ![j] = e]
            BY <1>6, <2>3 DEF OnComplete
        <3>3. jobs' \in [DOMAIN jobs' -> Lifecycle] /\ DOMAIN jobs' = DOMAIN jobs
            BY <3>1, <3>2, EntryType DEF JobTypeOK
        <3> QED
            BY <1>6, <2>1, <2>3, <3>3 DEF JobTypeOK, OnComplete
    <2> QED
        BY <2>2, <2>3
<1>7. ASSUME NEW x \in sends, Deliver(x)
      PROVE  JobTypeOK'
    <2>1. /\ x.job \in JobIds /\ x.sink \in Sinks /\ x.outcome \in Terminal
          /\ <<x.job, x.sink>> \in Registration
          /\ [job |-> x.job, outcome |-> x.outcome] \in Completion
        BY <1>7 DEF JobTypeOK, Send, Completion, Registration
    <2>2. CASE x.sink \in closed
        BY <1>7, <2>2 DEF JobTypeOK, Deliver
    <2>3. CASE x.sink \notin closed
        <3> DEFINE c == [job |-> x.job, outcome |-> x.outcome]
                   q == Append(sinkQ[x.sink], c)
                   d == Append(delivered[<<x.job, x.sink>>], x.outcome)
        <3>1. q \in Seq(Completion)
            BY <2>1 DEF JobTypeOK
        <3>2. d \in Seq(Terminal)
            BY <2>1 DEF JobTypeOK
        <3>3. sinkQ' = [sinkQ EXCEPT ![x.sink] = q]
            BY <1>7, <2>3 DEF Deliver
        <3>4. delivered' = [delivered EXCEPT ![<<x.job, x.sink>>] = d]
            BY <1>7, <2>3 DEF Deliver
        <3> HIDE DEF q, d
        <3>5. sinkQ' \in [Sinks -> Seq(Completion)]
            BY <3>1, <3>3 DEF JobTypeOK
        <3>6. delivered' \in [Registration -> Seq(Terminal)]
            BY <3>2, <3>4 DEF JobTypeOK
        <3> QED
            BY <1>7, <3>5, <3>6 DEF JobTypeOK, Deliver
    <2> QED
        BY <2>2, <2>3
<1>8. ASSUME NEW s \in Sinks, Receive(s)
      PROVE  JobTypeOK'
    BY <1>8 DEF JobTypeOK, Receive
<1>9. ASSUME NEW s \in Sinks, CloseSink(s)
      PROVE  JobTypeOK'
    BY <1>9 DEF JobTypeOK, CloseSink
<1>10. CASE UNCHANGED jobVars
    BY <1>10 DEF JobTypeOK, jobVars
<1> QED
    BY <1>1, <1>2, <1>3, <1>4, <1>5, <1>6, <1>7, <1>8, <1>9, <1>10
    DEF WorkerStep

\* Every step of the manager on its own keeps its state well formed.
LEMMA TypeStep == JobTypeOK /\ [JobNext]_jobVars => JobTypeOK'
BY CallType DEF JobNext

\* LocalJobManager keeps its map, tasks, pending sends and channels well
\* formed, whatever its callers do.
THEOREM JobTypeCorrect == JobSpec => []JobTypeOK
<1>1. JobInit => JobTypeOK
    BY DEF JobInit, JobTypeOK
<1> QED
    BY <1>1, TypeStep, PTL DEF JobSpec

-----------------------------------------------------------------------------
(* Each step keeps the invariant.                                          *)

\* submit_internal's insert.
LEMMA SubmitInv ==
    ASSUME JobInv, NEW j \in JobIds, Submit(j)
    PROVE  Bookkeeping' /\ OneShot' /\ NothingLost' /\ TrueOutcome' /\ NoOrphanTask'
<1> USE SinksAssumption
<1>1. /\ \A r \in Registration : Stored(r)' <=> Stored(r)
      /\ \A r \in Registration : Pending(r)' = Pending(r)
    BY DEF Submit, Stored, Pending, Registration
<1>2. Bookkeeping'
    BY <1>1 DEF JobInv, JobTypeOK, Bookkeeping, Submit, Terminal
<1>3. OneShot'
    BY <1>1 DEF JobInv, OneShot, Submit
<1>4. NothingLost'
    BY <1>1 DEF JobInv, JobTypeOK, NothingLost, Bookkeeping, Submit
<1>5. TrueOutcome'
    BY DEF JobInv, TrueOutcome, Submit
<1>6. NoOrphanTask'
    BY DEF JobInv, JobTypeOK, NoOrphanTask, Submit, Terminal
<1> QED
    BY <1>2, <1>3, <1>4, <1>5, <1>6

\* submit_internal's patch.
LEMMA PatchAbortInv ==
    ASSUME JobInv, NEW j \in JobIds, PatchAbort(j)
    PROVE  Bookkeeping' /\ OneShot' /\ NothingLost' /\ TrueOutcome' /\ NoOrphanTask'
<1>1. /\ j \in DOMAIN jobs /\ DOMAIN jobs' = DOMAIN jobs
      /\ \A i \in DOMAIN jobs : /\ jobs'[i].status = jobs[i].status
                                /\ jobs'[i].sink = jobs[i].sink
      /\ jobs'[j].abort = TRUE
      /\ \A i \in DOMAIN jobs \ {j} : jobs'[i] = jobs[i]
    BY DEF JobInv, JobTypeOK, PatchAbort, Lifecycle
<1>2. /\ \A r \in Registration : Stored(r)' <=> Stored(r)
      /\ \A r \in Registration : Pending(r)' = Pending(r)
    BY <1>1 DEF PatchAbort, Stored, Pending
<1>3. Bookkeeping'
    BY <1>1, <1>2 DEF JobInv, JobTypeOK, Bookkeeping, PatchAbort
<1>4. OneShot'
    BY <1>2 DEF JobInv, OneShot, PatchAbort
<1>5. NothingLost'
    BY <1>1, <1>2 DEF JobInv, JobTypeOK, NothingLost, Bookkeeping, PatchAbort
<1>6. TrueOutcome'
    BY <1>1 DEF JobInv, TrueOutcome, PatchAbort
<1>7. NoOrphanTask'
    BY <1>1 DEF JobInv, JobTypeOK, NoOrphanTask, PatchAbort
<1> QED
    BY <1>3, <1>4, <1>5, <1>6, <1>7

\* The critical section that decides a job's outcome, which complete_internal
\* and cancel share: the stored sink, if any, becomes the one pending send.
LEMMA DecideInv ==
    ASSUME JobInv, NEW j \in DOMAIN jobs, jobs[j].status \notin Terminal,
           NEW outcome \in Terminal, NEW who \in Senders,
           jobs' = [jobs EXCEPT ![j] = [status |-> outcome, sink |-> NoSink, abort |-> FALSE]],
           sends' = sends \cup Firing(j, jobs[j].sink, outcome, who),
           UNCHANGED <<submitting, sinkQ, closed, registered, replaced, delivered>>
    PROVE  Bookkeeping' /\ OneShot' /\ NothingLost' /\ TrueOutcome'
<1> USE SinksAssumption
<1> DEFINE s == jobs[j].sink
           fired == [job |-> j, sink |-> s, outcome |-> outcome, by |-> who]
<1>1. /\ DOMAIN jobs' = DOMAIN jobs
      /\ jobs'[j].status = outcome /\ jobs'[j].sink = NoSink
      /\ \A i \in DOMAIN jobs \ {j} : jobs'[i] = jobs[i]
      /\ j \in JobIds /\ s \in Sinks \cup {NoSink}
    BY DEF JobInv, JobTypeOK, Lifecycle
<1>2. \A r \in Registration : Stored(r)' <=> Stored(r) /\ r[1] # j
    BY <1>1 DEF Stored, Registration
<1>3. \A x \in sends : x.job # j
    BY DEF JobInv, JobTypeOK, TrueOutcome, Send
<1>4. \A x \in sends' : x \in sends \/ (s # NoSink /\ x = fired)
    BY DEF Firing
<1>5. s # NoSink => fired \in sends'
    BY DEF Firing
<1>6. sends \subseteq sends'
    OBVIOUS
<1>7. \A r \in Registration : r[1] # j => Pending(r)' = Pending(r)
    BY <1>4, <1>6 DEF Pending
<1>8. \A r \in Registration : r[1] = j => Pending(r) = {} /\ \A x \in Pending(r)' : x = fired /\ Stored(r)
    BY <1>3, <1>4 DEF Pending, Stored
<1>9. \A r \in Registration : Stored(r) /\ r[1] = j => fired \in Pending(r)'
    BY <1>5 DEF Pending, Stored, Registration
<1>10. Bookkeeping'
    BY <1>1, <1>2, <1>7, <1>8 DEF JobInv, Bookkeeping, Terminal
<1>11. OneShot'
    BY <1>2, <1>7, <1>8 DEF JobInv, OneShot
<1>12. NothingLost'
    BY <1>1, <1>2, <1>7, <1>8, <1>9 DEF JobInv, JobTypeOK, NothingLost
<1>13. TrueOutcome'
    <2>1. \A x \in sends' : x.job \in DOMAIN jobs' /\ x.outcome = jobs'[x.job].status
        BY <1>1, <1>3, <1>4 DEF JobInv, TrueOutcome
    <2>2. ASSUME NEW r \in Registration, NEW i \in DOMAIN delivered'[r]
          PROVE  r[1] \in DOMAIN jobs' /\ delivered'[r][i] = jobs'[r[1]].status
        <3>1. r[1] \in DOMAIN jobs /\ delivered[r][i] = jobs[r[1]].status
            BY <2>2 DEF JobInv, TrueOutcome
        <3>2. delivered[r][i] \in Terminal
            BY <2>2 DEF JobInv, JobTypeOK
        <3> QED
            BY <1>1, <3>1, <3>2
    <2>3. ASSUME NEW l \in Sinks, NEW i \in DOMAIN sinkQ'[l]
          PROVE  /\ sinkQ'[l][i].job \in DOMAIN jobs'
                 /\ sinkQ'[l][i].outcome = jobs'[sinkQ'[l][i].job].status
        <3>1. /\ sinkQ[l][i].job \in DOMAIN jobs
              /\ sinkQ[l][i].outcome = jobs[sinkQ[l][i].job].status
            BY <2>3 DEF JobInv, TrueOutcome
        <3>2. sinkQ[l] \in Seq(Completion) /\ i \in DOMAIN sinkQ[l]
            BY <2>3 DEF JobInv, JobTypeOK
        <3>3. sinkQ[l][i] \in Completion
            BY <3>2
        <3>4. sinkQ[l][i].outcome \in Terminal
            BY <3>3 DEF Completion
        <3> QED
            BY <1>1, <2>3, <3>1, <3>4
    <2> QED
        BY <2>1, <2>2, <2>3 DEF TrueOutcome
<1> QED
    BY <1>10, <1>11, <1>12, <1>13

\* A job's task: complete_internal, a panic, or an abort.
LEMMA WorkerInv ==
    ASSUME JobInv, NEW j \in JobIds, WorkerStep(j)
    PROVE  Bookkeeping' /\ OneShot' /\ NothingLost' /\ TrueOutcome' /\ NoOrphanTask'
<1>1. ASSUME NEW outcome \in Terminal, Complete(j, outcome), jobs[j].status \notin Terminal
      PROVE  Bookkeeping' /\ OneShot' /\ NothingLost' /\ TrueOutcome' /\ NoOrphanTask'
    <2>1. j \in DOMAIN jobs
        BY <1>1 DEF JobInv, JobTypeOK, Complete
    <2>2. Bookkeeping' /\ OneShot' /\ NothingLost' /\ TrueOutcome'
        BY <1>1, <2>1, DecideInv DEF Complete, Senders
    <2>3. NoOrphanTask'
        BY <1>1, <2>1 DEF JobInv, JobTypeOK, NoOrphanTask, Complete
    <2> QED
        BY <2>2, <2>3
<1>2. ASSUME UNCHANGED <<jobs, submitting, sends, sinkQ, closed, registered, replaced, delivered>>,
             workers' = workers \ {j}, aborted' = aborted \ {j}
      PROVE  Bookkeeping' /\ OneShot' /\ NothingLost' /\ TrueOutcome' /\ NoOrphanTask'
    BY <1>2 DEF JobInv, Bookkeeping, OneShot, NothingLost, TrueOutcome, NoOrphanTask, Stored, Pending
<1> QED
    BY <1>1, <1>2 DEF WorkerStep, Complete, WorkerPanic, WorkerAborts

\* cancel, of a running job whose submit has returned, and so with its abort
\* handle; or of a terminal one, without effect.
LEMMA CancelInv ==
    ASSUME JobInv, NEW j \in JobIds, Cancel(j)
    PROVE  Bookkeeping' /\ OneShot' /\ NothingLost' /\ TrueOutcome' /\ NoOrphanTask'
<1>1. CASE jobs[j].status \in Terminal
    BY <1>1 DEF Cancel, JobInv, Bookkeeping, OneShot, NothingLost, TrueOutcome, NoOrphanTask,
                Stored, Pending
<1>2. CASE jobs[j].status \notin Terminal
    <2>1. j \in DOMAIN jobs \ submitting /\ jobs[j].status = "Running"
        BY <1>2 DEF JobInv, JobTypeOK, Cancel, Known, Lifecycle, Statuses
    <2>2. Bookkeeping' /\ OneShot' /\ NothingLost' /\ TrueOutcome'
        BY <1>2, <2>1, DecideInv DEF Cancel, Senders, Terminal
    <2>3. jobs[j].abort = TRUE
        BY <2>1 DEF JobInv, Bookkeeping
    <2>4. NoOrphanTask'
        BY <1>2, <2>1, <2>3 DEF JobInv, JobTypeOK, NoOrphanTask, Cancel
    <2> QED
        BY <2>2, <2>4
<1> QED
    BY <1>1, <1>2

\* on_complete with a sink not registered for this job before.
LEMMA OnCompleteInv ==
    ASSUME JobInv, NEW j \in JobIds, NEW s \in Sinks, <<j, s>> \notin registered,
           OnComplete(j, s)
    PROVE  Bookkeeping' /\ OneShot' /\ NothingLost' /\ TrueOutcome' /\ NoOrphanTask'
<1> USE SinksAssumption
<1> DEFINE new == <<j, s>>
<1>1. new \in Registration /\ registered' = registered \cup {new} /\ j \in DOMAIN jobs
    BY DEF Registration, OnComplete, Known
<1>2. ~Stored(new) /\ Pending(new) = {} /\ delivered[new] = <<>>
    BY <1>1 DEF JobInv, Bookkeeping
<1>3. CASE jobs[j].status \in Terminal
    <2> DEFINE fired == [job |-> j, sink |-> s, outcome |-> jobs[j].status, by |-> "registrant"]
    <2>1. UNCHANGED <<jobs, replaced, submitting, workers, aborted, sinkQ, closed, delivered>>
        BY <1>3 DEF OnComplete
    <2>2. sends' = sends \cup {fired}
        BY <1>3 DEF OnComplete, Firing
    <2>3. \A r \in Registration : Stored(r)' <=> Stored(r)
        BY <2>1 DEF Stored
    <2>4. \A r \in Registration : r # new => Pending(r)' = Pending(r)
        BY <2>2 DEF Pending, Registration
    <2>5. Pending(new)' = {fired}
        BY <1>2, <2>2 DEF Pending
    <2>6. Bookkeeping'
        BY <1>1, <2>1, <2>3, <2>4 DEF JobInv, Bookkeeping
    <2>7. OneShot'
        BY <1>2, <2>1, <2>3, <2>4, <2>5 DEF JobInv, OneShot
    <2>8. NothingLost'
        BY <1>1, <2>1, <2>3, <2>4, <2>5 DEF JobInv, JobTypeOK, NothingLost
    <2>9. TrueOutcome'
        BY <1>1, <2>1, <2>2 DEF JobInv, TrueOutcome
    <2>10. NoOrphanTask'
        BY <2>1 DEF JobInv, NoOrphanTask
    <2> QED
        BY <2>6, <2>7, <2>8, <2>9, <2>10
<1>4. CASE jobs[j].status \notin Terminal
    <2> DEFINE old == <<j, jobs[j].sink>>
    <2>1. /\ UNCHANGED <<submitting, workers, aborted, sends, sinkQ, closed, delivered>>
          /\ replaced' = replaced \cup ({old} \cap registered)
        BY <1>4 DEF OnComplete
    <2>2. /\ DOMAIN jobs' = DOMAIN jobs
          /\ jobs'[j].sink = s /\ jobs'[j].status = jobs[j].status /\ jobs'[j].abort = jobs[j].abort
          /\ \A i \in DOMAIN jobs \ {j} : jobs'[i] = jobs[i]
          /\ jobs[j].status = "Running"
        BY <1>1, <1>4 DEF JobInv, JobTypeOK, OnComplete, Lifecycle, Statuses
    <2>3. \A r \in Registration : Stored(r)' <=> r = new \/ (Stored(r) /\ r[1] # j)
        BY <1>1, <2>2 DEF Stored, Registration
    <2>4. \A r \in Registration : Pending(r)' = Pending(r)
        BY <2>1 DEF Pending
    <2>5. \A r \in Registration : Stored(r) /\ r[1] = j => r = old
        BY DEF Stored, Registration
    <2>6. Bookkeeping'
        BY <1>1, <2>1, <2>2, <2>3, <2>4 DEF JobInv, Bookkeeping, Terminal
    <2>7. OneShot'
        BY <1>2, <2>1, <2>3, <2>4 DEF JobInv, OneShot
    <2>8. NothingLost'
        <3> SUFFICES ASSUME NEW r \in registered' \ replaced'
                     PROVE  \/ r[2] \in closed'
                            \/ Stored(r)' /\ jobs'[r[1]].status = "Running"
                            \/ Pending(r)' # {}
                            \/ delivered'[r] # <<>>
            BY DEF NothingLost
        <3>1. CASE r = new
            BY <1>1, <2>2, <2>3, <3>1
        <3>2. CASE r # new
            <4>1. r \in registered \ replaced /\ r # old /\ r \in Registration
                BY <1>1, <2>1, <3>2 DEF JobInv, JobTypeOK
            <4> QED
                BY <1>1, <2>1, <2>2, <2>3, <2>4, <2>5, <4>1 DEF JobInv, NothingLost, Bookkeeping
        <3> QED
            BY <3>1, <3>2
    <2>9. TrueOutcome'
        BY <2>1, <2>2 DEF JobInv, TrueOutcome
    <2>10. NoOrphanTask'
        BY <2>1, <2>2 DEF JobInv, JobTypeOK, NoOrphanTask
    <2> QED
        BY <2>6, <2>7, <2>8, <2>9, <2>10
<1> QED
    BY <1>3, <1>4

\* A pending send reaches its channel, or finds it closed.
LEMMA DeliverInv ==
    ASSUME JobInv, NEW x \in sends, Deliver(x)
    PROVE  Bookkeeping' /\ OneShot' /\ NothingLost' /\ TrueOutcome' /\ NoOrphanTask'
<1> DEFINE told == <<x.job, x.sink>>
<1>1. /\ told \in Registration /\ x.sink \in Sinks /\ x.outcome \in Terminal
      /\ x \in Pending(told)
    BY DEF JobInv, JobTypeOK, Send, Registration, Pending
<1>2. /\ UNCHANGED <<jobs, submitting, workers, aborted, closed, registered, replaced>>
      /\ sends' = sends \ {x}
    BY DEF Deliver
<1>3. \A r \in Registration : Stored(r)' <=> Stored(r)
    BY <1>2 DEF Stored
<1>4. \A r \in Registration : r # told => Pending(r)' = Pending(r)
    BY <1>2 DEF Pending, Registration
<1>5. Pending(told)' = {} /\ ~Stored(told) /\ delivered[told] = <<>>
    BY <1>1, <1>2 DEF JobInv, OneShot, Pending
<1>6. NoOrphanTask'
    BY <1>2 DEF JobInv, NoOrphanTask
<1>7. CASE x.sink \in closed
    <2>1. UNCHANGED <<sinkQ, delivered>>
        BY <1>7 DEF Deliver
    <2>2. Bookkeeping'
        BY <1>2, <1>3, <1>4, <1>5, <2>1 DEF JobInv, Bookkeeping
    <2>3. OneShot'
        BY <1>2, <1>3, <1>4, <1>5, <2>1 DEF JobInv, OneShot
    <2>4. NothingLost'
        BY <1>2, <1>3, <1>4, <1>7, <2>1 DEF JobInv, JobTypeOK, NothingLost
    <2>5. TrueOutcome'
        BY <1>2, <2>1 DEF JobInv, TrueOutcome
    <2> QED
        BY <1>6, <2>2, <2>3, <2>4, <2>5
<1>8. CASE x.sink \notin closed
    <2> DEFINE c == [job |-> x.job, outcome |-> x.outcome]
    <2>1. /\ delivered'[told] = <<x.outcome>>
          /\ \A r \in Registration \ {told} : delivered'[r] = delivered[r]
        <3>1. Append(delivered[told], x.outcome) = <<x.outcome>>
            BY <1>1, <1>5
        <3>2. delivered' = [delivered EXCEPT ![told] = <<x.outcome>>]
            BY <1>8, <3>1 DEF Deliver
        <3>3. delivered \in [Registration -> Seq(Terminal)]
            BY DEF JobInv, JobTypeOK
        <3> HIDE DEF told
        <3> QED
            BY <1>1, <3>2, <3>3
    <2>2. sinkQ' = [sinkQ EXCEPT ![x.sink] = Append(sinkQ[x.sink], c)]
        BY <1>8 DEF Deliver
    <2>3. /\ sinkQ'[x.sink] = Append(sinkQ[x.sink], c)
          /\ \A l \in Sinks \ {x.sink} : sinkQ'[l] = sinkQ[l]
        BY <1>1, <2>2 DEF JobInv, JobTypeOK
    <2>4. Bookkeeping'
        BY <1>1, <1>2, <1>3, <1>4, <2>1 DEF JobInv, Bookkeeping
    <2>5. OneShot'
        BY <1>2, <1>3, <1>4, <1>5, <2>1 DEF JobInv, OneShot
    <2>6. NothingLost'
        <3> HIDE DEF told
        <3>1. delivered'[told] # <<>>
            BY <2>1
        <3> QED
            BY <1>2, <1>3, <1>4, <2>1, <3>1 DEF JobInv, JobTypeOK, NothingLost
    <2>7. x.job \in DOMAIN jobs /\ x.outcome = jobs[x.job].status
        BY DEF JobInv, TrueOutcome
    <2>8. TrueOutcome'
        <3>1. \A y \in sends' : y.job \in DOMAIN jobs' /\ y.outcome = jobs'[y.job].status
            BY <1>2 DEF JobInv, TrueOutcome
        <3>2. \A r \in Registration : \A i \in DOMAIN delivered'[r] :
                 r[1] \in DOMAIN jobs' /\ delivered'[r][i] = jobs'[r[1]].status
            BY <1>2, <2>1, <2>7 DEF JobInv, TrueOutcome
        <3>3. ASSUME NEW l \in Sinks, NEW i \in DOMAIN sinkQ'[l]
              PROVE  /\ sinkQ'[l][i].job \in DOMAIN jobs'
                     /\ sinkQ'[l][i].outcome = jobs'[sinkQ'[l][i].job].status
            <4>1. CASE l # x.sink
                BY <1>2, <2>3, <4>1, <3>3 DEF JobInv, TrueOutcome
            <4>2. CASE l = x.sink
                <5>1. sinkQ[l] \in Seq(Completion) /\ c \in Completion
                    BY <1>1 DEF JobInv, JobTypeOK, Completion, Send
                <5>2. sinkQ'[l][i] = c \/ (i \in DOMAIN sinkQ[l] /\ sinkQ'[l][i] = sinkQ[l][i])
                    <6>1. sinkQ'[l] = Append(sinkQ[l], c)
                        BY <2>3, <4>2
                    <6> HIDE DEF c
                    <6> QED
                        BY <3>3, <5>1, <6>1
                <5> QED
                    BY <1>2, <2>7, <5>2 DEF JobInv, TrueOutcome
            <4> QED
                BY <4>1, <4>2
        <3> QED
            BY <3>1, <3>2, <3>3 DEF TrueOutcome
    <2> QED
        BY <1>6, <2>4, <2>5, <2>6, <2>8
<1> QED
    BY <1>7, <1>8

\* The actor's end of a channel: a completion is received, or the channel is
\* dropped with what is in it.
LEMMA ReceiverInv ==
    ASSUME JobInv, NEW s \in Sinks, Receive(s) \/ CloseSink(s)
    PROVE  Bookkeeping' /\ OneShot' /\ NothingLost' /\ TrueOutcome' /\ NoOrphanTask'
<1>1. /\ UNCHANGED <<jobs, submitting, workers, aborted, sends, registered, replaced, delivered>>
      /\ closed \subseteq closed'
    BY DEF Receive, CloseSink
<1>2. Bookkeeping' /\ OneShot' /\ NothingLost' /\ NoOrphanTask'
    BY <1>1 DEF JobInv, Bookkeeping, OneShot, NothingLost, NoOrphanTask, Stored, Pending
<1>3. ASSUME NEW l \in Sinks, NEW i \in DOMAIN sinkQ'[l]
      PROVE  \E k \in DOMAIN sinkQ[l] : sinkQ'[l][i] = sinkQ[l][k]
    <2>1. sinkQ \in [Sinks -> Seq(Completion)]
        BY DEF JobInv, JobTypeOK
    <2>2. CASE l # s
        BY <1>3, <2>1, <2>2 DEF Receive, CloseSink
    <2>3. CASE l = s /\ Receive(s)
        <3>1. sinkQ[l] \in Seq(Completion) /\ sinkQ[l] # <<>> /\ sinkQ'[l] = Tail(sinkQ[l])
            BY <2>1, <2>3 DEF Receive
        <3>2. i + 1 \in DOMAIN sinkQ[l] /\ sinkQ'[l][i] = sinkQ[l][i + 1]
            BY <1>3, <3>1
        <3> QED
            BY <3>2
    <2>4. CASE l = s /\ CloseSink(s)
        BY <1>3, <2>1, <2>4 DEF CloseSink
    <2> QED
        BY <2>2, <2>3, <2>4
<1>4. TrueOutcome'
    BY <1>1, <1>3 DEF JobInv, TrueOutcome
<1> QED
    BY <1>2, <1>4

-----------------------------------------------------------------------------

LEMMA InvInit == JobInit => JobInv
<1> SUFFICES ASSUME JobInit
             PROVE  JobInv
    OBVIOUS
<1>1. JobTypeOK
    BY DEF JobInit, JobTypeOK
<1>2. Bookkeeping /\ OneShot /\ NothingLost /\ TrueOutcome /\ NoOrphanTask
    BY DEF JobInit, Bookkeeping, OneShot, NothingLost, TrueOutcome, NoOrphanTask, Stored, Pending
<1> QED
    BY <1>1, <1>2 DEF JobInv

\* The invariant is inductive.
LEMMA InvStep == JobInv /\ [JobNext]_jobVars => JobInv'
<1> SUFFICES ASSUME JobInv, [JobNext]_jobVars
             PROVE  JobInv'
    OBVIOUS
<1>1. JobTypeOK'
    BY TypeStep DEF JobInv
<1> DEFINE Kept == Bookkeeping' /\ OneShot' /\ NothingLost' /\ TrueOutcome' /\ NoOrphanTask'
<1>2. ASSUME NEW j \in JobIds,
             \/ Submit(j) \/ PatchAbort(j) \/ WorkerStep(j) \/ Cancel(j)
             \/ \E s \in Sinks \ closed : <<j, s>> \notin registered /\ OnComplete(j, s)
      PROVE  Kept
    BY <1>2, SubmitInv, PatchAbortInv, WorkerInv, CancelInv, OnCompleteInv
<1>3. ASSUME NEW x \in sends, Deliver(x)
      PROVE  Kept
    BY <1>3, DeliverInv
<1>4. ASSUME NEW s \in Sinks, Receive(s) \/ CloseSink(s)
      PROVE  Kept
    BY <1>4, ReceiverInv
<1>5. ASSUME UNCHANGED jobVars
      PROVE  Kept
    <2>1. Bookkeeping' /\ OneShot' /\ NothingLost'
        BY <1>5 DEF jobVars, JobInv, Bookkeeping, OneShot, NothingLost, Stored, Pending
    <2>2. TrueOutcome' /\ NoOrphanTask'
        BY <1>5 DEF jobVars, JobInv, TrueOutcome, NoOrphanTask
    <2> QED
        BY <2>1, <2>2
<1>6. Kept
    <2> HIDE DEF Kept
    <2> QED
        BY <1>2, <1>3, <1>4, <1>5 DEF JobNext
<1> QED
    BY <1>1, <1>6 DEF JobInv

LEMMA InvAlways == JobSpec => []JobInv
    BY InvInit, InvStep, PTL DEF JobSpec

\* Every registered sink is told at most once, over all interleavings of
\* complete_internal, cancel and on_complete.
THEOREM JobOneShot == JobSpec => []OneShot
<1>1. JobInv => OneShot
    BY DEF JobInv
<1> QED
    BY <1>1, InvAlways, PTL

\* A registration that was not replaced is stored, on its way, told, or its
\* receiver is gone: none is lost.
THEOREM JobNothingLost == JobSpec => []NothingLost
<1>1. JobInv => NothingLost
    BY DEF JobInv
<1> QED
    BY <1>1, InvAlways, PTL

\* What a sink is told is the outcome the manager reports.
THEOREM JobTrueOutcome == JobSpec => []TrueOutcome
<1>1. JobInv => TrueOutcome
    BY DEF JobInv
<1> QED
    BY <1>1, InvAlways, PTL

\* cancel never misses the abort handle of a task that is still alive.
THEOREM JobNoOrphanTask == JobSpec => []NoOrphanTask
<1>1. JobInv => NoOrphanTask
    BY DEF JobInv
<1> QED
    BY <1>1, InvAlways, PTL

\* A decided outcome is final over every step, late completions and second
\* cancels included.
THEOREM JobOutcomeFinal == JobSpec => OutcomeFinal
<1> DEFINE Final ==
        \A j \in DOMAIN jobs :
            jobs[j].status \in Terminal =>
                j \in DOMAIN jobs' /\ jobs'[j].status = jobs[j].status
<1>1. ASSUME JobTypeOK, [JobNext]_jobVars
      PROVE  Final
    <2>1. ASSUME NEW i \in JobIds,
                 \/ Submit(i) \/ PatchAbort(i) \/ WorkerStep(i) \/ Cancel(i)
                 \/ \E s \in Sinks \ closed : <<i, s>> \notin registered /\ OnComplete(i, s)
          PROVE  Final
        <3> SUFFICES ASSUME NEW j \in DOMAIN jobs, jobs[j].status \in Terminal
                     PROVE  j \in DOMAIN jobs' /\ jobs'[j].status = jobs[j].status
            OBVIOUS
        <3>1. jobs \in [DOMAIN jobs -> Lifecycle]
            BY <1>1 DEF JobTypeOK
        <3>2. CASE Submit(i)
            BY <3>1, <3>2 DEF Submit
        <3>3. CASE PatchAbort(i)
            BY <3>1, <3>3 DEF PatchAbort, Lifecycle
        <3>4. CASE WorkerStep(i)
            BY <3>1, <3>4 DEF WorkerStep, Complete, WorkerPanic, WorkerAborts
        <3>5. CASE Cancel(i)
            BY <3>1, <3>5 DEF Cancel
        <3>6. ASSUME NEW s \in Sinks, OnComplete(i, s)
              PROVE  j \in DOMAIN jobs' /\ jobs'[j].status = jobs[j].status
            BY <3>1, <3>6 DEF OnComplete, Lifecycle
        <3> QED
            BY <2>1, <3>2, <3>3, <3>4, <3>5, <3>6
    <2>2. ASSUME UNCHANGED jobs
          PROVE  Final
        BY <2>2
    <2>3. ASSUME \/ \E x \in sends : Deliver(x)
                 \/ \E s \in Sinks : Receive(s) \/ CloseSink(s)
                 \/ UNCHANGED jobVars
          PROVE  UNCHANGED jobs
        BY <2>3 DEF Deliver, Receive, CloseSink, jobVars
    <2> QED
        <3> HIDE DEF Final
        <3> QED
            BY <1>1, <2>1, <2>2, <2>3 DEF JobNext
<1> QED
    BY <1>1, JobTypeCorrect, PTL DEF JobSpec, OutcomeFinal

-----------------------------------------------------------------------------
(* The manager implements OneShotCompletion, the contract of the            *)
(* JobManager trait.  A job's outcome is read off the map, a registration's *)
(* notice off the map, the pending sends and what was delivered.  Every step *)
(* maps to a step of the contract or to a stutter: the lemmas below take one *)
(* critical section each.                                                  *)

\* A registration that the manager still has to tell.
Owed(r) == Stored(r) \/ Pending(r) # {}

\* The outcome changes only with a job's entry.
LEMMA SameOutcome ==
    ASSUME DOMAIN jobs' = DOMAIN jobs,
           \A j \in DOMAIN jobs : jobs'[j].status = jobs[j].status
    PROVE  OutcomeOf' = OutcomeOf
BY DEF OutcomeOf

\* A notice changes only with the registrations, the deliveries, or what is owed.
LEMMA SameNotice ==
    ASSUME registered' = registered, delivered' = delivered,
           \A r \in Registration : Owed(r)' <=> Owed(r)
    PROVE  NoticeOf' = NoticeOf
BY DEF NoticeOf, Owed

\* No job is known at first and no sink registered.
LEMMA ContractInit == JobInit => Contract!Init
BY DEF JobInit, Contract!Init, OutcomeOf, NoticeOf, Registration

\* submit_internal's insert begins a job.
LEMMA SubmitBegins ==
    ASSUME JobInv, NEW j \in JobIds, Submit(j)
    PROVE  Contract!Begin(j)
<1> USE SinksAssumption
<1>1. \A r \in Registration : Owed(r)' <=> Owed(r)
    BY DEF Submit, Owed, Stored, Pending, Registration
<1>2. NoticeOf' = NoticeOf
    BY <1>1, SameNotice DEF Submit
<1>3. OutcomeOf[j] = "absent" /\ OutcomeOf' = [OutcomeOf EXCEPT ![j] = "open"]
    BY DEF Submit, OutcomeOf
<1> QED
    BY <1>2, <1>3 DEF Contract!Begin

\* A running job's entry becomes terminal and its sink, if any, is on its way:
\* the outcome is decided, and what was owed stays owed.
LEMMA DecideDecides ==
    ASSUME JobInv, NEW j \in DOMAIN jobs, NEW outcome \in Terminal, NEW who \in Senders,
           jobs[j].status = "Running",
           jobs' = [jobs EXCEPT ![j] = [status |-> outcome, sink |-> NoSink, abort |-> FALSE]],
           sends' = sends \cup Firing(j, jobs[j].sink, outcome, who),
           UNCHANGED <<registered, delivered>>
    PROVE  Contract!Decide(j, outcome)
<1> USE SinksAssumption
<1>1. /\ j \in JobIds /\ DOMAIN jobs' = DOMAIN jobs
      /\ jobs'[j].status = outcome /\ jobs'[j].sink = NoSink
      /\ \A i \in DOMAIN jobs \ {j} : jobs'[i] = jobs[i]
    BY DEF JobInv, JobTypeOK
<1>2. ASSUME NEW r \in Registration
      PROVE  Owed(r)' <=> Owed(r)
    <2>1. r[1] \in JobIds /\ r[2] \in Sinks /\ r[2] # NoSink
        BY DEF Registration
    <2>2. CASE r[1] # j
        BY <1>1, <2>1, <2>2 DEF Owed, Stored, Pending, Firing
    <2>3. CASE r[1] = j /\ r[2] = jobs[j].sink
        <3> DEFINE x == [job |-> j, sink |-> jobs[j].sink, outcome |-> outcome, by |-> who]
        <3>1. x \in sends'
            BY <2>1, <2>3 DEF Firing
        <3>2. x \in Pending(r)'
            BY <2>3, <3>1 DEF Pending
        <3> QED
            BY <2>3, <3>2 DEF Owed, Stored
    <2>4. CASE r[1] = j /\ r[2] # jobs[j].sink
        <3>1. Pending(r)' = Pending(r)
            BY <2>4 DEF Pending, Firing
        <3> QED
            BY <1>1, <2>1, <2>4, <3>1 DEF Owed, Stored
    <2> QED
        BY <2>2, <2>3, <2>4
<1>3. NoticeOf' = NoticeOf
    BY <1>2, SameNotice
<1>4. OutcomeOf[j] = "open" /\ OutcomeOf' = [OutcomeOf EXCEPT ![j] = outcome]
    BY <1>1 DEF OutcomeOf, Terminal
<1> QED
    BY <1>3, <1>4 DEF Contract!Decide

\* The steps of the manager that the contract does not see: the abort handle is
\* patched in, a task ends without reporting, a job that is terminal is completed
\* or cancelled again, an actor receives or goes away.
LEMMA Unseen ==
    ASSUME JobInv, DOMAIN jobs' = DOMAIN jobs,
           \A j \in DOMAIN jobs : jobs'[j].status = jobs[j].status /\ jobs'[j].sink = jobs[j].sink,
           UNCHANGED <<sends, registered, delivered>>
    PROVE  UNCHANGED Contract!vars
<1>1. \A r \in Registration : Owed(r)' <=> Owed(r)
    BY DEF Owed, Stored, Pending
<1> QED
    BY <1>1, SameOutcome, SameNotice DEF Contract!vars

\* on_complete registers; on a running job it pushes out the sink stored before.
LEMMA OnCompleteRegisters ==
    ASSUME JobInv, NEW j \in JobIds, NEW s \in Sinks, <<j, s>> \notin registered,
           OnComplete(j, s)
    PROVE  \E out \in SUBSET (Sinks \ {s}) : Contract!Register(j, s, out)
<1> USE SinksAssumption
<1> DEFINE new == <<j, s>>
           out == IF jobs[j].status \in Terminal THEN {} ELSE {jobs[j].sink} \cap Sinks
           owedNow == [r \in Registration |->
                          IF r = new THEN "owed"
                          ELSE IF r[1] = j /\ r[2] \in out THEN "dropped"
                          ELSE NoticeOf[r]]
<1>1. /\ new \in Registration /\ registered' = registered \cup {new} /\ j \in DOMAIN jobs
      /\ delivered' = delivered
    BY DEF Registration, OnComplete, Known
<1>2. ~Stored(new) /\ Pending(new) = {} /\ delivered[new] = <<>>
    BY <1>1 DEF JobInv, Bookkeeping
<1>3. jobs[j].sink # s /\ out \in SUBSET (Sinks \ {s})
    BY <1>1, <1>2 DEF Stored
<1>4. OutcomeOf[j] # "absent" /\ (out # {} => OutcomeOf[j] = "open")
    BY <1>1 DEF OutcomeOf, Terminal, JobInv, JobTypeOK, Lifecycle, Statuses
<1>5. NoticeOf[<<j, s>>] = "none"
    BY <1>1 DEF NoticeOf
<1>6. \A l \in out : NoticeOf[<<j, l>>] = "owed"
    <2> SUFFICES ASSUME NEW l \in out
                 PROVE  NoticeOf[<<j, l>>] = "owed"
        OBVIOUS
    <2>1. <<j, l>> \in Registration /\ Stored(<<j, l>>)
        BY <1>1 DEF Registration, Stored
    <2>2. <<j, l>> \in registered /\ delivered[<<j, l>>] = <<>>
        BY <2>1 DEF JobInv, Bookkeeping, OneShot
    <2> QED
        BY <2>1, <2>2 DEF NoticeOf
<1>7. OutcomeOf' = OutcomeOf
    <2>1. CASE jobs[j].status \in Terminal
        BY <2>1, SameOutcome DEF OnComplete
    <2>2. CASE jobs[j].status \notin Terminal
        <3>1. jobs \in [DOMAIN jobs -> Lifecycle] /\ jobs' = [jobs EXCEPT ![j].sink = s]
            BY <2>2 DEF OnComplete, JobInv, JobTypeOK
        <3>2. DOMAIN jobs' = DOMAIN jobs /\ \A i \in DOMAIN jobs : jobs'[i].status = jobs[i].status
            BY <1>1, <3>1 DEF Lifecycle
        <3> QED
            BY <3>2, SameOutcome
    <2> QED
        BY <2>1, <2>2
<1>8. NoticeOf' = owedNow
    <2> SUFFICES ASSUME NEW r \in Registration
                 PROVE  NoticeOf'[r] = owedNow[r]
        BY DEF NoticeOf
    <2>1. CASE r = new
        <3>1. Owed(r)'
            <4>1. CASE jobs[j].status \in Terminal
                <5> DEFINE x == [job |-> j, sink |-> s, outcome |-> jobs[j].status,
                                 by |-> "registrant"]
                <5>1. x \in sends'
                    BY <4>1 DEF OnComplete, Firing
                <5>2. x \in Pending(r)'
                    BY <2>1, <5>1 DEF Pending
                <5> QED
                    BY <5>2 DEF Owed
            <4>2. CASE jobs[j].status \notin Terminal
                BY <1>1, <2>1, <4>2 DEF OnComplete, Owed, Stored, JobInv, JobTypeOK, Lifecycle
            <4> QED
                BY <4>1, <4>2
        <3> QED
            BY <1>1, <1>2, <2>1, <3>1 DEF NoticeOf, Owed
    <2>2. CASE r # new /\ r[1] = j /\ r[2] \in out
        <3>1. jobs[j].status \notin Terminal /\ r[2] = jobs[j].sink /\ Stored(r)
            BY <1>1, <2>2 DEF Stored
        <3>2. r \in registered /\ delivered[r] = <<>> /\ Pending(r) = {}
            BY <3>1 DEF JobInv, Bookkeeping, OneShot
        <3>3. ~Stored(r)' /\ Pending(r)' = {}
            BY <1>1, <1>3, <2>2, <3>1, <3>2
            DEF OnComplete, Stored, Pending, JobInv, JobTypeOK, Lifecycle
        <3> QED
            BY <1>1, <2>2, <3>2, <3>3 DEF NoticeOf
    <2>3. CASE r # new /\ ~(r[1] = j /\ r[2] \in out)
        <3>1. r[1] \in JobIds /\ r[2] \in Sinks /\ (r[1] # j \/ r[2] # s)
            BY <2>3 DEF Registration
        <3>2. Pending(r)' = Pending(r)
            BY <3>1 DEF OnComplete, Pending, Firing
        <3>3. Stored(r)' <=> Stored(r)
            BY <1>1, <2>3, <3>1 DEF OnComplete, Stored, JobInv, JobTypeOK, Lifecycle
        <3> QED
            BY <1>1, <2>3, <3>2, <3>3 DEF NoticeOf
    <2> QED
        BY <2>1, <2>2, <2>3
<1> HIDE DEF out
<1>9. Contract!Register(j, s, out)
    BY <1>4, <1>5, <1>6, <1>7, <1>8 DEF Contract!Register, Registration
<1> QED
    BY <1>3, <1>9

\* A send tells its sink the decided outcome; on a closed channel it gives up.
LEMMA DeliverTells ==
    ASSUME JobInv, NEW x \in sends, Deliver(x)
    PROVE  Contract!Tell(x.job, x.sink) \/ Contract!GiveUp(x.job, x.sink)
<1> DEFINE told == <<x.job, x.sink>>
<1>1. /\ told \in Registration /\ x \in Pending(told)
      /\ x.job \in DOMAIN jobs /\ x.outcome \in Terminal /\ x.outcome = jobs[x.job].status
    BY DEF JobInv, JobTypeOK, TrueOutcome, Send, Registration, Pending
<1>2. /\ UNCHANGED <<jobs, registered>>
      /\ sends' = sends \ {x}
    BY DEF Deliver
<1>3. told \in registered /\ ~Stored(told) /\ delivered[told] = <<>>
    BY <1>1 DEF JobInv, Bookkeeping, OneShot
<1>4. NoticeOf[told] = "owed"
    BY <1>1, <1>3 DEF NoticeOf
<1>5. OutcomeOf[x.job] = x.outcome /\ OutcomeOf' = OutcomeOf
    BY <1>1, <1>2 DEF OutcomeOf, Terminal, JobInv, JobTypeOK
<1>6. Pending(told)' = {} /\ \A r \in Registration \ {told} : Pending(r)' = Pending(r)
    BY <1>1, <1>2 DEF JobInv, OneShot, Pending, Registration
<1>7. \A r \in Registration : Stored(r)' <=> Stored(r)
    BY <1>2 DEF Stored
<1>8. CASE x.sink \in closed
    <2>1. delivered' = delivered
        BY <1>8 DEF Deliver
    <2>2. NoticeOf' = [NoticeOf EXCEPT ![told] = "dropped"]
        BY <1>1, <1>2, <1>3, <1>6, <1>7, <2>1 DEF NoticeOf
    <2> QED
        BY <1>1, <1>4, <1>5, <2>2 DEF Contract!GiveUp
<1>9. CASE x.sink \notin closed
    <2>1. /\ delivered'[told] = <<x.outcome>>
          /\ \A r \in Registration \ {told} : delivered'[r] = delivered[r]
        <3>1. Append(delivered[told], x.outcome) = <<x.outcome>>
            BY <1>1, <1>3
        <3>2. delivered' = [delivered EXCEPT ![told] = <<x.outcome>>]
            BY <1>9, <3>1 DEF Deliver
        <3>3. delivered \in [Registration -> Seq(Terminal)]
            BY DEF JobInv, JobTypeOK
        <3> HIDE DEF told
        <3> QED
            BY <1>1, <3>2, <3>3
    <2>2. NoticeOf'[told] = x.outcome
        BY <1>1, <1>2, <1>3, <2>1 DEF NoticeOf
    <2>3. \A r \in Registration \ {told} : NoticeOf'[r] = NoticeOf[r]
        BY <1>2, <1>6, <1>7, <2>1 DEF NoticeOf
    <2>4. NoticeOf' = [NoticeOf EXCEPT ![told] = x.outcome]
        BY <1>1, <2>2, <2>3 DEF NoticeOf
    <2> QED
        BY <1>1, <1>4, <1>5, <2>4 DEF Contract!Tell
<1> QED
    BY <1>8, <1>9

\* Every step of the manager is a step of the contract or leaves it as it is.
LEMMA ContractStep == JobInv /\ [JobNext]_jobVars => [Contract!Next]_Contract!vars
<1> SUFFICES ASSUME JobInv, [JobNext]_jobVars
             PROVE  Contract!Next \/ UNCHANGED Contract!vars
    OBVIOUS
<1>1. ASSUME NEW j \in JobIds, Submit(j)
      PROVE  Contract!Next
    BY <1>1, SubmitBegins DEF Contract!Next
<1>2. ASSUME NEW j \in JobIds, PatchAbort(j)
      PROVE  UNCHANGED Contract!vars
    BY <1>2, Unseen DEF PatchAbort, JobInv, JobTypeOK, Lifecycle
<1>3. ASSUME NEW j \in JobIds, NEW outcome \in Terminal, Complete(j, outcome)
      PROVE  Contract!Next \/ UNCHANGED Contract!vars
    <2>1. CASE jobs[j].status \in Terminal
        BY <1>3, <2>1, Unseen DEF Complete
    <2>2. CASE jobs[j].status \notin Terminal
        <3>1. j \in DOMAIN jobs /\ jobs[j].status = "Running"
            BY <1>3, <2>2 DEF Complete, JobInv, JobTypeOK, Lifecycle, Statuses
        <3>2. Contract!Decide(j, outcome)
            BY <1>3, <2>2, <3>1, DecideDecides DEF Complete, Senders
        <3> QED
            BY <3>2 DEF Contract!Next
    <2> QED
        BY <2>1, <2>2
<1>4. ASSUME NEW j \in JobIds, WorkerPanic(j) \/ WorkerAborts(j)
      PROVE  UNCHANGED Contract!vars
    BY <1>4, Unseen DEF WorkerPanic, WorkerAborts
<1>5. ASSUME NEW j \in JobIds, Cancel(j)
      PROVE  Contract!Next \/ UNCHANGED Contract!vars
    <2>1. CASE jobs[j].status \in Terminal
        BY <1>5, <2>1, Unseen DEF Cancel
    <2>2. CASE jobs[j].status \notin Terminal
        <3>1. j \in DOMAIN jobs /\ jobs[j].status = "Running"
            BY <1>5, <2>2 DEF Cancel, Known, JobInv, JobTypeOK, Lifecycle, Statuses
        <3>2. Contract!Decide(j, "Cancelled")
            BY <1>5, <2>2, <3>1, DecideDecides DEF Cancel, Senders, Terminal
        <3> QED
            BY <3>2 DEF Contract!Next, Terminal
    <2> QED
        BY <2>1, <2>2
<1>6. ASSUME NEW j \in JobIds, NEW s \in Sinks, <<j, s>> \notin registered, OnComplete(j, s)
      PROVE  Contract!Next
    BY <1>6, OnCompleteRegisters DEF Contract!Next
<1>7. ASSUME NEW x \in sends, Deliver(x)
      PROVE  Contract!Next
    BY <1>7, DeliverTells DEF Contract!Next, JobInv, JobTypeOK, Send
<1>8. ASSUME NEW s \in Sinks, Receive(s) \/ CloseSink(s)
      PROVE  UNCHANGED Contract!vars
    BY <1>8, Unseen DEF Receive, CloseSink
<1>9. ASSUME UNCHANGED jobVars
      PROVE  UNCHANGED Contract!vars
    BY <1>9, Unseen DEF jobVars
<1> QED
    BY <1>1, <1>2, <1>3, <1>4, <1>5, <1>6, <1>7, <1>8, <1>9 DEF JobNext, WorkerStep

\* LocalJobManager implements the one-shot contract of the JobManager trait:
\* an outcome is decided once, a registered sink is told that outcome at most
\* once and only after it is decided, and is given up only when replaced on a
\* running job or when its receiver is gone.
THEOREM JobImplementsContract == JobSpec => ImplementsContract
<1>1. JobInit => Contract!Init
    BY ContractInit
<1>2. JobInv /\ [JobNext]_jobVars => [Contract!Next]_Contract!vars
    BY ContractStep
<1> QED
    BY <1>1, <1>2, InvAlways, PTL DEF JobSpec, ImplementsContract, Contract!Spec
=============================================================================
