------------------------------- MODULE Resume -------------------------------
(***************************************************************************)
(* H03, the Resume Coordinator (cogito-core/src/harness/resume.rs): a pure  *)
(* function from a persisted log to the point at which a new Brain          *)
(* instance takes the session up.                                           *)
(***************************************************************************)
EXTENDS EventLog

\* The decision.  pending holds the calls to dispatch again, as records
\* [id, ok]; job and call belong to the two paused-job points.  Malformed is
\* ResumeError::Malformed.
Decision(point, turn, pending, job, call) ==
    [point |-> point, turn |-> turn, pending |-> pending, job |-> job, call |-> call]

Fresh     == Decision("FreshTurn", None, <<>>, None, None)
Malformed == Decision("Malformed", None, <<>>, None, None)

\* Mutant: only TurnCompleted closes a turn.
NestedUnlessCompleted(log) ==
    \E i, j \in Positions(log, {"TurnStarted"}) :
        /\ i < j
        /\ \A k \in Positions(log, {"TurnCompleted"}) : k < i \/ j < k

\* check_no_nested_turn_started: a turn is opened inside one that is neither
\* completed nor failed.  TurnPaused closes nothing.
NestedTurnStarted(log) ==
    \E i, j \in Positions(log, {"TurnStarted"}) :
        /\ i < j
        /\ \A k \in Positions(log, {"TurnCompleted", "TurnFailed"}) : k < i \/ j < k

\* replay, step 2: the log ends in the completion of a job nobody paused on.
StrayJobCompletion(log) ==
    /\ log # <<>>
    /\ log[Len(log)].type = "JobCompletedRecorded"
    /\ \A i \in Positions(log, {"TurnPaused"}) : log[i].job # log[Len(log)].job

\* Mutant: the completion of the job is not looked for.
ResumePausedAlways(log, b) ==
    Decision("ResumePausedJob", log[b].turn, <<>>, log[b].job, LookupCallId(log, log[b].job))

\* resume_from_turn_paused: b is the position of the TurnPaused.
ResumeFromTurnPaused(log, b) ==
    LET t    == log[b].turn
        j    == log[b].job
        done == {i \in Positions(log, {"JobCompletedRecorded"}) : i > b /\ log[i].job = j}
        call == LookupCallId(log, j)
    IN  IF done = {} THEN Decision("ResumePausedJob", t, <<>>, j, call)
        ELSE IF call = None THEN Malformed
        ELSE Decision("ResumeAfterJobCompletion", t, <<>>, j, call)

\* The tool calls of the last model call after position b.
CallsAfter(log, b) ==
    LET started == Latest({i \in Positions(log, {"ModelCallStarted"}) : i > b})
    IN  {i \in Positions(log, {"ToolUseRecorded"}) : i > started}

\* Mutant: no call is dispatched again.
ResumeNoCalls(log, b) ==
    LET calls == CallsAfter(log, b)
    IN  IF calls = {} THEN Decision("RestartCurrentTurn", log[b].turn, <<>>, None, None)
        ELSE Decision("ResumeFromToolDispatching", log[b].turn, <<>>, None, None)

\* resume_from_turn_started: b is the position of the TurnStarted.  The tool
\* calls sit between the last ModelCallStarted and its ModelCallCompleted,
\* their results after it.
ResumeFromTurnStarted(log, b) ==
    LET t         == log[b].turn
        started   == Latest({i \in Positions(log, {"ModelCallStarted"}) : i > b})
        completed == Latest({i \in Positions(log, {"ModelCallCompleted"}) : i > b})
        results   == {log[i].key : i \in {k \in Positions(log, {"ToolResultRecorded"}) : k > completed}}
        unanswered == InOrder({i \in Positions(log, {"ToolUseRecorded"}) :
                                  started < i /\ i < completed /\ log[i].key \notin results})
        pending   == [n \in DOMAIN unanswered |->
                         [id |-> log[unanswered[n]].key, ok |-> log[unanswered[n]].info = "valid"]]
    IN  IF started = 0 \/ started > completed
        THEN Decision("RestartCurrentTurn", t, <<>>, None, None)
        ELSE IF pending = <<>> /\ results = {}
        THEN IF log[completed].info = "ToolUse"
             THEN Malformed
             ELSE Decision("ResumeFromModelCompleted", t, <<>>, None, None)
        ELSE Decision("ResumeFromToolDispatching", t, pending, None, None)

Boundaries == {"TurnStarted", "TurnCompleted", "TurnFailed", "TurnPaused"}

\* replay: decided by the latest turn boundary.
Replay(log) ==
    LET b == Latest(Positions(log, Boundaries))
    IN  IF StrayJobCompletion(log) \/ NestedTurnStarted(log) THEN Malformed
        ELSE IF b = 0 \/ log[b].type \in {"TurnCompleted", "TurnFailed"} THEN Fresh
        ELSE IF log[b].type = "TurnPaused" THEN ResumeFromTurnPaused(log, b)
        ELSE ResumeFromTurnStarted(log, b)
=============================================================================
