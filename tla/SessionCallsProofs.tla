-------------------------- MODULE SessionCallsProofs --------------------------
(***************************************************************************)
(* Tool calls and the jobs they become, over every interleaving of the turn *)
(* tasks, the actor, the jobs and the crashes: no call is answered twice,   *)
(* the events of an async call keep their order, and a call is answered     *)
(* before its turn's next model call, or dropped behind a job.  None needs  *)
(* a bound on how soon a job ends: the theorems hold with FastJobs too.     *)
(* Last, where a job ends only after its turn is parked (~FastJobs), a log  *)
(* that no restart gave a turn up in can be taken up wherever it is cut.    *)
(*                                                                         *)
(* A call that has neither a result nor a pause in the log is free, and it  *)
(* belongs to its turn; whoever holds the turn may answer or pause it, and  *)
(* the turn is held by one at a time (SessionProofs).  A paused call is     *)
(* answered only after its job's completion is in the log, which is written *)
(* once.  A restart takes the free calls from the log: it reads positions,  *)
(* not turns, so it rests on turns being written one after the other.       *)
(* What a task holds is then all that its turn has open, in the order the   *)
(* calls were made: when it holds none, the model may be called again.      *)
(***************************************************************************)
EXTENDS SessionProofs

Uses(lg)        == Positions(lg, {"ToolUseRecorded"})
Answers(lg)     == Positions(lg, {"ToolResultRecorded"})
Submissions(lg) == Positions(lg, {"JobSubmitted"})
Pauses(lg)      == Positions(lg, {"TurnPaused"})
Completions(lg) == Positions(lg, {"JobCompletedRecorded"})
Openings(lg)    == Positions(lg, {"ModelCallStarted"})
Seals(lg)       == Positions(lg, {"ModelCallCompleted"})
Begins(lg)      == Positions(lg, {"TurnStarted"})
Ends(lg)        == Positions(lg, {"TurnCompleted", "TurnFailed"})

\* Call c was used by turn t, or job j submitted by it, before position n.
UsedBefore(lg, t, c, n) == \E u \in Uses(lg) : u < n /\ lg[u].turn = t /\ lg[u].key = c
SubmittedBefore(lg, t, j, n) == \E i \in Submissions(lg) : i < n /\ lg[i].job = j /\ lg[i].turn = t

\* The call of the job that the turn paused on at p.
CallOf(lg, p) == LookupCallId(lg, lg[p].job)

\* The calls a turn may still answer or pause.
UsedBy(lg, t) == {lg[u].key : u \in {k \in Uses(lg) : lg[k].turn = t}}
Parked(lg)    == {CallOf(lg, p) : p \in Pauses(lg)}
Free(lg, t)   == UsedBy(lg, t) \ (Answered(lg) \cup Parked(lg))

\* Calls are numbered as they come.
UsesOK(lg) ==
    /\ \A i \in Uses(lg) : lg[i].key \in 1..Cardinality(Uses(lg))
    /\ \A i, k \in Uses(lg) : lg[i].key = lg[k].key => i = k

\* A result belongs to an earlier call of its turn, and is the only one.
AnswersOK(lg) ==
    /\ \A r \in Answers(lg) : UsedBefore(lg, lg[r].turn, lg[r].key, r)
    /\ \A r, s \in Answers(lg) : lg[r].key = lg[s].key => r = s

\* A turn pauses on a job it submitted for a call of its own, once for a call.
PausesOK(lg) ==
    /\ \A p \in Pauses(lg) : /\ lg[p] = TurnPaused(lg[p].turn, lg[p].job)
                             /\ lg[p].job \in JobIds
                             /\ SubmittedBefore(lg, lg[p].turn, lg[p].job, p)
                             /\ UsedBefore(lg, lg[p].turn, CallOf(lg, p), p)
    /\ \A p, q \in Pauses(lg) : CallOf(lg, p) = CallOf(lg, q) => p = q

\* A completion is recorded once, after the pause and before the result.
CompletionsOK(lg) ==
    /\ \A q \in Completions(lg) :
        /\ \E p \in Pauses(lg) : p < q /\ lg[p] = TurnPaused(lg[q].turn, lg[q].job)
        /\ \A r \in Answers(lg) : lg[r].key = CallOf(lg, q) => q < r
    /\ \A q, s \in Completions(lg) : lg[q].job = lg[s].job => q = s

\* The completion of p's job is recorded.
Done(lg, p) == \E q \in Completions(lg) : lg[q].job = lg[p].job

\* A paused call is answered by its job's completion.
AnswersDone(lg) ==
    \A p \in Pauses(lg), r \in Answers(lg) : lg[r].key = CallOf(lg, p) => Done(lg, p)

\* Every result turn t had before n is followed by a model call of the turn.
Consumed(lg, t, n) ==
    \A r \in Answers(lg) : r < n /\ lg[r].turn = t =>
        \E m \in Openings(lg) : r < m /\ m < n /\ lg[m].turn = t

\* No result is written while the turn's model call is under way.
StreamsOK(lg) == \A s \in Seals(lg) : Consumed(lg, lg[s].turn, s)

\* The last turn began after every other had ended, unless the log tells that
\* one was started inside another.
Sequential(lg) ==
    \A s \in Begins(lg) : (\A i \in Begins(lg) : i <= s) =>
        /\ lg[s].turn = Cardinality(Begins(lg))
        /\ \/ NestedTurnStarted(lg)
           \/ \A w \in 1..(lg[s].turn - 1) : \E k \in Ends(lg) : k < s /\ lg[k].turn = w

\* What the log says of calls and jobs.
LogOK(lg) ==
    /\ UsesOK(lg)
    /\ AnswersOK(lg)
    /\ PausesOK(lg)
    /\ CompletionsOK(lg)
    /\ AnswersDone(lg)
    /\ StreamsOK(lg)
    /\ Sequential(lg)

-----------------------------------------------------------------------------
(* An append.                                                              *)

\* The event e may be written next.
Fits(lg, e) ==
    /\ e.type = "ToolUseRecorded" => e.key = FreshCall(lg)
    /\ e.type = "ToolResultRecorded" =>
           /\ e.key \in UsedBy(lg, e.turn) \ Answered(lg)
           /\ \A p \in Pauses(lg) : CallOf(lg, p) = e.key => Done(lg, p)
    /\ e.type = "JobSubmitted" /\ e.job \in JobIds => LookupCallId(lg, e.job) = None
    /\ e.type = "TurnPaused" =>
           /\ e = TurnPaused(e.turn, e.job)
           /\ e.job \in JobIds
           /\ LookupCallId(lg, e.job) \in Free(lg, e.turn)
           /\ SubmittedBefore(lg, e.turn, e.job, Len(lg) + 1)
    /\ e.type = "JobCompletedRecorded" =>
           /\ \E p \in Pauses(lg) : lg[p] = TurnPaused(e.turn, e.job)
           /\ LookupCallId(lg, e.job) \notin Answered(lg)
           /\ \A q \in Completions(lg) : lg[q].job # e.job
    /\ e.type = "ModelCallCompleted" => Consumed(lg, e.turn, Len(lg) + 1)
    /\ e.type = "TurnStarted" => e.turn = FreshTurn(lg)

\* The positions of each type after an append.
LEMMA Grown ==
    ASSUME NEW lg \in Seq(Event), NEW e \in Event
    PROVE  LET kg == Append(lg, e)
               n  == Len(lg)
           IN  /\ n \in Nat /\ kg \in Seq(Event) /\ Len(kg) = n + 1
               /\ DOMAIN lg = 1..n /\ DOMAIN kg = 1..(n + 1) /\ kg[n + 1] = e
               /\ \A i \in 1..n : kg[i] = lg[i] /\ i # n + 1 /\ i < n + 1 /\ lg[i] \in Event
               /\ \A types : /\ Positions(lg, types) \in SUBSET (1..n)
                             /\ Positions(kg, types) =
                                    IF e.type \in types THEN Positions(lg, types) \cup {n + 1}
                                    ELSE Positions(lg, types)
<1> DEFINE kg == Append(lg, e)
           n  == Len(lg)
<1>1. \A types : /\ Positions(lg, types) \in SUBSET (1..n)
                 /\ Positions(kg, types) = IF e.type \in types THEN Positions(lg, types) \cup {n + 1}
                                           ELSE Positions(lg, types)
    <2> TAKE types
    <2> QED
        BY AppendPositions
<1>2. /\ n \in Nat /\ kg \in Seq(Event) /\ Len(kg) = n + 1
      /\ DOMAIN lg = 1..n /\ DOMAIN kg = 1..(n + 1) /\ kg[n + 1] = e
      /\ \A i \in 1..n : kg[i] = lg[i] /\ lg[i] \in Event
    BY AppendEvents
<1>3. \A i \in 1..n : i # n + 1 /\ i < n + 1
    BY <1>2
<1> QED
    BY <1>1, <1>2, <1>3

\* The same, type by type.
LEMMA GrownBy ==
    ASSUME NEW lg \in Seq(Event), NEW e \in Event
    PROVE  LET By(S, type) == IF e.type = type THEN S \cup {Len(lg) + 1} ELSE S
               Bound(S) == S \in SUBSET (1..Len(lg))
               kg == Append(lg, e)
           IN
           /\ Bound(Uses(lg)) /\ Uses(kg) = By(Uses(lg), "ToolUseRecorded")
           /\ Bound(Answers(lg)) /\ Answers(kg) = By(Answers(lg), "ToolResultRecorded")
           /\ Bound(Submissions(lg)) /\ Submissions(kg) = By(Submissions(lg), "JobSubmitted")
           /\ Bound(Pauses(lg)) /\ Pauses(kg) = By(Pauses(lg), "TurnPaused")
           /\ Bound(Completions(lg)) /\ Completions(kg) = By(Completions(lg), "JobCompletedRecorded")
           /\ Bound(Openings(lg)) /\ Openings(kg) = By(Openings(lg), "ModelCallStarted")
           /\ Bound(Seals(lg)) /\ Seals(kg) = By(Seals(lg), "ModelCallCompleted")
           /\ Bound(Begins(lg)) /\ Begins(kg) = By(Begins(lg), "TurnStarted")
           /\ Bound(Ends(lg))
           /\ Ends(kg) = IF e.type \in {"TurnCompleted", "TurnFailed"} THEN Ends(lg) \cup {Len(lg) + 1} ELSE Ends(lg)
<1>1. /\ Uses(lg) \in SUBSET (1..Len(lg))
      /\ Uses(Append(lg, e)) = IF e.type = "ToolUseRecorded" THEN Uses(lg) \cup {Len(lg) + 1} ELSE Uses(lg)
    BY AppendPositions DEF Uses
<1>2. /\ Answers(lg) \in SUBSET (1..Len(lg))
      /\ Answers(Append(lg, e)) = IF e.type = "ToolResultRecorded" THEN Answers(lg) \cup {Len(lg) + 1} ELSE Answers(lg)
    BY AppendPositions DEF Answers
<1>3. /\ Submissions(lg) \in SUBSET (1..Len(lg))
      /\ Submissions(Append(lg, e)) = IF e.type = "JobSubmitted" THEN Submissions(lg) \cup {Len(lg) + 1} ELSE Submissions(lg)
    BY AppendPositions DEF Submissions
<1>4. /\ Pauses(lg) \in SUBSET (1..Len(lg))
      /\ Pauses(Append(lg, e)) = IF e.type = "TurnPaused" THEN Pauses(lg) \cup {Len(lg) + 1} ELSE Pauses(lg)
    BY AppendPositions DEF Pauses
<1>5. /\ Completions(lg) \in SUBSET (1..Len(lg))
      /\ Completions(Append(lg, e)) = IF e.type = "JobCompletedRecorded" THEN Completions(lg) \cup {Len(lg) + 1} ELSE Completions(lg)
    BY AppendPositions DEF Completions
<1>6. /\ Openings(lg) \in SUBSET (1..Len(lg))
      /\ Openings(Append(lg, e)) = IF e.type = "ModelCallStarted" THEN Openings(lg) \cup {Len(lg) + 1} ELSE Openings(lg)
    BY AppendPositions DEF Openings
<1>7. /\ Seals(lg) \in SUBSET (1..Len(lg))
      /\ Seals(Append(lg, e)) = IF e.type = "ModelCallCompleted" THEN Seals(lg) \cup {Len(lg) + 1} ELSE Seals(lg)
    BY AppendPositions DEF Seals
<1>8. /\ Begins(lg) \in SUBSET (1..Len(lg))
      /\ Begins(Append(lg, e)) = IF e.type = "TurnStarted" THEN Begins(lg) \cup {Len(lg) + 1} ELSE Begins(lg)
    BY AppendPositions DEF Begins
<1>9. /\ Ends(lg) \in SUBSET (1..Len(lg))
      /\ Ends(Append(lg, e)) = IF e.type \in {"TurnCompleted", "TurnFailed"} THEN Ends(lg) \cup {Len(lg) + 1} ELSE Ends(lg)
    BY AppendPositions DEF Ends
<1> QED
    BY <1>1, <1>2, <1>3, <1>4, <1>5, <1>6, <1>7, <1>8, <1>9

\* A job's call, once looked up, stays.
LEMMA LookupKept ==
    ASSUME NEW lg \in Seq(Event), NEW e \in Event, Fits(lg, e),
           NEW j \in JobIds, LookupCallId(lg, j) # None
    PROVE  LookupCallId(Append(lg, e), j) = LookupCallId(lg, j)
BY AppendLookup DEF Fits

\* The call of a pause, or of a recorded completion, is a call, and stays.
LEMMA CallsKept ==
    ASSUME NEW lg \in Seq(Event), NEW e \in Event, Fits(lg, e),
           UsesOK(lg), PausesOK(lg), CompletionsOK(lg)
    PROVE  /\ \A p \in Pauses(lg) \cup Completions(lg) :
                  /\ lg[p].job \in JobIds
                  /\ CallOf(lg, p) # None
                  /\ CallOf(Append(lg, e), p) = CallOf(lg, p)
           /\ \A q \in Completions(lg) : \E p \in Pauses(lg) : lg[q].job = lg[p].job /\ p < q
<1> DEFINE kg == Append(lg, e)
           n == Len(lg)
<1>1. /\ \A i \in 1..n : kg[i] = lg[i]
      /\ Pauses(lg) \in SUBSET (1..n) /\ Completions(lg) \in SUBSET (1..n)
    BY Grown DEF Pauses, Completions
<1>2. \A p \in Pauses(lg) : lg[p].job \in JobIds /\ CallOf(lg, p) # None
    <2> SUFFICES ASSUME NEW p \in Pauses(lg)
                 PROVE  lg[p].job \in JobIds /\ CallOf(lg, p) # None
        OBVIOUS
    <2>1. PICK u \in Uses(lg) : lg[u].key = CallOf(lg, p)
        BY DEF PausesOK, UsedBefore
    <2>2. lg[u].key \in 1..Cardinality(Uses(lg))
        BY <2>1 DEF UsesOK
    <2>3. Cardinality(Uses(lg)) \in Nat
        BY AppendPositions DEF Uses
    <2>4. lg[u].key # None
        BY <2>2, <2>3 DEF None
    <2> QED
        BY <2>1, <2>4 DEF PausesOK
<1>3. \A q \in Completions(lg) : \E p \in Pauses(lg) : lg[q].job = lg[p].job /\ p < q
    <2> SUFFICES ASSUME NEW q \in Completions(lg)
                 PROVE  \E p \in Pauses(lg) : lg[q].job = lg[p].job /\ p < q
        OBVIOUS
    <2>1. PICK p \in Pauses(lg) : p < q /\ lg[p] = TurnPaused(lg[q].turn, lg[q].job)
        BY DEF CompletionsOK
    <2>2. lg[p].job = lg[q].job
        BY <2>1 DEF TurnPaused, Ev
    <2> QED
        BY <2>1, <2>2
<1>4. \A p \in Pauses(lg) \cup Completions(lg) : lg[p].job \in JobIds /\ CallOf(lg, p) # None
    BY <1>2, <1>3 DEF CallOf
<1>5. \A p \in Pauses(lg) \cup Completions(lg) : CallOf(kg, p) = CallOf(lg, p)
    <2> SUFFICES ASSUME NEW p \in Pauses(lg) \cup Completions(lg)
                 PROVE  CallOf(kg, p) = CallOf(lg, p)
        OBVIOUS
    <2>1. kg[p] = lg[p]
        BY <1>1
    <2>2. LookupCallId(kg, lg[p].job) = LookupCallId(lg, lg[p].job)
        BY <1>4, LookupKept DEF CallOf
    <2> QED
        BY <2>1, <2>2 DEF CallOf
<1> QED
    BY <1>3, <1>4, <1>5

\* What was so before a position stays so.
LEMMA Earlier ==
    ASSUME NEW lg \in Seq(Event), NEW e \in Event
    PROVE  LET kg == Append(lg, e) IN
           /\ \A t, c, m : UsedBefore(lg, t, c, m) => UsedBefore(kg, t, c, m)
           /\ \A t, j, m : SubmittedBefore(lg, t, j, m) => SubmittedBefore(kg, t, j, m)
           /\ \A t : \A m \in 1..(Len(lg) + 1) : Consumed(lg, t, m) => Consumed(kg, t, m)
<1> DEFINE kg == Append(lg, e)
           n  == Len(lg)
<1>1. /\ n \in Nat /\ (\A i \in 1..n : kg[i] = lg[i])
      /\ Uses(lg) \in SUBSET (1..n) /\ Uses(lg) \subseteq Uses(kg)
      /\ Submissions(lg) \in SUBSET (1..n) /\ Submissions(lg) \subseteq Submissions(kg)
      /\ Answers(lg) \in SUBSET (1..n) /\ Answers(kg) \subseteq Answers(lg) \cup {n + 1}
      /\ Openings(lg) \in SUBSET (1..n) /\ Openings(lg) \subseteq Openings(kg)
    BY Grown DEF Uses, Submissions, Answers, Openings
<1> HIDE DEF kg, n
<1>2. \A t, c, m : UsedBefore(lg, t, c, m) => UsedBefore(kg, t, c, m)
    BY <1>1 DEF UsedBefore
<1>3. \A t, j, m : SubmittedBefore(lg, t, j, m) => SubmittedBefore(kg, t, j, m)
    BY <1>1 DEF SubmittedBefore
<1>4. ASSUME NEW t, NEW m \in 1..(n + 1), Consumed(lg, t, m)
      PROVE  Consumed(kg, t, m)
    <2> SUFFICES ASSUME NEW r \in Answers(kg), r < m, kg[r].turn = t
                 PROVE  \E o \in Openings(kg) : r < o /\ o < m /\ kg[o].turn = t
        BY DEF Consumed
    <2>1. r \in Answers(lg) /\ lg[r].turn = t
        <3>1. r # n + 1
            BY <1>1
        <3> QED
            BY <1>1, <3>1
    <2>2. PICK o \in Openings(lg) : r < o /\ o < m /\ lg[o].turn = t
        BY <1>4, <2>1 DEF Consumed
    <2> QED
        BY <1>1, <2>2
<1> QED
    BY <1>2, <1>3, <1>4 DEF kg, n

\* The conjuncts of LogOK, one by one.
LEMMA UsesKept ==
    ASSUME NEW lg \in Seq(Event), NEW e \in Event, Fits(lg, e), UsesOK(lg)
    PROVE  UsesOK(Append(lg, e))
<1> DEFINE kg == Append(lg, e)
           n  == Len(lg)
           c  == Cardinality(Uses(lg))
<1>1. /\ n \in Nat /\ (\A i \in 1..n : kg[i] = lg[i]) /\ kg[n + 1] = e
      /\ Uses(lg) \in SUBSET (1..n)
      /\ Uses(kg) = IF e.type = "ToolUseRecorded" THEN Uses(lg) \cup {n + 1} ELSE Uses(lg)
    BY AppendEvents, GrownBy
<1>2. /\ c \in Nat
      /\ Cardinality(Uses(kg)) = c + (IF e.type = "ToolUseRecorded" THEN 1 ELSE 0)
    BY AppendPositions DEF Uses
<1>3. \A i \in Uses(lg) : lg[i].key \in 1..c
    BY DEF UsesOK
<1>4. \A i, k \in Uses(lg) : lg[i].key = lg[k].key => i = k
    BY DEF UsesOK
<1>5. e.type = "ToolUseRecorded" => e.key = c + 1
    BY DEF Fits, FreshCall, Uses
<1> HIDE DEF kg, n, c
<1>6. \A i \in Uses(kg) : kg[i].key \in 1..Cardinality(Uses(kg))
    BY <1>1, <1>2, <1>3, <1>5
<1>7. \A i, k \in Uses(kg) : kg[i].key = kg[k].key => i = k
    <2>1. \A i \in Uses(lg) : kg[i].key = lg[i].key /\ lg[i].key # c + 1
        BY <1>1, <1>2, <1>3
    <2>2. e.type = "ToolUseRecorded" => kg[n + 1].key = c + 1
        BY <1>1, <1>5
    <2> QED
        BY <1>1, <1>4, <2>1, <2>2
<1> QED
    BY <1>6, <1>7 DEF UsesOK, kg

LEMMA AnswersKept ==
    ASSUME NEW lg \in Seq(Event), NEW e \in Event, Fits(lg, e), AnswersOK(lg)
    PROVE  AnswersOK(Append(lg, e))
<1> DEFINE kg == Append(lg, e)
           n  == Len(lg)
<1>1. /\ n \in Nat /\ (\A i \in 1..n : kg[i] = lg[i] /\ i < n + 1) /\ kg[n + 1] = e
      /\ Answers(lg) \in SUBSET (1..n) /\ Uses(lg) \in SUBSET (1..n)
      /\ Answers(kg) = IF e.type = "ToolResultRecorded" THEN Answers(lg) \cup {n + 1} ELSE Answers(lg)
    BY AppendEvents, GrownBy
<1>2. \A t, c, m : UsedBefore(lg, t, c, m) => UsedBefore(kg, t, c, m)
    BY Earlier
<1>3. e.type = "ToolResultRecorded" => /\ UsedBefore(lg, e.turn, e.key, n + 1)
                                       /\ \A r \in Answers(lg) : lg[r].key # e.key
    <2> HIDE DEF kg, n
    <2> QED
        BY <1>1 DEF Fits, UsedBy, UsedBefore, Answered, Answers
<1> HIDE DEF kg, n
<1>4. \A r \in Answers(kg) : UsedBefore(kg, kg[r].turn, kg[r].key, r)
    BY <1>1, <1>2, <1>3 DEF AnswersOK
<1>5. \A r, s \in Answers(kg) : kg[r].key = kg[s].key => r = s
    BY <1>1, <1>3 DEF AnswersOK
<1> QED
    BY <1>4, <1>5 DEF AnswersOK, kg

LEMMA PausesKept ==
    ASSUME NEW lg \in Seq(Event), NEW e \in Event, Fits(lg, e),
           UsesOK(lg), PausesOK(lg), CompletionsOK(lg)
    PROVE  PausesOK(Append(lg, e))
<1> DEFINE kg == Append(lg, e)
           n  == Len(lg)
           c  == LookupCallId(lg, e.job)
<1>1. /\ n \in Nat /\ (\A i \in 1..n : kg[i] = lg[i] /\ i < n + 1) /\ kg[n + 1] = e
      /\ Pauses(lg) \in SUBSET (1..n) /\ Uses(lg) \in SUBSET (1..n)
      /\ Pauses(kg) = IF e.type = "TurnPaused" THEN Pauses(lg) \cup {n + 1} ELSE Pauses(lg)
    BY AppendEvents, GrownBy
<1>2. /\ \A t, d, m : UsedBefore(lg, t, d, m) => UsedBefore(kg, t, d, m)
      /\ \A t, j, m : SubmittedBefore(lg, t, j, m) => SubmittedBefore(kg, t, j, m)
    BY Earlier
<1>3. \A p \in Pauses(lg) : CallOf(kg, p) = CallOf(lg, p)
    BY CallsKept
<1>4. ASSUME e.type = "TurnPaused"
      PROVE  /\ CallOf(kg, n + 1) = c /\ e.job \in JobIds /\ e = TurnPaused(e.turn, e.job)
             /\ UsedBefore(lg, e.turn, c, n + 1) /\ SubmittedBefore(lg, e.turn, e.job, n + 1)
             /\ \A p \in Pauses(lg) : CallOf(lg, p) # c
    <2>1. LookupCallId(kg, e.job) = c
        BY <1>4, AppendLookup
    <2>2. /\ e.job \in JobIds /\ SubmittedBefore(lg, e.turn, e.job, n + 1) /\ e = TurnPaused(e.turn, e.job)
          /\ c \in UsedBy(lg, e.turn) \ Parked(lg)
        BY <1>4 DEF Fits, Free
    <2> HIDE DEF kg, n, c
    <2>3. UsedBefore(lg, e.turn, c, n + 1) /\ \A p \in Pauses(lg) : CallOf(lg, p) # c
        BY <1>1, <2>2 DEF UsedBy, UsedBefore, Parked
    <2> QED
        BY <1>1, <2>1, <2>2, <2>3 DEF CallOf
<1> HIDE DEF kg, n, c
<1>5. \A p \in Pauses(lg) : /\ kg[p] = TurnPaused(kg[p].turn, kg[p].job)
                            /\ kg[p].job \in JobIds
                            /\ SubmittedBefore(kg, kg[p].turn, kg[p].job, p)
                            /\ UsedBefore(kg, kg[p].turn, CallOf(kg, p), p)
    BY <1>1, <1>2, <1>3 DEF PausesOK
<1>6. e.type = "TurnPaused" => /\ kg[n + 1] = TurnPaused(kg[n + 1].turn, kg[n + 1].job)
                               /\ kg[n + 1].job \in JobIds
                               /\ SubmittedBefore(kg, kg[n + 1].turn, kg[n + 1].job, n + 1)
                               /\ UsedBefore(kg, kg[n + 1].turn, CallOf(kg, n + 1), n + 1)
    BY <1>1, <1>2, <1>4
<1>7. \A p, q \in Pauses(kg) : CallOf(kg, p) = CallOf(kg, q) => p = q
    BY <1>1, <1>3, <1>4 DEF PausesOK
<1> QED
    BY <1>1, <1>5, <1>6, <1>7 DEF PausesOK, kg

LEMMA CompletionsKept ==
    ASSUME NEW lg \in Seq(Event), NEW e \in Event, Fits(lg, e),
           UsesOK(lg), PausesOK(lg), CompletionsOK(lg)
    PROVE  CompletionsOK(Append(lg, e))
<1> DEFINE kg == Append(lg, e)
           n  == Len(lg)
<1>1. /\ n \in Nat /\ (\A i \in 1..n : kg[i] = lg[i] /\ i < n + 1) /\ kg[n + 1] = e
      /\ Pauses(lg) \in SUBSET (1..n) /\ Completions(lg) \in SUBSET (1..n) /\ Answers(lg) \in SUBSET (1..n)
      /\ Pauses(lg) \subseteq Pauses(kg)
      /\ Answers(kg) \subseteq Answers(lg) \cup {n + 1}
      /\ e.type = "JobCompletedRecorded" => Answers(kg) = Answers(lg)
      /\ Completions(kg) = IF e.type = "JobCompletedRecorded" THEN Completions(lg) \cup {n + 1}
                           ELSE Completions(lg)
    BY AppendEvents, GrownBy
<1>2. \A q \in Completions(lg) : CallOf(kg, q) = CallOf(lg, q)
    BY CallsKept
<1>3. ASSUME e.type = "JobCompletedRecorded"
      PROVE  /\ \E p \in Pauses(lg) : lg[p] = TurnPaused(e.turn, e.job)
             /\ \A r \in Answers(lg) : lg[r].key # CallOf(kg, n + 1)
             /\ \A q \in Completions(lg) : lg[q].job # e.job
    <2>1. LookupCallId(kg, e.job) = LookupCallId(lg, e.job)
        BY <1>3, AppendLookup
    <2> HIDE DEF kg, n
    <2>2. CallOf(kg, n + 1) = LookupCallId(lg, e.job)
        BY <1>1, <2>1 DEF CallOf
    <2> QED
        BY <1>3, <2>2 DEF Fits, Answered, Answers
<1> HIDE DEF kg, n
<1>4. ASSUME NEW q \in Completions(lg)
      PROVE  /\ \E p \in Pauses(kg) : p < q /\ kg[p] = TurnPaused(kg[q].turn, kg[q].job)
             /\ \A r \in Answers(kg) : kg[r].key = CallOf(kg, q) => q < r
    <2>1. PICK p \in Pauses(lg) : p < q /\ lg[p] = TurnPaused(lg[q].turn, lg[q].job)
        BY DEF CompletionsOK
    <2>2. \A r \in Answers(lg) : lg[r].key = CallOf(lg, q) => q < r
        BY DEF CompletionsOK
    <2>3. q \in 1..n /\ q < n + 1 /\ kg[q] = lg[q] /\ kg[p] = lg[p] /\ p \in Pauses(kg)
        BY <1>1
    <2>4. \A r \in Answers(kg) : kg[r].key = CallOf(kg, q) => q < r
        BY <1>1, <1>2, <2>2, <2>3
    <2> QED
        BY <2>1, <2>3, <2>4
<1>5. ASSUME e.type = "JobCompletedRecorded"
      PROVE  /\ \E p \in Pauses(kg) : p < n + 1 /\ kg[p] = TurnPaused(kg[n + 1].turn, kg[n + 1].job)
             /\ \A r \in Answers(kg) : kg[r].key # CallOf(kg, n + 1)
    BY <1>1, <1>3, <1>5
<1>6. \A q, s \in Completions(kg) : kg[q].job = kg[s].job => q = s
    BY <1>1, <1>3 DEF CompletionsOK
<1> QED
    BY <1>1, <1>4, <1>5, <1>6 DEF CompletionsOK, kg

LEMMA AnswersDoneKept ==
    ASSUME NEW lg \in Seq(Event), NEW e \in Event, Fits(lg, e),
           UsesOK(lg), PausesOK(lg), CompletionsOK(lg), AnswersDone(lg)
    PROVE  AnswersDone(Append(lg, e))
<1> DEFINE kg == Append(lg, e)
           n  == Len(lg)
<1>1. /\ n \in Nat /\ (\A i \in 1..n : kg[i] = lg[i]) /\ kg[n + 1] = e
      /\ Pauses(lg) \in SUBSET (1..n) /\ Completions(lg) \in SUBSET (1..n) /\ Answers(lg) \in SUBSET (1..n)
      /\ Pauses(kg) = IF e.type = "TurnPaused" THEN Pauses(lg) \cup {n + 1} ELSE Pauses(lg)
      /\ Answers(kg) = IF e.type = "ToolResultRecorded" THEN Answers(lg) \cup {n + 1} ELSE Answers(lg)
      /\ Completions(lg) \subseteq Completions(kg)
    BY AppendEvents, GrownBy
<1>2. \A p \in Pauses(lg) : CallOf(kg, p) = CallOf(lg, p)
    BY CallsKept
<1>3. e.type = "TurnPaused" => \A r \in Answers(lg) : lg[r].key # CallOf(kg, n + 1)
    <2>1. e.type = "TurnPaused" => LookupCallId(kg, e.job) = LookupCallId(lg, e.job)
        BY AppendLookup
    <2> HIDE DEF kg, n
    <2>2. e.type = "TurnPaused" => CallOf(kg, n + 1) = LookupCallId(lg, e.job)
        BY <1>1, <2>1 DEF CallOf
    <2> QED
        BY <2>2 DEF Fits, Free, Answered, Answers
<1>4. e.type = "ToolResultRecorded" => \A p \in Pauses(lg) : CallOf(lg, p) = e.key => Done(lg, p)
    BY DEF Fits
<1> HIDE DEF kg, n
<1>5. \A p \in Pauses(lg) : Done(lg, p) => Done(kg, p)
    BY <1>1 DEF Done
<1>6. ASSUME NEW p \in Pauses(kg), NEW r \in Answers(kg), kg[r].key = CallOf(kg, p)
      PROVE  Done(kg, p)
    <2>1. p \in Pauses(lg)
        BY <1>1, <1>3, <1>6
    <2>2. CallOf(kg, p) = CallOf(lg, p)
        BY <1>2, <2>1
    <2>3. CASE r \in Answers(lg)
        <3>1. kg[r] = lg[r]
            BY <1>1, <2>3
        <3>2. Done(lg, p)
            BY <1>6, <2>1, <2>2, <2>3, <3>1 DEF AnswersDone
        <3> QED
            BY <1>5, <2>1, <3>2
    <2>4. CASE r \notin Answers(lg)
        <3>1. r = n + 1 /\ e.type = "ToolResultRecorded"
            BY <1>1, <2>4
        <3>2. Done(lg, p)
            BY <1>1, <1>4, <1>6, <2>1, <2>2, <3>1
        <3> QED
            BY <1>5, <2>1, <3>2
    <2> QED
        BY <2>3, <2>4
<1> QED
    BY <1>6 DEF AnswersDone, kg

LEMMA StreamsKept ==
    ASSUME NEW lg \in Seq(Event), NEW e \in Event, Fits(lg, e), StreamsOK(lg)
    PROVE  StreamsOK(Append(lg, e))
<1> DEFINE kg == Append(lg, e)
           n  == Len(lg)
<1>1. /\ n \in Nat /\ (\A i \in 1..n : kg[i] = lg[i] /\ i \in 1..(n + 1)) /\ kg[n + 1] = e
      /\ n + 1 \in 1..(n + 1)
      /\ Seals(lg) \in SUBSET (1..n)
      /\ Seals(kg) = IF e.type = "ModelCallCompleted" THEN Seals(lg) \cup {n + 1} ELSE Seals(lg)
    BY AppendEvents, GrownBy
<1>2. \A t : \A m \in 1..(n + 1) : Consumed(lg, t, m) => Consumed(kg, t, m)
    BY Earlier
<1>3. e.type = "ModelCallCompleted" => Consumed(lg, e.turn, n + 1)
    BY DEF Fits
<1> HIDE DEF kg, n
<1> QED
    BY <1>1, <1>2, <1>3 DEF StreamsOK, kg

LEMMA SequentialKept ==
    ASSUME NEW lg \in Seq(Event), NEW e \in Event, Fits(lg, e),
           OfStartedTurns(lg), EndsAreLast(lg), Sequential(lg)
    PROVE  Sequential(Append(lg, e))
<1> DEFINE kg == Append(lg, e)
           n  == Len(lg)
           B  == Begins(lg)
           c  == Cardinality(B)
           Ended(h, s, w) == \E k \in Ends(h) : k < s /\ h[k].turn = w
<1>1. /\ n \in Nat /\ DOMAIN lg = 1..n /\ (\A i \in 1..n : kg[i] = lg[i] /\ i < n + 1) /\ kg[n + 1] = e
      /\ B \in SUBSET (1..n) /\ Ends(lg) \in SUBSET (1..n)
      /\ Begins(kg) = IF e.type = "TurnStarted" THEN B \cup {n + 1} ELSE B
      /\ Ends(kg) = IF e.type \in {"TurnCompleted", "TurnFailed"} THEN Ends(lg) \cup {n + 1} ELSE Ends(lg)
    BY AppendEvents, GrownBy
<1>2. c \in Nat /\ Cardinality(Begins(kg)) = c + (IF e.type = "TurnStarted" THEN 1 ELSE 0)
    BY AppendPositions DEF Begins
<1>3. NestedTurnStarted(lg) <=> \E i, j \in B : i < j /\ \A k \in Ends(lg) : k < i \/ j < k
    BY DEF NestedTurnStarted, Begins, Ends
<1>4. NestedTurnStarted(kg) <=> \E i, j \in Begins(kg) : i < j /\ \A k \in Ends(kg) : k < i \/ j < k
    BY DEF NestedTurnStarted, Begins, Ends
<1>5. e.type = "TurnStarted" => e.turn = c + 1
    BY DEF Fits, FreshTurn, Begins
<1>6. B = {} \/ \E s \in B : \A i \in B : i <= s
    BY <1>1, LatestIsLast
<1>7. \A k \in Ends(lg) : /\ lg[k].turn \in 1..c
                          /\ \A i \in Ends(lg) : i < k => lg[i].turn # lg[k].turn
    <2>1. \A k \in DOMAIN lg : lg[k].turn \in 1..c
        BY DEF OfStartedTurns, StartedIn, Begins
    <2>2. \A i \in Ends(lg) : \A k \in DOMAIN lg : k > i => lg[k].turn # lg[i].turn
        BY DEF EndsAreLast, Ends
    <2> HIDE DEF kg, n, B, c
    <2> QED
        BY <1>1, <2>1, <2>2
<1>8. \A s \in B : (\A i \in B : i <= s) =>
        /\ lg[s].turn = c
        /\ NestedTurnStarted(lg) \/ \A w \in 1..(c - 1) : Ended(lg, s, w)
    <2> HIDE DEF n, kg
    <2> QED
        BY DEF Sequential
<1> HIDE DEF kg, n, B, c
<1>9. NestedTurnStarted(lg) => NestedTurnStarted(kg)
    BY <1>1, <1>3, <1>4
<1>10. \A s, w : Ended(lg, s, w) => Ended(kg, s, w)
    BY <1>1
<1>11. CASE e.type # "TurnStarted"
    <2>1. Begins(kg) = B /\ Cardinality(Begins(kg)) = c
        BY <1>1, <1>2, <1>11
    <2> SUFFICES ASSUME NEW s \in B, \A i \in B : i <= s
                 PROVE  /\ kg[s].turn = c
                        /\ NestedTurnStarted(kg) \/ \A w \in 1..(kg[s].turn - 1) : Ended(kg, s, w)
        BY <2>1 DEF Sequential, kg
    <2>2. kg[s].turn = c
        BY <1>1, <1>8
    <2> QED
        BY <1>8, <1>9, <1>10, <2>2
<1>12. CASE e.type = "TurnStarted"
    <2>1. /\ Begins(kg) = B \cup {n + 1} /\ Cardinality(Begins(kg)) = c + 1
          /\ Ends(kg) = Ends(lg) /\ kg[n + 1].turn = c + 1
        BY <1>1, <1>2, <1>5, <1>12
    <2>2. ASSUME ~NestedTurnStarted(kg), NEW w \in 1..c
          PROVE  Ended(lg, n + 1, w)
        <3>1. B # {}
            <4>1. c # 0
                BY <1>2, <2>2
            <4> QED
                BY <4>1, FS_EmptySet DEF c
        <3>2. PICK s \in B : \A i \in B : i <= s
            BY <1>6, <3>1
        <3>3. PICK k \in Ends(lg) : ~(k < s) /\ ~(n + 1 < k)
            <4>1. s < n + 1 /\ s \in Begins(kg) /\ n + 1 \in Begins(kg)
                BY <1>1, <2>1
            <4> QED
                BY <1>4, <2>1, <2>2, <4>1
        <3>4. \A v \in 1..(c - 1) : Ended(lg, s, v)
            BY <1>8, <1>9, <2>2, <3>2
        <3>5. k \in 1..n /\ s \in 1..n /\ lg[k].turn \in 1..c
            BY <1>1, <1>7
        <3>6. lg[k].turn = c
            <4> SUFFICES ASSUME lg[k].turn # c
                         PROVE  FALSE
                OBVIOUS
            <4>1. lg[k].turn \in 1..(c - 1)
                BY <1>2, <3>5
            <4>2. PICK i \in Ends(lg) : i < s /\ lg[i].turn = lg[k].turn
                BY <3>4, <4>1
            <4>3. i < k
                BY <1>1, <3>3, <3>5, <4>2
            <4> QED
                BY <1>7, <4>2, <4>3
        <3>7. CASE w = c
            BY <1>1, <3>5, <3>6, <3>7
        <3>8. CASE w # c
            <4>1. w \in 1..(c - 1)
                BY <1>2, <2>2, <3>8
            <4>2. PICK i \in Ends(lg) : i < s /\ lg[i].turn = w
                BY <3>4, <4>1
            <4> QED
                BY <1>1, <4>2
        <3> QED
            BY <3>7, <3>8
    <2>3. \A s \in B : ~(n + 1 <= s)
        BY <1>1
    <2>4. NestedTurnStarted(kg) \/ \A w \in 1..(kg[n + 1].turn - 1) : Ended(kg, n + 1, w)
        <3>1. 1..(kg[n + 1].turn - 1) = 1..c
            BY <1>2, <2>1
        <3> QED
            BY <1>10, <2>2, <3>1
    <2> QED
        BY <2>1, <2>3, <2>4 DEF Sequential, kg
<1> QED
    BY <1>11, <1>12

\* An event that fits leaves the log in order.
LEMMA LogKept ==
    ASSUME NEW lg \in Seq(Event), NEW e \in Event, Fits(lg, e),
           OfStartedTurns(lg), EndsAreLast(lg), LogOK(lg)
    PROVE  LogOK(Append(lg, e))
BY UsesKept, AnswersKept, PausesKept, CompletionsKept, AnswersDoneKept, StreamsKept, SequentialKept
   DEF LogOK

-----------------------------------------------------------------------------
(* The calls that are free after an append.                                *)

\* The call an event answers or pauses.
Spent(lg, e) == IF e.type = "ToolResultRecorded" THEN {e.key}
                ELSE IF e.type = "TurnPaused" THEN {LookupCallId(lg, e.job)}
                ELSE {}

\* A call is of one turn, and numbered.
LEMMA UsedApart ==
    ASSUME NEW lg \in Seq(Event), UsesOK(lg)
    PROVE  /\ \A t, u : t # u => UsedBy(lg, t) \cap UsedBy(lg, u) = {}
           /\ Cardinality(Uses(lg)) \in Nat
           /\ \A t : UsedBy(lg, t) \subseteq 1..Cardinality(Uses(lg))
           /\ \A t : Free(lg, t) \subseteq UsedBy(lg, t) /\ None \notin Free(lg, t)
<1>1. \A t, u : t # u => UsedBy(lg, t) \cap UsedBy(lg, u) = {}
    BY DEF UsesOK, UsedBy
<1>2. Cardinality(Uses(lg)) \in Nat
    <2>1. Len(lg) \in Nat /\ Uses(lg) \in SUBSET (1..Len(lg))
        BY DEF Uses, Positions
    <2> QED
        BY <2>1, PositionsFinite
<1>3. \A t : UsedBy(lg, t) \subseteq 1..Cardinality(Uses(lg))
    BY DEF UsesOK, UsedBy
<1>4. \A t : Free(lg, t) \subseteq UsedBy(lg, t)
    BY DEF Free
<1>5. None \notin 1..Cardinality(Uses(lg))
    BY <1>2 DEF None
<1> QED
    BY <1>1, <1>2, <1>3, <1>4, <1>5

\* What was answered, paused or used.
LEMMA FreeParts ==
    ASSUME NEW lg \in Seq(Event), NEW e \in Event, Fits(lg, e), LogOK(lg)
    PROVE  LET kg == Append(lg, e) IN
           /\ Answered(kg) = Answered(lg) \cup (IF e.type = "ToolResultRecorded" THEN {e.key} ELSE {})
           /\ Parked(kg) = Parked(lg) \cup (IF e.type = "TurnPaused" THEN {LookupCallId(lg, e.job)} ELSE {})
           /\ \A t : UsedBy(kg, t) = UsedBy(lg, t) \cup
                        (IF e.type = "ToolUseRecorded" /\ e.turn = t THEN {e.key} ELSE {})
<1> DEFINE kg == Append(lg, e)
           n  == Len(lg)
<1>1. /\ n \in Nat /\ (\A i \in 1..n : kg[i] = lg[i]) /\ kg[n + 1] = e
      /\ Answers(lg) \in SUBSET (1..n) /\ Pauses(lg) \in SUBSET (1..n) /\ Uses(lg) \in SUBSET (1..n)
      /\ Answers(kg) = IF e.type = "ToolResultRecorded" THEN Answers(lg) \cup {n + 1} ELSE Answers(lg)
      /\ Pauses(kg) = IF e.type = "TurnPaused" THEN Pauses(lg) \cup {n + 1} ELSE Pauses(lg)
      /\ Uses(kg) = IF e.type = "ToolUseRecorded" THEN Uses(lg) \cup {n + 1} ELSE Uses(lg)
    BY AppendEvents, GrownBy
<1>2. Answered(lg) = {lg[r].key : r \in Answers(lg)} /\ Answered(kg) = {kg[r].key : r \in Answers(kg)}
    BY DEF Answered, Answers
<1>3. \A p \in Pauses(lg) : CallOf(kg, p) = CallOf(lg, p)
    BY CallsKept DEF LogOK
<1>4. e.type = "TurnPaused" => CallOf(kg, n + 1) = LookupCallId(lg, e.job)
    <2>1. e.type = "TurnPaused" => LookupCallId(kg, e.job) = LookupCallId(lg, e.job)
        BY AppendLookup
    <2> HIDE DEF kg, n
    <2> QED
        BY <1>1, <2>1 DEF CallOf
<1> HIDE DEF kg, n
<1>5. Answered(kg) = Answered(lg) \cup (IF e.type = "ToolResultRecorded" THEN {e.key} ELSE {})
    BY <1>1, <1>2
<1>6. Parked(kg) = Parked(lg) \cup (IF e.type = "TurnPaused" THEN {LookupCallId(lg, e.job)} ELSE {})
    BY <1>1, <1>3, <1>4 DEF Parked
<1>7. ASSUME NEW t
      PROVE  UsedBy(kg, t) = UsedBy(lg, t) \cup (IF e.type = "ToolUseRecorded" /\ e.turn = t THEN {e.key} ELSE {})
    BY <1>1 DEF UsedBy
<1> QED
    BY <1>5, <1>6, <1>7 DEF kg

\* A call that was answered or paused had been used.
LEMMA SpentWereUsed ==
    ASSUME NEW lg \in Seq(Event), LogOK(lg)
    PROVE  Answered(lg) \cup Parked(lg) \subseteq 1..Cardinality(Uses(lg))
<1>1. \A t, c, n : UsedBefore(lg, t, c, n) => c \in 1..Cardinality(Uses(lg))
    BY DEF LogOK, UsesOK, UsedBefore
<1>2. Answered(lg) = {lg[r].key : r \in Answers(lg)}
    BY DEF Answered, Answers
<1>3. \A r \in Answers(lg) : lg[r].key \in 1..Cardinality(Uses(lg))
    BY <1>1 DEF LogOK, AnswersOK
<1>4. \A p \in Pauses(lg) : CallOf(lg, p) \in 1..Cardinality(Uses(lg))
    BY <1>1 DEF LogOK, PausesOK
<1> QED
    BY <1>2, <1>3, <1>4 DEF Parked

\* An event spends a call of its own turn, and leaves the others free.
LEMMA FreeKept ==
    ASSUME NEW lg \in Seq(Event), NEW e \in Event, Fits(lg, e), LogOK(lg)
    PROVE  LET kg == Append(lg, e) IN
           /\ \A t : Free(lg, t) \ Spent(lg, e) \subseteq Free(kg, t)
           /\ \A t : t # e.turn => Free(lg, t) \subseteq Free(kg, t)
           /\ e.type = "ToolUseRecorded" => e.key \in Free(kg, e.turn)
<1> DEFINE kg == Append(lg, e)
<1>1. /\ Answered(kg) = Answered(lg) \cup (IF e.type = "ToolResultRecorded" THEN {e.key} ELSE {})
      /\ Parked(kg) = Parked(lg) \cup (IF e.type = "TurnPaused" THEN {LookupCallId(lg, e.job)} ELSE {})
      /\ \A t : UsedBy(kg, t) = UsedBy(lg, t) \cup
                   (IF e.type = "ToolUseRecorded" /\ e.turn = t THEN {e.key} ELSE {})
    BY FreeParts
<1>2. Spent(lg, e) \subseteq UsedBy(lg, e.turn)
    BY DEF Spent, Fits, Free
<1>3. /\ \A t, u : t # u => UsedBy(lg, t) \cap UsedBy(lg, u) = {}
      /\ \A t : Free(lg, t) \subseteq UsedBy(lg, t)
    BY UsedApart DEF LogOK
<1> HIDE DEF kg
<1>4. \A t : Free(lg, t) \ Spent(lg, e) \subseteq Free(kg, t)
    BY <1>1 DEF Free, Spent
<1>5. \A t : t # e.turn => Free(lg, t) \subseteq Free(kg, t)
    BY <1>2, <1>3, <1>4
<1>6. e.type = "ToolUseRecorded" => e.key \in Free(kg, e.turn)
    <2> DEFINE c == Cardinality(Uses(lg))
    <2>1. c \in Nat /\ Answered(lg) \cup Parked(lg) \subseteq 1..c
        BY UsedApart, SpentWereUsed DEF LogOK
    <2>2. e.type = "ToolUseRecorded" => e.key = c + 1
        BY DEF Fits, FreshCall, Uses
    <2> HIDE DEF c
    <2>3. e.type = "ToolUseRecorded" => e.key \notin Answered(lg) \cup Parked(lg)
        BY <2>1, <2>2
    <2> QED
        BY <1>1, <2>3 DEF Free
<1> QED
    BY <1>4, <1>5, <1>6 DEF kg

-----------------------------------------------------------------------------
(* The invariant: what a task, an outcome and the actor may rely on.       *)

Ids(s) == {s[n].id : n \in DOMAIN s}
Distinct(s) == \A n, m \in DOMAIN s : s[n].id = s[m].id => n = m

Streaming == {"Opening", "ModelCalling"}
Unnoted   == {"Submitting", "Submitted"}
Noted     == {"Registering", "Registered"}

\* The calls a task will answer, or the one it has paused on.
Owned(lg, d) == IF d.pc = "Paused" THEN {LookupCallId(lg, d.job)} ELSE Ids(d.todo) \cup Ids(d.pend)

\* A task names a call once.
Apart(d) == Distinct(d.todo) /\ Distinct(d.pend) /\ Ids(d.todo) \cap Ids(d.pend) = {}

\* The task d of turn t: its calls are free, it streams only when its results
\* were seen by the model, and a job of the manager js that it has is in the log
\* once it was noted, under the call in hand.
TaskOK(lg, js, t, d) ==
    /\ Owned(lg, d) \subseteq Free(lg, t)
    /\ Apart(d)
    /\ d.pc \in Streaming => Consumed(lg, t, Len(lg) + 1)
    /\ d.job \in JobIds =>
        /\ d.pc \in Unnoted => LookupCallId(lg, d.job) = None /\ d.job \in js
        /\ d.pc \in Noted => LookupCallId(lg, d.job) = Head(d.pend).id
        /\ d.pc \in Noted \cup {"Paused"} => SubmittedBefore(lg, t, d.job, Len(lg) + 1)

\* A job is being submitted by one task.
SubmitsApart(ds) ==
    \A t, u \in DOMAIN ds :
        ds[t].pc \in Unnoted /\ ds[u].pc \in Unnoted /\ ds[t].job = ds[u].job /\ ds[t].job \in JobIds => t = u

\* The outcome of a turn that pauses.
OutcomeOK(lg, r) ==
    r.outcome = "Paused" => /\ LookupCallId(lg, r.job) \in Free(lg, r.turn)
                            /\ SubmittedBefore(lg, r.turn, r.job, Len(lg) + 1)

\* The turn fl the actor is paused on: its completion is in the log only between
\* the two appends that apply it.
ActorOK(lg, fl, md) ==
    fl.kind = "Paused" =>
        /\ fl.call = LookupCallId(lg, fl.job) /\ fl.call \notin Answered(lg)
        /\ \E p \in Pauses(lg) : lg[p] = TurnPaused(fl.turn, fl.job)
        /\ md = "recording" <=> \E q \in Completions(lg) : lg[q].job = fl.job

CallsHeld(lg, js, ds, rs, fl, md) ==
    /\ LogOK(lg)
    /\ \A t \in DOMAIN ds : TaskOK(lg, js, t, ds[t])
    /\ SubmitsApart(ds)
    /\ \A n \in DOMAIN rs : OutcomeOK(lg, rs[n])
    /\ ActorOK(lg, fl, md)

CallsInv == CallsHeld(log, DOMAIN jobs, drivers, results, inFlight, mode)

-----------------------------------------------------------------------------
(* A task's calls.                                                         *)

\* The first call of a queue, and the others.
LEMMA FirstCall ==
    ASSUME NEW s \in Seq(Call), s # <<>>
    PROVE  /\ Head(s) \in Call /\ Head(s).id \in Ids(s) /\ Tail(s) \in Seq(Call)
           /\ Ids(Tail(s)) \subseteq Ids(s)
           /\ Distinct(s) => Distinct(Tail(s)) /\ Head(s).id \notin Ids(Tail(s))
<1>1. /\ Tail(s) \in Seq(Call) /\ Len(s) \in Nat \ {0} /\ DOMAIN s = 1..Len(s)
      /\ DOMAIN Tail(s) = 1..(Len(s) - 1)
      /\ \A n \in 1..(Len(s) - 1) : Tail(s)[n] = s[n + 1]
      /\ Head(s) = s[1] /\ s[1] \in Call
    OBVIOUS
<1> DEFINE k == Len(s)
           r == Tail(s)
<1>2. /\ k \in Nat \ {0} /\ DOMAIN s = 1..k /\ DOMAIN r = 1..(k - 1)
      /\ \A n \in 1..(k - 1) : r[n] = s[n + 1] /\ n + 1 \in 1..k /\ n + 1 # 1
      /\ 1 \in 1..k
    BY <1>1
<1> HIDE DEF k, r
<1>3. Ids(r) \subseteq Ids(s)
    BY <1>2 DEF Ids
<1>4. Distinct(s) => Distinct(r)
    <2> SUFFICES ASSUME Distinct(s), NEW n \in 1..(k - 1), NEW m \in 1..(k - 1), r[n].id = r[m].id
                 PROVE  n = m
        BY <1>2 DEF Distinct
    <2>0. s[n + 1].id = s[m + 1].id /\ n + 1 \in DOMAIN s /\ m + 1 \in DOMAIN s
        BY <1>2
    <2>1. n + 1 = m + 1
        BY <2>0 DEF Distinct
    <2>2. n \in Int /\ m \in Int
        BY <1>2
    <2> QED
        BY <2>1, <2>2
<1>5. Distinct(s) => s[1].id \notin Ids(r)
    <2> SUFFICES ASSUME Distinct(s), NEW n \in 1..(k - 1), r[n].id = s[1].id
                 PROVE  FALSE
        BY <1>2 DEF Ids
    <2>1. n + 1 \in 1..k /\ n + 1 # 1 /\ s[n + 1].id = s[1].id /\ 1 \in 1..k
        BY <1>2
    <2>2. n + 1 = 1
        BY <1>2, <2>1 DEF Distinct
    <2> QED
        BY <2>1, <2>2
<1>6. s[1].id \in Ids(s)
    BY <1>2 DEF Ids
<1> QED
    BY <1>1, <1>3, <1>4, <1>5, <1>6 DEF r

\* A call more.
LEMMA OneMoreCall ==
    ASSUME NEW s \in Seq(Call), NEW c \in Call
    PROVE  /\ Append(s, c) \in Seq(Call)
           /\ Ids(Append(s, c)) = Ids(s) \cup {c.id}
           /\ Distinct(s) /\ c.id \notin Ids(s) => Distinct(Append(s, c))
<1> DEFINE k == Len(s)
           r == Append(s, c)
<1>1. /\ k \in Nat /\ DOMAIN s = 1..k /\ DOMAIN r = 1..(k + 1) /\ r \in Seq(Call)
      /\ (\A n \in 1..k : r[n] = s[n]) /\ r[k + 1] = c
    OBVIOUS
<1> HIDE DEF k, r
<1>2. 1..(k + 1) = 1..k \cup {k + 1}
    BY <1>1
<1>3. Ids(r) = Ids(s) \cup {c.id}
    BY <1>1, <1>2 DEF Ids
<1>4. Distinct(s) /\ c.id \notin Ids(s) => Distinct(r)
    BY <1>1, <1>2 DEF Distinct, Ids
<1> QED
    BY <1>1, <1>3, <1>4 DEF r

\* Away from the stream and from jobs, what matters is that the calls are free.
LEMMA FreeTask ==
    ASSUME NEW lg, NEW js, NEW t, NEW d, d.pc \notin Streaming \cup WithJob,
           Apart(d), Ids(d.todo) \cup Ids(d.pend) \subseteq Free(lg, t)
    PROVE  TaskOK(lg, js, t, d)
BY DEF TaskOK, Owned, Streaming, WithJob, Unnoted, Noted

-----------------------------------------------------------------------------
(* What an event leaves to the turns it is not of.                         *)

\* Another turn's answers and model calls do not matter to a turn.
LEMMA ConsumedKept ==
    ASSUME NEW lg \in Seq(Event), NEW e \in Event, NEW t,
           e.type = "ToolResultRecorded" => e.turn # t, Consumed(lg, t, Len(lg) + 1)
    PROVE  Consumed(Append(lg, e), t, Len(Append(lg, e)) + 1)
<1> DEFINE kg == Append(lg, e)
           n  == Len(lg)
<1>1. /\ n \in Nat /\ (\A i \in 1..n : kg[i] = lg[i] /\ i < n + 1 /\ i < n + 2) /\ kg[n + 1] = e /\ Len(kg) = n + 1
      /\ Answers(lg) \in SUBSET (1..n) /\ Openings(lg) \in SUBSET (1..n)
      /\ Answers(kg) = IF e.type = "ToolResultRecorded" THEN Answers(lg) \cup {n + 1} ELSE Answers(lg)
      /\ Openings(lg) \subseteq Openings(kg)
    BY AppendEvents, GrownBy
<1> HIDE DEF kg, n
<1> SUFFICES ASSUME NEW r \in Answers(kg), kg[r].turn = t
             PROVE  \E m \in Openings(kg) : r < m /\ m < n + 2 /\ kg[m].turn = t
    <2>1. Len(kg) + 1 = n + 2
        BY <1>1
    <2> QED
        BY <2>1 DEF Consumed, kg
<1>2. r \in Answers(lg) /\ lg[r].turn = t /\ r < n + 1
    BY <1>1
<1>3. PICK m \in Openings(lg) : r < m /\ m < n + 1 /\ lg[m].turn = t
    BY <1>2 DEF Consumed, n
<1> QED
    BY <1>1, <1>3

\* A submission stays one.
LEMMA SubmittedKept ==
    ASSUME NEW lg \in Seq(Event), NEW e \in Event, NEW t, NEW j, SubmittedBefore(lg, t, j, Len(lg) + 1)
    PROVE  SubmittedBefore(Append(lg, e), t, j, Len(Append(lg, e)) + 1)
<1> DEFINE kg == Append(lg, e)
           n  == Len(lg)
<1>1. /\ n \in Nat /\ Len(kg) = n + 1 /\ (\A i \in 1..n : kg[i] = lg[i] /\ i < n + 2)
      /\ Submissions(lg) \in SUBSET (1..n) /\ Submissions(lg) \subseteq Submissions(kg)
    BY AppendEvents, GrownBy
<1>2. PICK i \in Submissions(lg) : i < n + 1 /\ lg[i].job = j /\ lg[i].turn = t
    BY DEF SubmittedBefore
<1> HIDE DEF kg, n
<1>3. i \in Submissions(kg) /\ i < n + 2 /\ kg[i].job = j /\ kg[i].turn = t
    BY <1>1, <1>2
<1>4. Len(kg) + 1 = n + 2
    BY <1>1
<1> QED
    BY <1>3, <1>4 DEF SubmittedBefore, kg

\* The task d of another turn goes on as it was, if the event is not the
\* submission of its job.
LEMMA OtherTask ==
    ASSUME NEW lg \in Seq(Event), NEW e \in Event, Fits(lg, e), LogOK(lg),
           NEW js, NEW ks, js \subseteq ks,
           NEW t, NEW d, WellFormed(d), TaskOK(lg, js, t, d), t # e.turn,
           e.type = "JobSubmitted" /\ d.pc \in Unnoted /\ d.job \in JobIds => e.job # d.job
    PROVE  TaskOK(Append(lg, e), ks, t, d)
<1> DEFINE kg == Append(lg, e)
<1>1. Free(lg, t) \subseteq Free(kg, t) /\ None \notin Free(lg, t)
    BY FreeKept, UsedApart DEF LogOK
<1>2. d.pc = "Paused" => d.job \in JobIds /\ LookupCallId(lg, d.job) \in Free(lg, t)
    BY DEF WellFormed, TaskOK, Owned
<1>3. d.pc \in Noted /\ d.job \in JobIds => LookupCallId(lg, d.job) = Head(d.pend).id /\ Head(d.pend).id \in Free(lg, t)
    <2> SUFFICES ASSUME d.pc \in Noted, d.job \in JobIds
                 PROVE  LookupCallId(lg, d.job) = Head(d.pend).id /\ Head(d.pend).id \in Free(lg, t)
        OBVIOUS
    <2>1. d.pend \in Seq(Call) /\ d.pend # <<>>
        BY DEF WellFormed, Driver, Noted, Busy
    <2>2. Head(d.pend).id \in Ids(d.pend)
        BY <2>1, FirstCall
    <2> QED
        BY <2>2 DEF TaskOK, Owned, Noted
<1>4. d.pc \in Noted \cup {"Paused"} /\ d.job \in JobIds => LookupCallId(kg, d.job) = LookupCallId(lg, d.job)
    BY <1>1, <1>2, <1>3, LookupKept
<1>5. d.pc \in Unnoted /\ d.job \in JobIds => LookupCallId(kg, d.job) = LookupCallId(lg, d.job)
    BY AppendLookup
<1>6. d.pc \in Streaming => Consumed(kg, t, Len(kg) + 1)
    BY ConsumedKept DEF TaskOK
<1>7. d.job \in JobIds /\ d.pc \in Noted \cup {"Paused"} => SubmittedBefore(kg, t, d.job, Len(kg) + 1)
    BY SubmittedKept DEF TaskOK
<1> HIDE DEF kg
<1>8. Owned(kg, d) \subseteq Free(kg, t)
    BY <1>1, <1>2, <1>4 DEF Owned, TaskOK
<1>9. Apart(d)
    BY DEF TaskOK
<1>10. d.job \in JobIds =>
        /\ d.pc \in Unnoted => LookupCallId(kg, d.job) = None /\ d.job \in ks
        /\ d.pc \in Noted => LookupCallId(kg, d.job) = Head(d.pend).id
    BY <1>4, <1>5 DEF TaskOK
<1> QED
    BY <1>6, <1>7, <1>8, <1>9, <1>10 DEF TaskOK, kg

\* So does the outcome of another turn ...
LEMMA OtherOutcome ==
    ASSUME NEW lg \in Seq(Event), NEW e \in Event, Fits(lg, e), LogOK(lg),
           NEW r, r.outcome = "Paused" => r.job \in JobIds, OutcomeOK(lg, r), r.turn # e.turn
    PROVE  OutcomeOK(Append(lg, e), r)
<1> SUFFICES ASSUME r.outcome = "Paused"
             PROVE  /\ LookupCallId(Append(lg, e), r.job) \in Free(Append(lg, e), r.turn)
                    /\ SubmittedBefore(Append(lg, e), r.turn, r.job, Len(Append(lg, e)) + 1)
    BY DEF OutcomeOK
<1>1. Free(lg, r.turn) \subseteq Free(Append(lg, e), r.turn) /\ None \notin Free(lg, r.turn)
    BY FreeKept, UsedApart DEF LogOK
<1>2. LookupCallId(lg, r.job) \in Free(lg, r.turn) /\ SubmittedBefore(lg, r.turn, r.job, Len(lg) + 1)
    BY DEF OutcomeOK
<1>3. LookupCallId(Append(lg, e), r.job) = LookupCallId(lg, r.job)
    BY <1>1, <1>2, LookupKept
<1>4. SubmittedBefore(Append(lg, e), r.turn, r.job, Len(Append(lg, e)) + 1)
    BY <1>2, SubmittedKept
<1> QED
    BY <1>1, <1>2, <1>3, <1>4

\* ... and the actor that is paused on another turn.
LEMMA OtherActor ==
    ASSUME NEW lg \in Seq(Event), NEW e \in Event, Fits(lg, e), LogOK(lg),
           NEW fl, NEW md, ActorOK(lg, fl, md), fl.kind = "Paused" => fl.turn # e.turn,
           e.type # "JobCompletedRecorded"
    PROVE  ActorOK(Append(lg, e), fl, md)
<1> DEFINE kg == Append(lg, e)
           n  == Len(lg)
<1> SUFFICES ASSUME fl.kind = "Paused"
             PROVE  /\ fl.call = LookupCallId(kg, fl.job) /\ fl.call \notin Answered(kg)
                    /\ \E p \in Pauses(kg) : kg[p] = TurnPaused(fl.turn, fl.job)
                    /\ md = "recording" <=> \E q \in Completions(kg) : kg[q].job = fl.job
    BY DEF ActorOK
<1>1. /\ n \in Nat /\ (\A i \in 1..n : kg[i] = lg[i])
      /\ Pauses(lg) \in SUBSET (1..n) /\ Completions(lg) \in SUBSET (1..n)
      /\ Pauses(lg) \subseteq Pauses(kg) /\ Completions(kg) = Completions(lg)
    BY AppendEvents, GrownBy
<1>2. /\ fl.call = LookupCallId(lg, fl.job) /\ fl.call \notin Answered(lg)
      /\ md = "recording" <=> \E q \in Completions(lg) : lg[q].job = fl.job
    BY DEF ActorOK
<1>3. PICK p \in Pauses(lg) : lg[p] = TurnPaused(fl.turn, fl.job)
    BY DEF ActorOK
<1>4. lg[p].turn = fl.turn /\ lg[p].job = fl.job
    BY <1>3 DEF TurnPaused, Ev
<1>5. fl.job \in JobIds /\ CallOf(lg, p) # None /\ CallOf(lg, p) = fl.call
    BY <1>2, <1>4, CallsKept DEF LogOK, CallOf
<1>6. LookupCallId(kg, fl.job) = fl.call
    BY <1>2, <1>5, LookupKept
<1>7. fl.call \in UsedBy(lg, fl.turn)
    <2>1. UsedBefore(lg, lg[p].turn, CallOf(lg, p), p)
        BY DEF LogOK, PausesOK
    <2> QED
        BY <1>4, <1>5, <2>1 DEF UsedBefore, UsedBy
<1>8. e.type = "ToolResultRecorded" => e.key # fl.call
    <2>1. UsedBy(lg, fl.turn) \cap UsedBy(lg, e.turn) = {}
        BY UsedApart DEF LogOK
    <2> QED
        BY <1>7, <2>1 DEF Fits
<1>9. fl.call \notin Answered(kg)
    BY <1>2, <1>8, FreeParts
<1> HIDE DEF kg, n
<1>10. kg[p] = TurnPaused(fl.turn, fl.job) /\ p \in Pauses(kg)
    BY <1>1, <1>3
<1>11. md = "recording" <=> \E q \in Completions(kg) : kg[q].job = fl.job
    BY <1>1, <1>2
<1> QED
    BY <1>6, <1>9, <1>10, <1>11

-----------------------------------------------------------------------------
(* The kinds of step.                                                      *)

\* d takes a job up that nobody has, or keeps the one task t has.
TakesUp(js, ds, t, d) ==
    d.pc \in Unnoted /\ d.job \in JobIds =>
        d.job \notin js \/ (ds[t].pc \in Unnoted /\ ds[t].job = d.job)

\* Jobs that become known disturb nobody.
LEMMA MoreJobs ==
    ASSUME NEW lg, NEW js, NEW ks, js \subseteq ks, NEW t, NEW d, TaskOK(lg, js, t, d)
    PROVE  TaskOK(lg, ks, t, d)
BY DEF TaskOK

\* A task goes on as d, with its jobs its own.
LEMMA SubmitsStay ==
    ASSUME NEW lg, NEW js, NEW ds, NEW t \in DOMAIN ds, NEW d, ds = [u \in DOMAIN ds |-> ds[u]],
           \A u \in DOMAIN ds : TaskOK(lg, js, u, ds[u]), SubmitsApart(ds), TakesUp(js, ds, t, d)
    PROVE  SubmitsApart([ds EXCEPT ![t] = d])
<1> DEFINE es == [ds EXCEPT ![t] = d]
<1>1. DOMAIN es = DOMAIN ds /\ es[t] = d /\ \A u \in DOMAIN ds : u # t => es[u] = ds[u]
    OBVIOUS
<1>2. \A u \in DOMAIN ds : ds[u].pc \in Unnoted /\ ds[u].job \in JobIds => ds[u].job \in js
    BY DEF TaskOK
<1> HIDE DEF es
<1>3. \A u \in DOMAIN ds : u # t /\ d.pc \in Unnoted /\ ds[u].pc \in Unnoted /\ d.job = ds[u].job => d.job \notin JobIds
    <2> SUFFICES ASSUME NEW u \in DOMAIN ds, u # t, d.pc \in Unnoted, ds[u].pc \in Unnoted,
                        d.job = ds[u].job, d.job \in JobIds
                 PROVE  FALSE
        OBVIOUS
    <2>1. ds[t].pc \in Unnoted /\ ds[t].job = d.job
        BY <1>2 DEF TakesUp
    <2> QED
        BY <2>1 DEF SubmitsApart
<1>4. ASSUME NEW u \in DOMAIN es, NEW v \in DOMAIN es,
             es[u].pc \in Unnoted, es[v].pc \in Unnoted, es[u].job = es[v].job, es[u].job \in JobIds
      PROVE  u = v
    <2>1. CASE u = t
        BY <1>1, <1>3, <1>4, <2>1
    <2>2. CASE v = t
        BY <1>1, <1>3, <1>4, <2>2
    <2>3. CASE u # t /\ v # t
        BY <1>1, <1>4, <2>3 DEF SubmitsApart
    <2> QED
        BY <2>1, <2>2, <2>3
<1> QED
    BY <1>4 DEF SubmitsApart, es

\* A task goes on without writing.
LEMMA CallsGo ==
    ASSUME NEW lg, NEW js, NEW ks, NEW ds, NEW rs, NEW fl, NEW md,
           CallsHeld(lg, js, ds, rs, fl, md), js \subseteq ks,
           NEW t \in DOMAIN ds, NEW d, ds = [u \in DOMAIN ds |-> ds[u]],
           TaskOK(lg, ks, t, d), TakesUp(js, ds, t, d)
    PROVE  CallsHeld(lg, ks, [ds EXCEPT ![t] = d], rs, fl, md)
<1> DEFINE es == [ds EXCEPT ![t] = d]
<1>1. DOMAIN es = DOMAIN ds /\ es[t] = d /\ \A u \in DOMAIN ds : u # t => es[u] = ds[u]
    OBVIOUS
<1>2. SubmitsApart(es)
    BY SubmitsStay DEF CallsHeld
<1> HIDE DEF es
<1>3. ASSUME NEW u \in DOMAIN es
      PROVE  TaskOK(lg, ks, u, es[u])
    <2>1. CASE u = t
        BY <1>1, <2>1
    <2>2. CASE u # t
        <3>1. u \in DOMAIN ds /\ es[u] = ds[u] /\ TaskOK(lg, js, u, ds[u])
            BY <1>1, <2>2 DEF CallsHeld
        <3> QED
            BY <3>1, MoreJobs
    <2> QED
        BY <2>1, <2>2
<1> QED
    BY <1>2, <1>3 DEF CallsHeld, es

\* A task writes e and goes on as d.
LEMMA CallsWrite ==
    ASSUME NEW lg, NEW js, NEW ks, NEW ds, NEW rs, NEW fl, NEW md, Held(lg, ds, rs, fl),
           CallsHeld(lg, js, ds, rs, fl, md), js \subseteq ks,
           NEW t \in DOMAIN ds, NEW d, NEW e \in Event, e.turn = t, Fits(lg, e),
           e.type # "JobCompletedRecorded",
           e.type = "JobSubmitted" => ds[t].pc \in Unnoted /\ ds[t].job = e.job,
           TaskOK(Append(lg, e), ks, t, d), TakesUp(js, ds, t, d)
    PROVE  CallsHeld(Append(lg, e), ks, [ds EXCEPT ![t] = d], rs, fl, md)
<1> DEFINE es == [ds EXCEPT ![t] = d]
           kg == Append(lg, e)
<1>1. ds = [u \in DOMAIN ds |-> ds[u]] /\ lg \in Seq(Event) /\ rs \in Seq(Result)
    BY DEF Held, Shaped
<1>2. DOMAIN es = DOMAIN ds /\ es[t] = d /\ \A u \in DOMAIN ds : u # t => es[u] = ds[u]
    BY <1>1
<1>3. SubmitsApart(es)
    BY <1>1, SubmitsStay DEF CallsHeld
<1>4. LogOK(lg) /\ LogOK(kg)
    BY <1>1, LogKept DEF CallsHeld, Held, HoldersStarted
<1>5. ASSUME NEW u \in DOMAIN ds, u # t
      PROVE  TaskOK(kg, ks, u, ds[u])
    <2>1. WellFormed(ds[u]) /\ TaskOK(lg, js, u, ds[u])
        BY DEF Held, TasksWellFormed, CallsHeld
    <2>2. e.type = "JobSubmitted" /\ ds[u].pc \in Unnoted /\ ds[u].job \in JobIds => e.job # ds[u].job
        BY <1>5 DEF CallsHeld, SubmitsApart
    <2> QED
        BY <1>1, <1>4, <1>5, <2>1, <2>2, OtherTask
<1>6. ASSUME NEW n \in DOMAIN rs
      PROVE  OutcomeOK(kg, rs[n])
    <2>1. /\ rs[n].outcome = "Paused" => rs[n].job \in JobIds
          /\ OutcomeOK(lg, rs[n]) /\ rs[n].turn # e.turn
        BY DEF Held, PausedOnJobs, OneHolder, CallsHeld
    <2> QED
        BY <1>1, <1>4, <2>1, OtherOutcome
<1>7. ActorOK(kg, fl, md)
    <2>1. fl.kind = "Paused" => fl.turn # e.turn
        BY DEF Held, OneHolder
    <2> QED
        BY <1>1, <1>4, <2>1, OtherActor DEF CallsHeld
<1> HIDE DEF es, kg
<1>8. \A u \in DOMAIN es : TaskOK(kg, ks, u, es[u])
    BY <1>2, <1>5 DEF kg
<1> QED
    BY <1>3, <1>4, <1>6, <1>7, <1>8 DEF CallsHeld, es, kg

\* An event of a turn that neither a task nor an outcome has, by the actor.
LEMMA CallsActorWrites ==
    ASSUME NEW lg, NEW js, NEW ds, NEW rs, NEW fl, NEW md, NEW gl, NEW nd, Held(lg, ds, rs, fl),
           CallsHeld(lg, js, ds, rs, fl, md),
           NEW e \in Event, Fits(lg, e), e.type # "JobSubmitted",
           e.turn \notin DOMAIN ds, \A n \in DOMAIN rs : rs[n].turn # e.turn,
           ActorOK(Append(lg, e), gl, nd)
    PROVE  CallsHeld(Append(lg, e), js, ds, rs, gl, nd)
<1> DEFINE kg == Append(lg, e)
<1>1. lg \in Seq(Event) /\ LogOK(lg) /\ LogOK(kg)
    BY LogKept DEF CallsHeld, Held, HoldersStarted, Shaped
<1>2. ASSUME NEW u \in DOMAIN ds
      PROVE  TaskOK(kg, js, u, ds[u])
    <2>1. WellFormed(ds[u]) /\ TaskOK(lg, js, u, ds[u]) /\ u # e.turn
        BY DEF Held, TasksWellFormed, CallsHeld
    <2> QED
        BY <1>1, <2>1, OtherTask
<1>3. ASSUME NEW n \in DOMAIN rs
      PROVE  OutcomeOK(kg, rs[n])
    <2>1. /\ rs[n].outcome = "Paused" => rs[n].job \in JobIds
          /\ OutcomeOK(lg, rs[n]) /\ rs[n].turn # e.turn
        BY DEF Held, PausedOnJobs, CallsHeld
    <2> QED
        BY <1>1, <2>1, OtherOutcome
<1> HIDE DEF kg
<1> QED
    BY <1>1, <1>2, <1>3 DEF CallsHeld, kg

\* A task posts its outcome, or the outcome is dropped, and ends.
LEMMA CallsPost ==
    ASSUME NEW lg, NEW js, NEW ds, NEW rs, NEW fl, NEW md, Held(lg, ds, rs, fl),
           CallsHeld(lg, js, ds, rs, fl, md), NEW t \in DOMAIN ds, ds[t].pc \in Outcomes,
           NEW es, DOMAIN es = DOMAIN ds \ {t}, \A u \in DOMAIN es : es[u] = ds[u],
           NEW qs, \A n \in DOMAIN qs :
                       \/ n \in DOMAIN rs /\ qs[n] = rs[n]
                       \/ qs[n] = [turn |-> t, outcome |-> ds[t].pc, job |-> ds[t].job]
    PROVE  CallsHeld(lg, js, es, qs, fl, md)
<1> DEFINE r == [turn |-> t, outcome |-> ds[t].pc, job |-> ds[t].job]
<1>2. WellFormed(ds[t]) /\ TaskOK(lg, js, t, ds[t]) /\ rs \in Seq(Result)
    BY DEF Held, Shaped, TasksWellFormed, CallsHeld
<1>3. r.turn = t /\ r.outcome = ds[t].pc /\ r.job = ds[t].job
    OBVIOUS
<1>5. \A n \in DOMAIN qs : (n \in DOMAIN rs /\ qs[n] = rs[n]) \/ qs[n] = r
    OBVIOUS
<1> HIDE DEF r
<1>4. OutcomeOK(lg, r)
    BY <1>2, <1>3 DEF OutcomeOK, TaskOK, Owned, WellFormed
<1>6. \A n \in DOMAIN qs : OutcomeOK(lg, qs[n])
    <2> SUFFICES ASSUME NEW n \in DOMAIN qs
                 PROVE  OutcomeOK(lg, qs[n])
        OBVIOUS
    <2>1. \A m \in DOMAIN rs : OutcomeOK(lg, rs[m])
        BY DEF CallsHeld
    <2> QED
        BY <1>4, <1>5, <2>1
<1>7. SubmitsApart(es)
    BY DEF CallsHeld, SubmitsApart
<1>8. \A u \in DOMAIN es : TaskOK(lg, js, u, es[u])
    BY DEF CallsHeld
<1> QED
    BY <1>6, <1>7, <1>8 DEF CallsHeld

\* A turn without a task is given one that has no job.
LEMMA CallsSpawn ==
    ASSUME NEW lg, NEW js, NEW ds, NEW rs, NEW fl, NEW md, CallsHeld(lg, js, ds, rs, fl, md),
           NEW gl, NEW nd, gl.kind # "Paused", NEW t, NEW d,
           TaskOK(lg, js, t, d), d.pc \notin Unnoted
    PROVE  CallsHeld(lg, js, [u \in DOMAIN ds \cup {t} |-> IF u = t THEN d ELSE ds[u]], rs, gl, nd)
<1> DEFINE es == [u \in DOMAIN ds \cup {t} |-> IF u = t THEN d ELSE ds[u]]
<1>1. /\ DOMAIN es = DOMAIN ds \cup {t} /\ es[t] = d
      /\ \A u \in DOMAIN es : u # t => u \in DOMAIN ds /\ es[u] = ds[u]
    OBVIOUS
<1> HIDE DEF es
<1>2. ASSUME NEW u \in DOMAIN es
      PROVE  TaskOK(lg, js, u, es[u])
    <2>1. CASE u = t
        BY <1>1, <2>1
    <2>2. CASE u # t
        BY <1>1, <2>2 DEF CallsHeld
    <2> QED
        BY <2>1, <2>2
<1>3. SubmitsApart(es)
    BY <1>1 DEF CallsHeld, SubmitsApart
<1>4. ActorOK(lg, gl, nd)
    BY DEF ActorOK
<1> QED
    BY <1>2, <1>3, <1>4 DEF CallsHeld, es

\* The actor takes an outcome and holds nothing.
LEMMA CallsTake ==
    ASSUME NEW lg, NEW js, NEW ds, NEW rs, NEW fl, NEW md, NEW nd, Held(lg, ds, rs, fl), rs # <<>>,
           CallsHeld(lg, js, ds, rs, fl, md)
    PROVE  CallsHeld(lg, js, ds, Tail(rs), NoTurn, nd) /\ OutcomeOK(lg, Head(rs))
<1>1. /\ 1 \in DOMAIN rs /\ rs[1] = Head(rs)
      /\ \A n \in DOMAIN Tail(rs) : n + 1 \in DOMAIN rs /\ Tail(rs)[n] = rs[n + 1]
    BY TailOfResults DEF Held, Shaped
<1>2. OutcomeOK(lg, Head(rs)) /\ \A n \in DOMAIN Tail(rs) : OutcomeOK(lg, Tail(rs)[n])
    <2>1. \A m \in DOMAIN rs : OutcomeOK(lg, rs[m])
        BY DEF CallsHeld
    <2> HIDE DEF OutcomeOK
    <2>2. OutcomeOK(lg, Head(rs))
        BY <1>1, <2>1
    <2>3. ASSUME NEW n \in DOMAIN Tail(rs)
          PROVE  OutcomeOK(lg, Tail(rs)[n])
        <3>1. n + 1 \in DOMAIN rs /\ Tail(rs)[n] = rs[n + 1]
            BY <1>1, <2>3
        <3> QED
            BY <2>1, <3>1
    <2> QED
        BY <2>2, <2>3
<1>3. ActorOK(lg, NoTurn, nd)
    BY DEF ActorOK, NoTurn
<1> QED
    BY <1>2, <1>3 DEF CallsHeld

\* Tasks, outcomes and the actor may be lost.
LEMMA CallsLost ==
    ASSUME NEW lg, NEW js, NEW ds, NEW rs, NEW fl, NEW md, NEW nd, CallsHeld(lg, js, ds, rs, fl, md)
    PROVE  /\ CallsHeld(lg, js, ds, <<>>, NoTurn, nd)
           /\ \A ks : CallsHeld(lg, ks, [t \in {} |-> {}], <<>>, NoTurn, nd)
<1>1. ActorOK(lg, NoTurn, nd)
    BY DEF ActorOK, NoTurn
<1>2. DOMAIN <<>> = {}
    OBVIOUS
<1>3. DOMAIN [t \in {} |-> {}] = {}
    OBVIOUS
<1>4. SubmitsApart([t \in {} |-> {}])
    BY <1>3 DEF SubmitsApart
<1>5. CallsHeld(lg, js, ds, <<>>, NoTurn, nd)
    BY <1>1, <1>2 DEF CallsHeld
<1>6. ASSUME NEW ks
      PROVE  CallsHeld(lg, ks, [t \in {} |-> {}], <<>>, NoTurn, nd)
    BY <1>1, <1>2, <1>3, <1>4 DEF CallsHeld
<1> QED
    BY <1>5, <1>6

\* Nothing but the actor's mode and the manager's jobs change, or the actor lets go.
LEMMA CallsRest ==
    ASSUME NEW lg, NEW js, NEW ks, NEW ds, NEW rs, NEW fl, NEW gl, NEW md, NEW nd,
           CallsHeld(lg, js, ds, rs, fl, md), js \subseteq ks,
           gl.kind # "Paused" \/ (gl = fl /\ (md = "recording" <=> nd = "recording"))
    PROVE  CallsHeld(lg, ks, ds, rs, gl, nd)
<1>1. ActorOK(lg, gl, nd)
    BY DEF CallsHeld, ActorOK
<1>2. \A t \in DOMAIN ds : TaskOK(lg, ks, t, ds[t])
    BY MoreJobs DEF CallsHeld
<1> QED
    BY <1>1, <1>2 DEF CallsHeld

\* The manager forgets no job while the process lives.
LEMMA JobsKept ==
    \/ \E j \in JobIds : \/ Submit(j) \/ PatchAbort(j) \/ Complete(j, "Completed") \/ WorkerAborts(j) \/ Cancel(j)
                         \/ \E s \in Sinks : OnComplete(j, s)
    \/ \E x \in sends : Deliver(x)
    \/ \E s \in Sinks : Receive(s) \/ CloseSink(s)
    \/ UNCHANGED jobs
    => DOMAIN jobs \subseteq DOMAIN jobs'
<1> SUFFICES ASSUME \/ \E j \in JobIds : \/ Submit(j) \/ PatchAbort(j) \/ Complete(j, "Completed")
                                         \/ WorkerAborts(j) \/ Cancel(j)
                                         \/ \E s \in Sinks : OnComplete(j, s)
                    \/ \E x \in sends : Deliver(x)
                    \/ \E s \in Sinks : Receive(s) \/ CloseSink(s)
                    \/ UNCHANGED jobs
             PROVE  DOMAIN jobs \subseteq DOMAIN jobs'
    OBVIOUS
<1>1. CASE \E j \in JobIds : Submit(j)
    BY <1>1 DEF Submit
<1>2. CASE \E j \in JobIds : PatchAbort(j)
    BY <1>2 DEF PatchAbort
<1>3. CASE \E j \in JobIds : Complete(j, "Completed") \/ WorkerAborts(j)
    BY <1>3 DEF Complete, WorkerAborts
<1>4. CASE \E j \in JobIds : Cancel(j)
    BY <1>4 DEF Cancel
<1>5. CASE \E j \in JobIds : \E s \in Sinks : OnComplete(j, s)
    BY <1>5 DEF OnComplete
<1>6. CASE (\E x \in sends : Deliver(x)) \/ (\E s \in Sinks : Receive(s) \/ CloseSink(s))
    BY <1>6 DEF Deliver, Receive, CloseSink
<1>7. CASE UNCHANGED jobs
    BY <1>7
<1> QED
    BY <1>1, <1>2, <1>3, <1>4, <1>5, <1>6, <1>7

-----------------------------------------------------------------------------
(* The steps of a task.                                                    *)

\* A task moves on with the calls it has, and so it does past an event that
\* spends none of them.
LEMMA OnwardTask ==
    ASSUME NEW lg, NEW js, NEW ks, NEW t, NEW c, NEW d, TaskOK(lg, js, t, c), c.pc # "Paused",
           d.pc \notin Streaming \cup WithJob, d.todo = c.todo, d.pend = c.pend
    PROVE  TaskOK(lg, ks, t, d)
<1>1. Apart(d) /\ Ids(d.todo) \cup Ids(d.pend) \subseteq Free(lg, t)
    BY DEF TaskOK, Owned, Apart
<1> QED
    BY <1>1, FreeTask

LEMMA OnwardPast ==
    ASSUME NEW lg \in Seq(Event), NEW e \in Event, Fits(lg, e), LogOK(lg), Spent(lg, e) = {},
           NEW js, NEW ks, NEW t, NEW c, NEW d, TaskOK(lg, js, t, c), c.pc # "Paused",
           d.pc \notin Streaming \cup WithJob, d.todo = c.todo, d.pend = c.pend
    PROVE  TaskOK(Append(lg, e), ks, t, d)
<1>1. Apart(d) /\ Ids(d.todo) \cup Ids(d.pend) \subseteq Free(lg, t)
    BY DEF TaskOK, Owned, Apart
<1>2. Free(lg, t) \subseteq Free(Append(lg, e), t)
    BY FreeKept
<1> QED
    BY <1>1, <1>2, FreeTask

\* A free call may be answered.
LEMMA FreeFits ==
    ASSUME NEW lg \in Seq(Event), NEW t \in Nat, NEW c \in Nat, c \in Free(lg, t)
    PROVE  /\ ToolResult(t, c) \in Event /\ ToolResult(t, c).turn = t /\ ToolResult(t, c).key = c
           /\ ToolResult(t, c).type = "ToolResultRecorded"
           /\ Fits(lg, ToolResult(t, c)) /\ Spent(lg, ToolResult(t, c)) = {c}
<1> DEFINE e == ToolResult(t, c)
<1>1. e \in Event
    BY EventTypesOK
<1>2. e.type = "ToolResultRecorded" /\ e.turn = t /\ e.key = c
    BY DEF ToolResult, Ev
<1> HIDE DEF e
<1>3. e.key \in UsedBy(lg, e.turn) \ Answered(lg) /\ \A p \in Pauses(lg) : CallOf(lg, p) # e.key
    BY <1>2 DEF Free, Parked
<1>4. Fits(lg, e)
    BY <1>2, <1>3 DEF Fits
<1>5. Spent(lg, e) = {c}
    BY <1>2 DEF Spent
<1> QED
    BY <1>1, <1>2, <1>4, <1>5 DEF e

\* The task of turn t goes on as d ...
Moves(t, d) ==
    /\ drivers' = [drivers EXCEPT ![t] = d]
    /\ log' = log /\ results' = results
    /\ TaskOK(log, DOMAIN jobs', t, d)
    /\ TakesUp(DOMAIN jobs, drivers, t, d)

\* ... or writes e, and goes on as d.
Notes(t, d, e) ==
    /\ drivers' = [drivers EXCEPT ![t] = d]
    /\ e \in Event /\ e.turn = t /\ log' = Append(log, e) /\ results' = results
    /\ Fits(log, e) /\ e.type # "JobCompletedRecorded"
    /\ e.type = "JobSubmitted" => drivers[t].pc \in Unnoted /\ drivers[t].job = e.job
    /\ TaskOK(Append(log, e), DOMAIN jobs', t, d)
    /\ TakesUp(DOMAIN jobs, drivers, t, d)

\* A step on the way that writes nothing.
LEMMA OnwardMoves ==
    ASSUME NEW t \in DOMAIN drivers, NEW d, TaskOK(log, DOMAIN jobs, t, drivers[t]), drivers[t].pc # "Paused",
           drivers' = [drivers EXCEPT ![t] = d], log' = log, results' = results,
           d.pc \notin Streaming \cup WithJob, d.todo = drivers[t].todo, d.pend = drivers[t].pend
    PROVE  Moves(t, d)
<1>1. TaskOK(log, DOMAIN jobs', t, d)
    BY OnwardTask
<1> QED
    BY <1>1 DEF Moves, TakesUp, WithJob, Unnoted

\* The steps of a task outside the stream and the dispatch of a job.
LEMMA QuietMoves ==
    ASSUME SessionInv, CallsInv, NEW t \in DOMAIN drivers,
           \/ InitTransit(t) \/ ContextManagedTransit(t) \/ DemuxEnd(t) \/ CountErrors(t) \/ DispatchDone(t)
    PROVE  \E d : Moves(t, d)
<1> USE DEF At, Goto
<1>1. drivers[t] \in Driver /\ TaskOK(log, DOMAIN jobs, t, drivers[t])
    BY DEF SessionInv, Held, TasksWellFormed, WellFormed, CallsInv, CallsHeld
<1>2. CASE InitTransit(t) \/ ContextManagedTransit(t) \/ DispatchDone(t)
    <2>1. PICK pc \in {"Failing", "ContextManaged", "PromptBuilt", "Init"} :
              drivers' = [drivers EXCEPT ![t].pc = pc] /\ drivers[t].pc # "Paused"
        BY <1>2 DEF InitTransit, ContextManagedTransit, DispatchDone
    <2> DEFINE d == [drivers[t] EXCEPT !.pc = pc]
    <2>2. drivers' = [drivers EXCEPT ![t] = d]
        BY <2>1
    <2>3. d.pc = pc /\ d.todo = drivers[t].todo /\ d.pend = drivers[t].pend
        BY <1>1 DEF Driver
    <2>4. log' = log /\ results' = results
        BY <1>2 DEF InitTransit, ContextManagedTransit, DispatchDone
    <2> HIDE DEF d
    <2>5. Moves(t, d)
        BY <1>1, <2>1, <2>2, <2>3, <2>4, OnwardMoves DEF Streaming, WithJob
    <2> QED
        BY <2>5
<1>3. CASE DemuxEnd(t)
    <2>1. CASE drivers' = [drivers EXCEPT ![t].pc = "Failing"]
        <3> DEFINE d == [drivers[t] EXCEPT !.pc = "Failing"]
        <3>1. drivers' = [drivers EXCEPT ![t] = d]
            BY <2>1
        <3>2. d.pc = "Failing" /\ d.todo = drivers[t].todo /\ d.pend = drivers[t].pend
            BY <1>1 DEF Driver
        <3>3. log' = log /\ results' = results /\ drivers[t].pc # "Paused"
            BY <1>3 DEF DemuxEnd
        <3> HIDE DEF d
        <3>4. Moves(t, d)
            BY <1>1, <3>1, <3>2, <3>3, OnwardMoves DEF Streaming, WithJob
        <3> QED
            BY <3>4
    <2>2. CASE drivers' = [drivers EXCEPT ![t].pc = "ModelCompleted", ![t].bad = FALSE]
        <3> DEFINE no == FALSE
        <3> HIDE DEF no
        <3> DEFINE d == [drivers[t] EXCEPT !.pc = "ModelCompleted", !.bad = no]
        <3>1. drivers' = [drivers EXCEPT ![t] = d]
            BY <2>2 DEF no
        <3>2. d.pc = "ModelCompleted" /\ d.todo = drivers[t].todo /\ d.pend = drivers[t].pend
            BY <1>1 DEF Driver
        <3>3. log' = log /\ results' = results /\ drivers[t].pc # "Paused"
            BY <1>3 DEF DemuxEnd
        <3> HIDE DEF d
        <3>4. Moves(t, d)
            BY <1>1, <3>1, <3>2, <3>3, OnwardMoves DEF Streaming, WithJob
        <3> QED
            BY <3>4
    <2> QED
        BY <1>3, <2>1, <2>2 DEF DemuxEnd
<1>4. CASE CountErrors(t)
    <2> DEFINE streak == IF drivers[t].pend = <<>> THEN drivers[t].streak + 1 ELSE 0
               pc == IF streak >= MAX_CONSECUTIVE_TOOL_ERRORS THEN "Failing" ELSE "ToolDispatching"
    <2>1. /\ pc \in {"Failing", "ToolDispatching"}
          /\ drivers[t].pc = "ModelCompleted"
          /\ drivers' = [drivers EXCEPT ![t].streak = streak, ![t].pc = pc]
        <3>1. pc \in {"Failing", "ToolDispatching"}
            OBVIOUS
        <3>2. drivers[t].pc = "ModelCompleted"
            BY <1>4 DEF CountErrors, At
        <3>3. drivers' = [drivers EXCEPT ![t].streak = streak, ![t].pc = pc]
            BY <1>4, Zenon DEF CountErrors
        <3> QED
            BY <3>1, <3>2, <3>3
    <2> HIDE DEF streak, pc
    <2> DEFINE d == [drivers[t] EXCEPT !.streak = streak, !.pc = pc]
    <2>2. drivers' = [drivers EXCEPT ![t] = d]
        BY <2>1
    <2>3. d.pc = pc /\ d.todo = drivers[t].todo /\ d.pend = drivers[t].pend
        BY <1>1 DEF Driver
    <2>4. log' = log /\ results' = results
        BY <1>4 DEF CountErrors
    <2> HIDE DEF d
    <2>5. Moves(t, d)
        BY <1>1, <2>1, <2>2, <2>3, <2>4, OnwardMoves DEF Streaming, WithJob
    <2> QED
        BY <2>5
<1> QED
    BY <1>2, <1>3, <1>4

\* A step on the way that answers a call c of the task's.
LEMMA AnswerNotes ==
    ASSUME SessionInv, CallsInv, NEW t \in DOMAIN drivers, NEW d, NEW c \in Call,
           drivers[t].pc # "Paused", c.id \in Ids(drivers[t].todo) \cup Ids(drivers[t].pend),
           drivers' = [drivers EXCEPT ![t] = d], log' = Append(log, ToolResult(t, c.id)), results' = results,
           d.pc \notin Streaming \cup WithJob, Apart(d),
           Ids(d.todo) \cup Ids(d.pend) \subseteq (Ids(drivers[t].todo) \cup Ids(drivers[t].pend)) \ {c.id}
    PROVE  Notes(t, d, ToolResult(t, c.id))
<1> DEFINE e == ToolResult(t, c.id)
<1>1. /\ TaskOK(log, DOMAIN jobs, t, drivers[t]) /\ t \in Nat /\ c.id \in Nat /\ log \in Seq(Event)
      /\ LogOK(log)
    BY DEF SessionInv, Held, Shaped, CallsInv, CallsHeld, Call
<1>2. Ids(drivers[t].todo) \cup Ids(drivers[t].pend) \subseteq Free(log, t)
    BY <1>1 DEF TaskOK, Owned
<1>3. /\ e \in Event /\ e.turn = t /\ e.type = "ToolResultRecorded"
      /\ Fits(log, e) /\ Spent(log, e) = {c.id}
    BY <1>1, <1>2, FreeFits
<1> HIDE DEF e
<1>4. Free(log, t) \ {c.id} \subseteq Free(Append(log, e), t)
    BY <1>1, <1>3, FreeKept
<1>5. TaskOK(Append(log, e), DOMAIN jobs', t, d)
    BY <1>2, <1>4, FreeTask
<1>6. log' = Append(log, e)
    BY DEF e
<1> QED
    BY <1>3, <1>5, <1>6 DEF Notes, TakesUp, WithJob, Unnoted, e

\* The loop over the calls of a response, and the result of a call.
LEMMA AnswerSteps ==
    ASSUME SessionInv, CallsInv, NEW t \in DOMAIN drivers, Resolve(t) \/ RecordToolResult(t)
    PROVE  \E d : Moves(t, d) \/ \E e : Notes(t, d, e)
<1> USE DEF At, Goto
<1>1. drivers[t] \in Driver /\ WellFormed(drivers[t]) /\ TaskOK(log, DOMAIN jobs, t, drivers[t])
    BY DEF SessionInv, Held, TasksWellFormed, WellFormed, CallsInv, CallsHeld
<1> DEFINE s == drivers[t].todo
           q == drivers[t].pend
<1>2. s \in Seq(Call) /\ q \in Seq(Call) /\ Distinct(s) /\ Distinct(q) /\ Ids(s) \cap Ids(q) = {}
    BY <1>1 DEF Driver, TaskOK, Apart
<1>3. drivers[t].pc # "Paused" => Ids(s) \cup Ids(q) \subseteq Free(log, t)
    BY <1>1 DEF TaskOK, Owned
<1>4. CASE Resolve(t)
    <2> DEFINE c == Head(s)
    <2>1. s # <<>> /\ drivers[t].pc = "ModelCompleted" /\ results' = results
        BY <1>4 DEF Resolve
    <2>2. c \in Call /\ c.id \in Ids(s) /\ Tail(s) \in Seq(Call) /\ Ids(Tail(s)) \subseteq Ids(s)
          /\ Distinct(Tail(s)) /\ c.id \notin Ids(Tail(s))
        BY <1>2, <2>1, FirstCall
    <2>3. CASE c.ok
        <3> DEFINE d == [drivers[t] EXCEPT !.todo = Tail(s), !.pend = Append(q, c)]
        <3>1. drivers' = [drivers EXCEPT ![t].todo = Tail(@), ![t].pend = Append(@, c)] /\ log' = log
            BY <1>4, <2>3 DEF Resolve
        <3>2. drivers' = [drivers EXCEPT ![t] = d]
            BY <3>1
        <3>3. d.pc = "ModelCompleted" /\ d.todo = Tail(s) /\ d.pend = Append(q, c)
            BY <1>1, <2>1 DEF Driver
        <3>4. c.id \notin Ids(q)
            BY <1>2, <2>2
        <3>5. Ids(Append(q, c)) = Ids(q) \cup {c.id} /\ Distinct(Append(q, c))
            BY <1>2, <2>2, <3>4, OneMoreCall
        <3> HIDE DEF d, c, s, q
        <3>6. Apart(d)
            BY <1>2, <2>2, <3>3, <3>5 DEF Apart
        <3>7. Ids(d.todo) \cup Ids(d.pend) \subseteq Free(log, t)
            BY <1>3, <2>1, <2>2, <3>3, <3>5
        <3>8. d.pc \notin Streaming \cup WithJob
            BY <3>3 DEF Streaming, WithJob
        <3>9. TaskOK(log, DOMAIN jobs', t, d)
            BY <3>6, <3>7, <3>8, FreeTask
        <3>10. Moves(t, d)
            BY <2>1, <3>1, <3>2, <3>8, <3>9 DEF Moves, TakesUp, WithJob, Unnoted
        <3> QED
            BY <3>10
    <2>4. CASE ~c.ok
        <3> DEFINE yes == TRUE
        <3> HIDE DEF yes
        <3> DEFINE d == [drivers[t] EXCEPT !.todo = Tail(s), !.bad = yes]
        <3>1. /\ drivers' = [drivers EXCEPT ![t].todo = Tail(@), ![t].bad = yes]
              /\ log' = Append(log, ToolResult(t, c.id))
            BY <1>4, <2>4 DEF Resolve, Record, yes
        <3>2. drivers' = [drivers EXCEPT ![t] = d]
            BY <3>1
        <3>3. d.pc = "ModelCompleted" /\ d.todo = Tail(s) /\ d.pend = q
            BY <1>1, <2>1 DEF Driver
        <3> HIDE DEF d
        <3>4. c.id \in Ids(s) \cup Ids(q) /\ c.id \notin Ids(q)
            BY <1>2, <2>2
        <3> HIDE DEF c
        <3>5. Apart(d)
            BY <1>2, <2>2, <3>3 DEF Apart
        <3>6. d.pc \notin Streaming \cup WithJob
            BY <3>3 DEF Streaming, WithJob
        <3>7. Ids(d.todo) \cup Ids(d.pend) \subseteq (Ids(s) \cup Ids(q)) \ {c.id}
            BY <2>2, <3>3, <3>4
        <3>8. drivers[t].pc # "Paused"
            BY <2>1
        <3>9. Notes(t, d, ToolResult(t, c.id))
            BY <2>1, <2>2, <3>1, <3>2, <3>4, <3>5, <3>6, <3>7, <3>8, AnswerNotes
        <3> QED
            BY <3>9
    <2> QED
        BY <2>3, <2>4
<1>5. CASE RecordToolResult(t)
    <2> DEFINE c == Head(q)
               d == [drivers[t] EXCEPT !.pc = "ToolDispatching", !.pend = Tail(q), !.job = None]
    <2>1. /\ drivers[t].pc = "Invoked" /\ results' = results
          /\ drivers' = [drivers EXCEPT ![t].pc = "ToolDispatching", ![t].pend = Tail(@), ![t].job = None]
          /\ log' = Append(log, ToolResult(t, c.id))
        BY <1>5 DEF RecordToolResult, Record
    <2>2. q # <<>>
        BY <1>1, <2>1 DEF WellFormed, Busy
    <2>3. c \in Call /\ c.id \in Ids(q) /\ Tail(q) \in Seq(Call) /\ Ids(Tail(q)) \subseteq Ids(q)
          /\ Distinct(Tail(q)) /\ c.id \notin Ids(Tail(q))
        BY <1>2, <2>2, FirstCall
    <2>4. drivers' = [drivers EXCEPT ![t] = d]
        BY <2>1
    <2>5. d.pc = "ToolDispatching" /\ d.todo = s /\ d.pend = Tail(q)
        BY <1>1 DEF Driver
    <2> HIDE DEF d
    <2>6. c.id \in Ids(s) \cup Ids(q) /\ c.id \notin Ids(s)
        BY <1>2, <2>3
    <2> HIDE DEF c
    <2>7. Apart(d)
        BY <1>2, <2>3, <2>5 DEF Apart
    <2>8. d.pc \notin Streaming \cup WithJob
        BY <2>5 DEF Streaming, WithJob
    <2>9. Ids(d.todo) \cup Ids(d.pend) \subseteq (Ids(s) \cup Ids(q)) \ {c.id}
        BY <2>3, <2>5, <2>6
    <2>10. drivers[t].pc # "Paused"
        BY <2>1
    <2>11. Notes(t, d, ToolResult(t, c.id))
        BY <2>1, <2>3, <2>4, <2>6, <2>7, <2>8, <2>9, <2>10, AnswerNotes
    <2> QED
        BY <2>11
<1> QED
    BY <1>4, <1>5

\* The ends of a turn, the model's answer and the stop reason spend no call.
LEMMA PlainNotes ==
    ASSUME SessionInv, CallsInv, NEW t \in DOMAIN drivers, NEW d, NEW e \in Event,
           e.type \in {"TurnCompleted", "TurnFailed", "ModelCallCompleted"}, e.turn = t,
           e.type = "ModelCallCompleted" => drivers[t].pc \in Streaming,
           drivers[t].pc # "Paused",
           drivers' = [drivers EXCEPT ![t] = d], log' = Append(log, e), results' = results,
           d.pc \notin Streaming \cup WithJob, d.todo = drivers[t].todo, d.pend = drivers[t].pend
    PROVE  Notes(t, d, e)
<1>1. TaskOK(log, DOMAIN jobs, t, drivers[t]) /\ log \in Seq(Event) /\ LogOK(log)
    BY DEF SessionInv, Held, Shaped, CallsInv, CallsHeld
<1>2. Fits(log, e) /\ Spent(log, e) = {}
    BY <1>1 DEF Fits, Spent, TaskOK
<1>3. TaskOK(Append(log, e), DOMAIN jobs', t, d)
    BY <1>1, <1>2, OnwardPast
<1> QED
    BY <1>2, <1>3 DEF Notes, TakesUp, WithJob, Unnoted

LEMMA PlainSteps ==
    ASSUME SessionInv, CallsInv, NEW t \in DOMAIN drivers,
           RecordTurnFailed(t) \/ RecordTurnCompleted(t) \/ DemuxMessageCompleted(t)
    PROVE  \E d, e : Notes(t, d, e)
<1> USE DEF At, Goto
<1>1. drivers[t] \in Driver /\ t \in Nat
    BY DEF SessionInv, Held, Shaped, TasksWellFormed, WellFormed
<1>2. PICK pc \in {"Failed", "Completed", "Sealed"} :
          /\ drivers' = [drivers EXCEPT ![t].pc = pc] /\ drivers[t].pc # "Paused" /\ results' = results
    BY DEF RecordTurnFailed, RecordTurnCompleted, DemuxMessageCompleted
<1>3. PICK e \in Event : /\ e.type \in {"TurnCompleted", "TurnFailed", "ModelCallCompleted"} /\ e.turn = t
                         /\ e.type = "ModelCallCompleted" => drivers[t].pc \in Streaming
                         /\ log' = Append(log, e)
    <2>1. CASE RecordTurnFailed(t)
        <3>1. log' = Append(log, TurnFailed(t)) /\ TurnFailed(t) \in Event
            BY <1>1, <2>1, EventTypesOK DEF RecordTurnFailed, Record
        <3>2. TurnFailed(t).type = "TurnFailed" /\ TurnFailed(t).turn = t
            BY DEF TurnFailed, Ev
        <3> QED
            BY <3>1, <3>2
    <2>2. CASE RecordTurnCompleted(t)
        <3>1. log' = Append(log, TurnCompleted(t)) /\ TurnCompleted(t) \in Event
            BY <1>1, <2>2, EventTypesOK DEF RecordTurnCompleted, Record
        <3>2. TurnCompleted(t).type = "TurnCompleted" /\ TurnCompleted(t).turn = t
            BY DEF TurnCompleted, Ev
        <3> QED
            BY <3>1, <3>2
    <2>3. CASE DemuxMessageCompleted(t)
        <3>1. PICK stop \in StopReasons : log' = Append(log, ModelCallCompleted(t, stop))
            BY <2>3 DEF DemuxMessageCompleted
        <3>2. ModelCallCompleted(t, stop) \in Event /\ drivers[t].pc \in Streaming
            BY <1>1, <2>3, EventTypesOK DEF DemuxMessageCompleted, Streaming
        <3>3. ModelCallCompleted(t, stop).type = "ModelCallCompleted" /\ ModelCallCompleted(t, stop).turn = t
            BY DEF ModelCallCompleted, Ev
        <3> QED
            BY <3>1, <3>2, <3>3
    <2> QED
        BY <2>1, <2>2, <2>3
<1> DEFINE d == [drivers[t] EXCEPT !.pc = pc]
<1>4. drivers' = [drivers EXCEPT ![t] = d]
    BY <1>2
<1>5. d.pc \notin Streaming \cup WithJob /\ d.todo = drivers[t].todo /\ d.pend = drivers[t].pend
    BY <1>1 DEF Driver, Streaming, WithJob
<1> HIDE DEF d
<1>6. Notes(t, d, e)
    BY <1>2, <1>3, <1>4, <1>5, PlainNotes
<1> QED
    BY <1>6

\* The model is called on all the results the turn has.
LEMMA OpeningNotes ==
    ASSUME SessionInv, CallsInv, NEW t \in DOMAIN drivers, RecordModelCallStarted(t)
    PROVE  \E d, e : Notes(t, d, e)
<1> USE DEF At, Goto
<1> DEFINE e == ModelCallStarted(t)
           n == Len(log)
           kg == Append(log, e)
           d == [drivers[t] EXCEPT !.pc = "Opening", !.mcalls = drivers[t].mcalls + 1]
<1>1. drivers[t] \in Driver /\ t \in Nat /\ TaskOK(log, DOMAIN jobs, t, drivers[t]) /\ log \in Seq(Event) /\ LogOK(log)
    BY DEF SessionInv, Held, Shaped, TasksWellFormed, WellFormed, CallsInv, CallsHeld
<1>2. /\ drivers' = [drivers EXCEPT ![t] = d] /\ log' = Append(log, e) /\ results' = results
      /\ drivers[t].pc = "PromptBuilt"
    BY DEF RecordModelCallStarted, Record
<1>3. d.pc = "Opening" /\ d.todo = drivers[t].todo /\ d.pend = drivers[t].pend
    BY <1>1 DEF Driver
<1>4. e \in Event /\ e.turn = t /\ e.type = "ModelCallStarted"
    BY <1>1, EventTypesOK DEF ModelCallStarted, Ev
<1> HIDE DEF d, e
<1>5. Fits(log, e) /\ Spent(log, e) = {}
    BY <1>4 DEF Fits, Spent
<1>6. Owned(kg, d) \subseteq Free(kg, t) /\ Apart(d)
    <2>1. Free(log, t) \subseteq Free(kg, t)
        BY <1>1, <1>4, <1>5, FreeKept
    <2>2. Ids(drivers[t].todo) \cup Ids(drivers[t].pend) \subseteq Free(log, t) /\ Apart(drivers[t])
        BY <1>1, <1>2 DEF TaskOK, Owned
    <2> QED
        BY <1>3, <2>1, <2>2 DEF Owned, Apart
<1>7. Consumed(kg, t, Len(kg) + 1)
    <2>1. /\ n \in Nat /\ (\A i \in 1..n : i < n + 1) /\ kg[n + 1] = e /\ Len(kg) = n + 1 /\ n + 1 < n + 2
          /\ Answers(kg) = Answers(log) /\ Answers(log) \in SUBSET (1..n)
          /\ Openings(kg) = Openings(log) \cup {n + 1}
        BY <1>1, <1>4, AppendEvents, GrownBy
    <2>2. Len(kg) + 1 = n + 2
        BY <2>1
    <2> HIDE DEF n, kg
    <2> QED
        BY <1>4, <2>1, <2>2 DEF Consumed
<1>8. TaskOK(kg, DOMAIN jobs', t, d)
    BY <1>3, <1>6, <1>7 DEF TaskOK, Unnoted, Noted
<1>9. Notes(t, d, e)
    BY <1>2, <1>3, <1>4, <1>5, <1>8 DEF Notes, TakesUp, Unnoted
<1> QED
    BY <1>9

\* The stream is opened, or the gateway fails.
LEMMA OpenMoves ==
    ASSUME SessionInv, CallsInv, NEW t \in DOMAIN drivers, OpenStream(t)
    PROVE  \E d : Moves(t, d)
<1> USE DEF At, Goto
<1>1. drivers[t] \in Driver /\ TaskOK(log, DOMAIN jobs, t, drivers[t])
    BY DEF SessionInv, Held, TasksWellFormed, WellFormed, CallsInv, CallsHeld
<1>2. log' = log /\ results' = results /\ drivers[t].pc = "Opening"
    BY DEF OpenStream
<1>3. CASE drivers' = [drivers EXCEPT ![t].pc = "ModelCalling", ![t].todo = <<>>]
    <2> DEFINE none == <<>>
    <2>0. DOMAIN none = {}
        OBVIOUS
    <2> HIDE DEF none
    <2> DEFINE d == [drivers[t] EXCEPT !.pc = "ModelCalling", !.todo = none]
    <2>1. drivers' = [drivers EXCEPT ![t] = d]
        BY <1>3 DEF none
    <2>2. d.pc = "ModelCalling" /\ d.todo = none /\ d.pend = drivers[t].pend
        BY <1>1 DEF Driver
    <2> HIDE DEF d
    <2>3. Ids(none) = {} /\ Distinct(none)
        BY <2>0 DEF Ids, Distinct
    <2>4. Ids(drivers[t].pend) \subseteq Free(log, t) /\ Distinct(drivers[t].pend) /\ Consumed(log, t, Len(log) + 1)
        BY <1>1, <1>2 DEF TaskOK, Owned, Apart, Streaming
    <2>5. Owned(log, d) \subseteq Free(log, t) /\ Apart(d)
        BY <2>2, <2>3, <2>4 DEF Owned, Apart
    <2>6. Moves(t, d)
        BY <1>2, <2>1, <2>2, <2>4, <2>5 DEF Moves, TaskOK, TakesUp, Unnoted, Noted
    <2> QED
        BY <2>6
<1>4. CASE drivers' = [drivers EXCEPT ![t].pc = "Failing"]
    <2> DEFINE d == [drivers[t] EXCEPT !.pc = "Failing"]
    <2>1. drivers' = [drivers EXCEPT ![t] = d]
        BY <1>4
    <2>2. d.pc = "Failing" /\ d.todo = drivers[t].todo /\ d.pend = drivers[t].pend
        BY <1>1 DEF Driver
    <2> HIDE DEF d
    <2>3. Moves(t, d)
        BY <1>1, <1>2, <2>1, <2>2, OnwardMoves DEF Streaming, WithJob
    <2> QED
        BY <2>3
<1> QED
    BY <1>3, <1>4 DEF OpenStream

\* A call the model makes is a new one.
LEMMA ToolUseNotes ==
    ASSUME SessionInv, CallsInv, NEW t \in DOMAIN drivers, DemuxToolUse(t)
    PROVE  \E d, e : Notes(t, d, e)
<1> USE DEF At
<1>1. PICK check \in Checks :
          /\ drivers[t].pc = "ModelCalling" /\ results' = results
          /\ log' = Append(log, ToolUse(t, FreshCall(log), check))
          /\ drivers' = [drivers EXCEPT ![t].todo = Append(@, [id |-> FreshCall(log), ok |-> check = "valid"])]
    BY DEF DemuxToolUse
<1> DEFINE s == drivers[t].todo
           q == drivers[t].pend
           c == [id |-> FreshCall(log), ok |-> check = "valid"]
           e == ToolUse(t, FreshCall(log), check)
           kg == Append(log, e)
           d == [drivers[t] EXCEPT !.todo = Append(s, c)]
<1>2. /\ drivers[t] \in Driver /\ t \in Nat /\ TaskOK(log, DOMAIN jobs, t, drivers[t])
      /\ log \in Seq(Event) /\ LogOK(log)
    BY DEF SessionInv, Held, Shaped, TasksWellFormed, WellFormed, CallsInv, CallsHeld
<1>3. FreshCall(log) \in Nat /\ FreshCall(log) \notin 1..Cardinality(Uses(log))
    <2>1. Cardinality(Uses(log)) \in Nat
        BY <1>2, UsedApart DEF LogOK
    <2> QED
        BY <2>1 DEF FreshCall, Uses
<1>4. c \in Call /\ c.id = FreshCall(log)
    BY <1>3 DEF Call
<1>5. e \in Event /\ e.turn = t /\ e.type = "ToolUseRecorded" /\ e.key = FreshCall(log)
    <2>1. check \in {"valid", "invalid"}
        BY ChecksAssumption
    <2>2. e \in Event
        BY <1>2, <1>3, <2>1, EventTypesOK
    <2> QED
        BY <2>2 DEF ToolUse, Ev
<1>6. s \in Seq(Call) /\ Distinct(s) /\ Distinct(q) /\ Ids(s) \cap Ids(q) = {}
      /\ Ids(s) \cup Ids(q) \subseteq Free(log, t) /\ Consumed(log, t, Len(log) + 1)
    BY <1>1, <1>2 DEF Driver, TaskOK, Owned, Apart, Streaming
<1>7. d.pc = "ModelCalling" /\ d.todo = Append(s, c) /\ d.pend = q
    BY <1>1, <1>2 DEF Driver
<1>8. drivers' = [drivers EXCEPT ![t] = d]
    BY <1>1
<1>9. log' = Append(log, e)
    BY <1>1
<1> HIDE DEF d, c, e
<1>10. Fits(log, e) /\ Spent(log, e) = {}
    BY <1>5 DEF Fits, Spent
<1>11. Free(log, t) \subseteq Free(kg, t) /\ c.id \in Free(kg, t)
    BY <1>2, <1>4, <1>5, <1>10, FreeKept
<1>12. c.id \notin Ids(s) \cup Ids(q)
    <2>1. Free(log, t) \subseteq 1..Cardinality(Uses(log))
        BY <1>2, UsedApart DEF LogOK
    <2> QED
        BY <1>3, <1>4, <1>6, <2>1
<1>13. Ids(Append(s, c)) = Ids(s) \cup {c.id} /\ Distinct(Append(s, c))
    BY <1>4, <1>6, <1>12, OneMoreCall
<1>14. Consumed(kg, t, Len(kg) + 1)
    BY <1>2, <1>5, <1>6, ConsumedKept
<1> HIDE DEF kg, s, q
<1>15. Owned(kg, d) \subseteq Free(kg, t)
    BY <1>6, <1>7, <1>11, <1>13 DEF Owned
<1>16. Apart(d)
    BY <1>6, <1>7, <1>12, <1>13 DEF Apart
<1>17. TaskOK(kg, DOMAIN jobs', t, d)
    BY <1>7, <1>14, <1>15, <1>16 DEF TaskOK, Unnoted, Noted
<1>18. Notes(t, d, e)
    BY <1>1, <1>5, <1>7, <1>8, <1>9, <1>10, <1>17 DEF Notes, TakesUp, Unnoted, kg
<1> QED
    BY <1>18

\* A tool is invoked, and may take a job that nobody has.
LEMMA InvokeMoves ==
    ASSUME SessionInv, CallsInv, NEW t \in DOMAIN drivers, Invoke(t)
    PROVE  \E d : Moves(t, d)
<1> USE DEF At, Goto
<1>1. drivers[t] \in Driver /\ TaskOK(log, DOMAIN jobs, t, drivers[t])
    BY DEF SessionInv, Held, TasksWellFormed, WellFormed, CallsInv, CallsHeld
<1>2. log' = log /\ results' = results /\ drivers[t].pc = "ToolDispatching"
    BY DEF Invoke
<1>3. CASE drivers' = [drivers EXCEPT ![t].pc = "Invoked"]
    <2> DEFINE d == [drivers[t] EXCEPT !.pc = "Invoked"]
    <2>1. drivers' = [drivers EXCEPT ![t] = d]
        BY <1>3
    <2>2. d.pc = "Invoked" /\ d.todo = drivers[t].todo /\ d.pend = drivers[t].pend
        BY <1>1 DEF Driver
    <2> HIDE DEF d
    <2>3. Moves(t, d)
        BY <1>1, <1>2, <2>1, <2>2, OnwardMoves DEF Streaming, WithJob
    <2> QED
        BY <2>3
<1>4. ASSUME NEW pc \in Unnoted, NEW j, drivers' = [drivers EXCEPT ![t].pc = pc, ![t].job = j],
             j \in JobIds => LookupCallId(log, j) = None /\ j \in DOMAIN jobs' /\ j \notin DOMAIN jobs
      PROVE  \E d : Moves(t, d)
    <2> DEFINE d == [drivers[t] EXCEPT !.pc = pc, !.job = j]
    <2>1. drivers' = [drivers EXCEPT ![t] = d]
        BY <1>4
    <2>2. d.pc = pc /\ d.todo = drivers[t].todo /\ d.pend = drivers[t].pend /\ d.job = j
        BY <1>1 DEF Driver
    <2> HIDE DEF d
    <2>3. Owned(log, d) \subseteq Free(log, t) /\ Apart(d)
        BY <1>1, <1>2, <2>2 DEF TaskOK, Owned, Apart, Unnoted
    <2>4. TaskOK(log, DOMAIN jobs', t, d)
        BY <1>4, <2>2, <2>3 DEF TaskOK, Unnoted, Noted, Streaming
    <2>5. Moves(t, d)
        BY <1>2, <1>4, <2>1, <2>2, <2>4 DEF Moves, TakesUp
    <2> QED
        BY <2>5
<1>5. CASE \E j \in JobIds : /\ LookupCallId(log, j) = None /\ Submit(j)
                             /\ drivers' = [drivers EXCEPT ![t].pc = "Submitting", ![t].job = j]
    <2>1. PICK j \in JobIds : /\ LookupCallId(log, j) = None /\ Submit(j)
                              /\ drivers' = [drivers EXCEPT ![t].pc = "Submitting", ![t].job = j]
        BY <1>5
    <2>2. j \in DOMAIN jobs' /\ j \notin DOMAIN jobs
        BY <2>1 DEF Submit
    <2> QED
        BY <1>4, <2>1, <2>2 DEF Unnoted
<1>6. CASE \E j \in StrayJobs : drivers' = [drivers EXCEPT ![t].pc = "Submitted", ![t].job = j]
    <2>1. PICK j \in StrayJobs : drivers' = [drivers EXCEPT ![t].pc = "Submitted", ![t].job = j]
        BY <1>6
    <2>2. j \notin JobIds
        BY StrayAssumption
    <2> QED
        BY <1>4, <2>1, <2>2 DEF Unnoted
<1> QED
    BY <1>3, <1>5, <1>6 DEF Invoke

\* The job is noted in the log under the call in hand.
LEMMA SubmittedNotes ==
    ASSUME SessionInv, CallsInv, NEW t \in DOMAIN drivers, RecordJobSubmitted(t)
    PROVE  \E d, e : Notes(t, d, e)
<1> USE DEF At, Goto
<1> DEFINE q == drivers[t].pend
           j == drivers[t].job
           e == JobSubmitted(t, Head(q).id, j)
           n == Len(log)
           kg == Append(log, e)
           d == [drivers[t] EXCEPT !.pc = "Registering"]
<1>1. /\ drivers[t] \in Driver /\ WellFormed(drivers[t]) /\ t \in Nat
      /\ TaskOK(log, DOMAIN jobs, t, drivers[t]) /\ log \in Seq(Event) /\ LogOK(log)
    BY DEF SessionInv, Held, Shaped, TasksWellFormed, WellFormed, CallsInv, CallsHeld
<1>2. /\ drivers' = [drivers EXCEPT ![t] = d] /\ log' = Append(log, e) /\ results' = results
      /\ drivers[t].pc = "Submitted"
    BY DEF RecordJobSubmitted, Record
<1>3. q \in Seq(Call) /\ q # <<>> /\ j \in Nat
    BY <1>1, <1>2 DEF WellFormed, Driver, Busy
<1>4. Head(q).id \in Nat
    BY <1>3, FirstCall DEF Call
<1>5. d.pc = "Registering" /\ d.todo = drivers[t].todo /\ d.pend = q /\ d.job = j
    BY <1>1 DEF Driver
<1>6. /\ e \in Event /\ e.turn = t /\ e.type = "JobSubmitted" /\ e.job = j /\ e.key = Head(q).id
    <2>1. e \in Event
        BY <1>1, <1>3, <1>4, EventTypesOK
    <2> QED
        BY <2>1 DEF JobSubmitted, Ev
<1> HIDE DEF d, e
<1>7. Fits(log, e) /\ Spent(log, e) = {}
    BY <1>1, <1>2, <1>6 DEF Fits, Spent, TaskOK, Unnoted
<1>8. Owned(kg, d) \subseteq Free(kg, t) /\ Apart(d)
    <2>1. Free(log, t) \subseteq Free(kg, t)
        BY <1>1, <1>6, <1>7, FreeKept
    <2>2. Ids(drivers[t].todo) \cup Ids(q) \subseteq Free(log, t) /\ Apart(drivers[t])
        BY <1>1, <1>2 DEF TaskOK, Owned
    <2> QED
        BY <1>5, <2>1, <2>2 DEF Owned, Apart
<1>9. LookupCallId(kg, j) = Head(q).id
    BY <1>1, <1>6, AppendLookup
<1>10. SubmittedBefore(kg, t, j, Len(kg) + 1)
    <2>1. /\ n \in Nat /\ kg[n + 1] = e /\ Len(kg) = n + 1 /\ n + 1 < n + 2
          /\ n + 1 \in Submissions(kg)
        BY <1>1, <1>6, AppendEvents, GrownBy
    <2>2. Len(kg) + 1 = n + 2
        BY <2>1
    <2> HIDE DEF n, kg
    <2> QED
        BY <1>6, <2>1, <2>2 DEF SubmittedBefore
<1> HIDE DEF kg
<1>11. TaskOK(kg, DOMAIN jobs', t, d)
    BY <1>5, <1>8, <1>9, <1>10 DEF TaskOK, Unnoted, Noted, Streaming
<1>12. Notes(t, d, e)
    BY <1>2, <1>5, <1>6, <1>7, <1>11 DEF Notes, TakesUp, Unnoted, kg
<1> QED
    BY <1>12

\* A task keeps its job on the way from the tool's submit to the manager's sink.
LEMMA JobMoves ==
    ASSUME SessionInv, CallsInv, DOMAIN jobs \subseteq DOMAIN jobs', NEW t \in DOMAIN drivers,
           SubmitReturns(t) \/ RegisterSink(t, incarnation)
    PROVE  \E d : Moves(t, d)
<1> USE DEF At, Goto
<1>1. drivers[t] \in Driver /\ TaskOK(log, DOMAIN jobs, t, drivers[t])
    BY DEF SessionInv, Held, TasksWellFormed, WellFormed, CallsInv, CallsHeld
<1>2. PICK pc : /\ drivers' = [drivers EXCEPT ![t].pc = pc] /\ log' = log /\ results' = results
                /\ \/ drivers[t].pc = "Submitting" /\ pc = "Submitted"
                   \/ drivers[t].pc = "Registering" /\ pc \in {"Registered", "Invoked"}
    <2>1. log' = log /\ results' = results
        BY DEF SubmitReturns, RegisterSink
    <2>2. CASE SubmitReturns(t)
        BY <2>1, <2>2 DEF SubmitReturns
    <2>3. CASE RegisterSink(t, incarnation)
        <3>1. \/ drivers' = [drivers EXCEPT ![t].pc = "Registered"]
              \/ drivers' = [drivers EXCEPT ![t].pc = "Invoked"]
            BY <2>3 DEF RegisterSink
        <3>2. drivers[t].pc = "Registering"
            BY <2>3 DEF RegisterSink
        <3> QED
            BY <2>1, <3>1, <3>2
    <2> QED
        BY <2>2, <2>3
<1> DEFINE d == [drivers[t] EXCEPT !.pc = pc]
<1>3. drivers' = [drivers EXCEPT ![t] = d]
    BY <1>2
<1>4. d.pc = pc /\ d.todo = drivers[t].todo /\ d.pend = drivers[t].pend /\ d.job = drivers[t].job
    BY <1>1 DEF Driver
<1> HIDE DEF d
<1>5. Owned(log, d) \subseteq Free(log, t) /\ Apart(d)
    BY <1>1, <1>2, <1>4 DEF TaskOK, Owned, Apart
<1>6. TaskOK(log, DOMAIN jobs', t, d) /\ TakesUp(DOMAIN jobs, drivers, t, d)
    <2>1. CASE drivers[t].pc = "Submitting" /\ pc = "Submitted"
        BY <1>1, <1>4, <1>5, <2>1 DEF TaskOK, TakesUp, Unnoted, Noted, Streaming
    <2>2. CASE drivers[t].pc = "Registering" /\ pc \in {"Registered", "Invoked"}
        BY <1>1, <1>4, <1>5, <2>2 DEF TaskOK, TakesUp, Unnoted, Noted, Streaming
    <2> QED
        BY <1>2, <2>1, <2>2
<1>7. Moves(t, d)
    BY <1>2, <1>3, <1>6 DEF Moves
<1> QED
    BY <1>7

\* A turn that pauses keeps the call of its job, and drops those behind it.
LEMMA PauseMoves ==
    ASSUME SessionInv, CallsInv, NEW t \in DOMAIN drivers, PauseTurn(t)
    PROVE  \E d : Moves(t, d)
<1> DEFINE none == <<>>
<1>0. DOMAIN none = {}
    OBVIOUS
<1> HIDE DEF none
<1> DEFINE d == [drivers[t] EXCEPT !.pc = "Paused", !.pend = none]
<1>1. /\ drivers[t] \in Driver /\ WellFormed(drivers[t]) /\ TaskOK(log, DOMAIN jobs, t, drivers[t])
    BY DEF SessionInv, Held, TasksWellFormed, WellFormed, CallsInv, CallsHeld
<1>2. /\ drivers' = [drivers EXCEPT ![t] = d] /\ log' = log /\ results' = results
      /\ drivers[t].pc = "Registered"
    BY DEF PauseTurn, At, none
<1>3. d.pc = "Paused" /\ d.todo = drivers[t].todo /\ d.pend = none /\ d.job = drivers[t].job
    BY <1>1 DEF Driver
<1>4. drivers[t].pend \in Seq(Call) /\ drivers[t].pend # <<>> /\ d.job \in JobIds
    BY <1>1, <1>2, <1>3 DEF WellFormed, Driver, Busy
<1>5. Head(drivers[t].pend).id \in Ids(drivers[t].pend)
    BY <1>4, FirstCall
<1>6. Ids(none) = {} /\ Distinct(none)
    BY <1>0 DEF Ids, Distinct
<1> HIDE DEF d
<1>7. Owned(log, d) \subseteq Free(log, t) /\ Apart(d)
    BY <1>1, <1>2, <1>3, <1>4, <1>5, <1>6 DEF TaskOK, Owned, Apart, Noted
<1>8. TaskOK(log, DOMAIN jobs', t, d)
    BY <1>1, <1>2, <1>3, <1>7 DEF TaskOK, Unnoted, Noted, Streaming
<1>9. Moves(t, d)
    BY <1>2, <1>3, <1>8 DEF Moves, TakesUp, Unnoted
<1> QED
    BY <1>9

\* The kinds of step a turn's task takes.
LEMMA TaskSteps ==
    ASSUME SessionInv, CallsInv, NEW t \in DOMAIN drivers, DriverStep(t, incarnation, mode \in Alive)
    PROVE  /\ DOMAIN jobs \subseteq DOMAIN jobs'
           /\ \/ \E d : Moves(t, d) \/ \E e : Notes(t, d, e)
              \/ PostOutcome(t, mode \in Alive)
<1>1. incarnation \in Sinks /\ JobTypeOK /\ drivers[t] \in Driver
    BY DEF SessionInv, ActorHolds, Held, TasksWellFormed, WellFormed
<1>2. DOMAIN jobs \subseteq DOMAIN jobs'
    <2>1. CASE Invoke(t)
        BY <2>1, JobsKept DEF Invoke, jobVars
    <2>2. CASE SubmitReturns(t)
        <3>1. PatchAbort(drivers[t].job) /\ drivers[t].job \in JobIds
            BY <1>1, <2>2 DEF SubmitReturns, PatchAbort, JobTypeOK
        <3> QED
            BY <3>1, JobsKept
    <2>3. CASE RegisterSink(t, incarnation)
        <3>1. UNCHANGED jobVars \/ (OnComplete(drivers[t].job, incarnation) /\ drivers[t].job \in JobIds)
            BY <1>1, <2>3 DEF RegisterSink, Known, JobTypeOK
        <3> QED
            BY <1>1, <3>1, JobsKept DEF jobVars
    <2>4. CASE \/ RecordTurnFailed(t) \/ InitTransit(t) \/ ContextManagedTransit(t)
               \/ RecordModelCallStarted(t) \/ OpenStream(t) \/ DemuxToolUse(t) \/ DemuxMessageCompleted(t)
               \/ DemuxEnd(t) \/ Resolve(t) \/ RecordTurnCompleted(t) \/ CountErrors(t)
        BY <2>4 DEF RecordTurnFailed, InitTransit, ContextManagedTransit, RecordModelCallStarted, OpenStream,
           DemuxToolUse, DemuxMessageCompleted, DemuxEnd, Resolve, RecordTurnCompleted, CountErrors, jobVars
    <2>5. CASE \/ DispatchDone(t) \/ RecordJobSubmitted(t) \/ PauseTurn(t)
               \/ RecordToolResult(t) \/ PostOutcome(t, mode \in Alive)
        BY <2>5 DEF DispatchDone, RecordJobSubmitted, PauseTurn, RecordToolResult, PostOutcome, jobVars
    <2> QED
        BY <2>1, <2>2, <2>3, <2>4, <2>5 DEF DriverStep
<1>3. \/ \E d : Moves(t, d) \/ \E e : Notes(t, d, e)
      \/ PostOutcome(t, mode \in Alive)
    <2>1. CASE InitTransit(t) \/ ContextManagedTransit(t) \/ DemuxEnd(t) \/ CountErrors(t) \/ DispatchDone(t)
        BY <2>1, QuietMoves
    <2>2. CASE Resolve(t) \/ RecordToolResult(t)
        BY <2>2, AnswerSteps
    <2>3. CASE RecordTurnFailed(t) \/ RecordTurnCompleted(t) \/ DemuxMessageCompleted(t)
        BY <2>3, PlainSteps
    <2>4. CASE RecordModelCallStarted(t)
        BY <2>4, OpeningNotes
    <2>5. CASE OpenStream(t)
        BY <2>5, OpenMoves
    <2>6. CASE DemuxToolUse(t)
        BY <2>6, ToolUseNotes
    <2>7. CASE Invoke(t)
        BY <2>7, InvokeMoves
    <2>8. CASE RecordJobSubmitted(t)
        BY <2>8, SubmittedNotes
    <2>9. CASE SubmitReturns(t) \/ RegisterSink(t, incarnation)
        BY <1>2, <2>9, JobMoves
    <2>10. CASE PauseTurn(t)
        BY <2>10, PauseMoves
    <2> QED
        BY <2>1, <2>2, <2>3, <2>4, <2>5, <2>6, <2>7, <2>8, <2>9, <2>10 DEF DriverStep
<1> QED
    BY <1>2, <1>3

\* A turn task's step.
LEMMA TurnStepCalls == SessionInv /\ CallsInv /\ TurnStep => CallsInv'
<1> SUFFICES ASSUME SessionInv, CallsInv, TurnStep
             PROVE  CallsInv'
    OBVIOUS
<1>1. PICK t \in DOMAIN drivers : DriverStep(t, incarnation, mode \in Alive)
    BY DEF TurnStep
<1>2. inFlight' = inFlight /\ mode' = mode
    BY DEF TurnStep, sessionVars, actorVars
<1>4. DOMAIN jobs \subseteq DOMAIN jobs'
    BY <1>1, TaskSteps
<1>5. \/ \E d : Moves(t, d) \/ \E e : Notes(t, d, e)
      \/ PostOutcome(t, mode \in Alive)
    BY <1>1, TaskSteps
<1>6. /\ Held(log, drivers, results, inFlight)
      /\ CallsHeld(log, DOMAIN jobs, drivers, results, inFlight, mode)
      /\ drivers = [u \in DOMAIN drivers |-> drivers[u]]
    BY DEF SessionInv, CallsInv, Held, Shaped
<1>7. CASE \E d : Moves(t, d)
    <2>1. PICK d : Moves(t, d)
        BY <1>7
    <2>2. CallsHeld(log, DOMAIN jobs', [drivers EXCEPT ![t] = d], results, inFlight, mode)
        BY <1>4, <1>6, <2>1, CallsGo DEF Moves
    <2> QED
        BY <1>2, <2>1, <2>2 DEF Moves, CallsInv
<1>8. CASE \E d, e : Notes(t, d, e)
    <2>1. PICK d, e : Notes(t, d, e)
        BY <1>8
    <2>2. CallsHeld(Append(log, e), DOMAIN jobs', [drivers EXCEPT ![t] = d], results, inFlight, mode)
        BY <1>4, <1>6, <2>1, CallsWrite DEF Notes
    <2> QED
        BY <1>2, <2>1, <2>2 DEF Notes, CallsInv
<1>9. CASE PostOutcome(t, mode \in Alive)
    <2> DEFINE q == Append(results, [turn |-> t, outcome |-> drivers[t].pc, job |-> drivers[t].job])
    <2>1. /\ log' = log /\ drivers' = [u \in DOMAIN drivers \ {t} |-> drivers[u]] /\ jobs' = jobs
          /\ drivers[t].pc \in Outcomes /\ results' \in {results, q}
        BY <1>9 DEF PostOutcome, jobVars
    <2>2. DOMAIN drivers' = DOMAIN drivers \ {t} /\ \A u \in DOMAIN drivers' : drivers'[u] = drivers[u]
        BY <2>1
    <2>3. \A n \in DOMAIN results' :
              \/ n \in DOMAIN results /\ results'[n] = results[n]
              \/ results'[n] = [turn |-> t, outcome |-> drivers[t].pc, job |-> drivers[t].job]
        <3>1. results \in Seq(Result)
            BY <1>6 DEF Held, Shaped
        <3> QED
            BY <2>1, <3>1
    <2>4. CallsHeld(log, DOMAIN jobs, drivers', results', inFlight, mode)
        <3> HIDE DEF q
        <3>1. Held(log, drivers, results, inFlight)
            BY <1>6
        <3>2. CallsHeld(log, DOMAIN jobs, drivers, results, inFlight, mode)
            BY <1>6
        <3>3. drivers[t].pc \in Outcomes
            BY <2>1
        <3> QED
            BY <2>2, <2>3, <3>1, <3>2, <3>3, CallsPost
    <2> QED
        BY <1>2, <2>1, <2>4 DEF CallsInv
<1> QED
    BY <1>5, <1>7, <1>8, <1>9

-----------------------------------------------------------------------------
(* The steps that write nothing, and the end of an actor.                  *)

LEMMA QuietCalls ==
    CallsInv /\ UNCHANGED <<log, drivers, results>> /\ DOMAIN jobs \subseteq DOMAIN jobs'
    /\ (inFlight'.kind # "Paused" \/ (inFlight' = inFlight /\ (mode = "recording" <=> mode' = "recording")))
    => CallsInv'
BY CallsRest DEF CallsInv

\* Clients, jobs and the manager's sends.
LEMMA AsideCalls == SessionInv /\ CallsInv /\ (ClientStep \/ JobStep \/ UNCHANGED vars) => CallsInv'
<1> SUFFICES ASSUME SessionInv, CallsInv, ClientStep \/ JobStep \/ UNCHANGED vars
             PROVE  CallsInv'
    OBVIOUS
<1>1. CASE ClientStep
    <2>1. UNCHANGED <<log, drivers, results, jobs, inFlight, mode>>
        BY <1>1 DEF ClientStep, ClientSubmit, ClientCancel, ClientShutdown, turnVars, jobVars
    <2> QED
        BY <2>1, QuietCalls
<1>2. CASE JobStep
    <2>1. UNCHANGED <<log, drivers, results, inFlight, mode>>
        BY <1>2 DEF JobStep, WorkerRuns, SendRuns, turnVars, sessionVars, actorVars
    <2>2. workers \subseteq JobIds
        BY DEF SessionInv, JobTypeOK
    <2>3. DOMAIN jobs \subseteq DOMAIN jobs'
        BY <1>2, <2>2, JobsKept DEF JobStep, WorkerRuns, SendRuns
    <2> QED
        BY <2>1, <2>3, QuietCalls
<1>3. CASE UNCHANGED vars
    <2>1. UNCHANGED <<log, drivers, results, jobs, inFlight, mode>>
        BY <1>3 DEF vars, turnVars, jobVars, sessionVars, actorVars
    <2> QED
        BY <2>1, QuietCalls
<1> QED
    BY <1>1, <1>2, <1>3

\* The handlers that do not write.
LEMMA HandlerCalls ==
    SessionInv /\ CallsInv
    /\ \/ HandleTrigger \/ HandleStrayCompletion \/ HandleJobCompleted \/ HandleProbe \/ HandleCancelJob
       \/ CancelReturns \/ HandleShutdown \/ TakeCompletion \/ ForwardCompletion
    => CallsInv'
<1> SUFFICES ASSUME SessionInv, CallsInv,
                    \/ HandleTrigger \/ HandleStrayCompletion \/ HandleJobCompleted \/ HandleProbe
                    \/ HandleCancelJob \/ CancelReturns \/ HandleShutdown \/ TakeCompletion \/ ForwardCompletion
             PROVE  CallsInv'
    OBVIOUS
<1>1. CASE \/ HandleTrigger \/ HandleJobCompleted \/ HandleProbe \/ CancelReturns \/ HandleShutdown
           \/ ForwardCompletion
    <2>1. UNCHANGED <<log, drivers, results, jobs, inFlight>>
        BY <1>1 DEF HandleTrigger, HandleJobCompleted, HandleProbe, CancelReturns, HandleShutdown,
           ForwardCompletion, turnVars, jobVars
    <2>2. mode # "recording" /\ mode' # "recording"
        BY <1>1 DEF HandleTrigger, HandleJobCompleted, HandleProbe, CancelReturns, HandleShutdown,
           ForwardCompletion, Take, Arm2
    <2> QED
        BY <2>1, <2>2, QuietCalls
<1>2. CASE HandleStrayCompletion
    <2>1. UNCHANGED <<log, drivers, results, jobs, mode>>
        BY <1>2 DEF HandleStrayCompletion, turnVars, jobVars
    <2>2. inFlight' = inFlight \/ inFlight' = NoTurn
        BY <1>2 DEF HandleStrayCompletion
    <2>3. NoTurn.kind # "Paused"
        BY DEF NoTurn
    <2> QED
        BY <2>1, <2>2, <2>3, QuietCalls
<1>3. CASE HandleCancelJob
    <2>1. UNCHANGED <<log, drivers, results, inFlight>> /\ mode # "recording" /\ mode' # "recording"
        BY <1>3 DEF HandleCancelJob, turnVars, Take, Arm2
    <2>2. DOMAIN jobs \subseteq DOMAIN jobs'
        <3>1. Cancel(Head(mailbox).n) \/ UNCHANGED jobs
            BY <1>3 DEF HandleCancelJob, jobVars
        <3>2. Cancel(Head(mailbox).n) => Head(mailbox).n \in JobIds
            BY DEF Cancel, Known, SessionInv, JobTypeOK
        <3> QED
            BY <3>1, <3>2, JobsKept
    <2> QED
        BY <2>1, <2>2, QuietCalls
<1>4. CASE TakeCompletion
    <2>1. UNCHANGED <<log, drivers, results, inFlight, jobs>> /\ mode # "recording" /\ mode' # "recording"
        BY <1>4 DEF TakeCompletion, turnVars, Arm3, Receive
    <2> QED
        BY <2>1, QuietCalls
<1> QED
    BY <1>1, <1>2, <1>3, <1>4

\* An actor that ends, and a crash.
LEMMA EndCalls == SessionInv /\ CallsInv /\ (Exit \/ Crash) => CallsInv'
<1> SUFFICES ASSUME SessionInv, CallsInv, Exit \/ Crash
             PROVE  CallsInv'
    OBVIOUS
<1>1. CASE Exit
    <2>1. log' = log /\ drivers' = drivers /\ jobs' = jobs /\ results' = <<>> /\ inFlight' = NoTurn
        BY <1>1 DEF Exit, CloseSink
    <2>2. CallsHeld(log, DOMAIN jobs, drivers, <<>>, NoTurn, mode')
        BY CallsLost DEF CallsInv
    <2> QED
        BY <2>1, <2>2 DEF CallsInv
<1>2. CASE Crash
    <2>1. log' = log /\ drivers' = [t \in {} |-> {}] /\ results' = <<>> /\ inFlight' = NoTurn
        BY <1>2 DEF Crash
    <2>2. CallsHeld(log, DOMAIN jobs', [t \in {} |-> {}], <<>>, NoTurn, mode')
        BY CallsLost DEF CallsInv
    <2> QED
        BY <2>1, <2>2 DEF CallsInv
<1> QED
    BY <1>1, <1>2

\* A session that was never opened.
LEMMA CallsInit == Init => CallsInv
<1> SUFFICES ASSUME Init
             PROVE  CallsInv
    OBVIOUS
<1>1. log = <<>> /\ drivers = [t \in {} |-> {}] /\ results = <<>> /\ inFlight = NoTurn
    BY DEF Init, TurnInit
<1>2. LogOK(<<>>)
    <2>1. \A types : Positions(<<>>, types) = {}
        BY DEF Positions
    <2>2. /\ Uses(<<>>) = {} /\ Answers(<<>>) = {} /\ Pauses(<<>>) = {} /\ Completions(<<>>) = {}
          /\ Seals(<<>>) = {} /\ Begins(<<>>) = {}
        BY <2>1 DEF Uses, Answers, Pauses, Completions, Seals, Begins
    <2> QED
        BY <2>2 DEF LogOK, UsesOK, AnswersOK, PausesOK, CompletionsOK, AnswersDone, StreamsOK, Sequential
<1>3. DOMAIN drivers = {} /\ DOMAIN results = {}
    BY <1>1
<1>4. SubmitsApart(drivers)
    BY <1>3 DEF SubmitsApart
<1>5. ActorOK(log, inFlight, mode)
    BY <1>1 DEF ActorOK, NoTurn
<1> QED
    BY <1>1, <1>2, <1>3, <1>4, <1>5 DEF CallsInv, CallsHeld

-----------------------------------------------------------------------------
(* The actor's appends, and the tasks it spawns.                           *)

\* A task that has no call.
LEMMA EmptyTask ==
    ASSUME NEW lg, NEW js, NEW t, NEW pc \in {"Init", "ModelCompleted", "ToolDispatching"}, NEW m
    PROVE  TaskOK(lg, js, t, Task(pc, m, <<>>)) /\ Task(pc, m, <<>>).pc \notin Unnoted
<1> DEFINE none == <<>>
<1>1. DOMAIN none = {}
    OBVIOUS
<1> HIDE DEF none
<1> DEFINE no == FALSE
<1> HIDE DEF no
<1> DEFINE d == [pc |-> pc, mcalls |-> m, streak |-> 0, todo |-> none, pend |-> none, bad |-> no, job |-> None]
<1>2. d.pc = pc /\ d.todo = none /\ d.pend = none
    OBVIOUS
<1>3. d = Task(pc, m, <<>>)
    BY DEF Task, none, no
<1> HIDE DEF d
<1>4. Ids(none) = {} /\ Distinct(none)
    BY <1>1 DEF Ids, Distinct
<1>5. Apart(d) /\ Ids(d.todo) \cup Ids(d.pend) \subseteq Free(lg, t)
    BY <1>2, <1>4 DEF Apart
<1>6. d.pc \notin Streaming \cup WithJob /\ d.pc \notin Unnoted
    BY <1>2 DEF Streaming, WithJob, Unnoted
<1>7. TaskOK(lg, js, t, d)
    BY <1>5, <1>6, FreeTask
<1> QED
    BY <1>3, <1>6, <1>7

\* A new turn.
LEMMA CallsStart ==
    ASSUME NEW lg, NEW js, NEW ds, NEW rs, NEW fl, NEW md, NEW nd, Held(lg, ds, rs, fl),
           CallsHeld(lg, js, ds, rs, fl, md), NEW n \in Nat, NEW t, t = FreshTurn(lg)
    PROVE  CallsHeld(Append(lg, TurnStarted(t, n)), js,
                     [u \in DOMAIN ds \cup {t} |-> IF u = t THEN FreshLikeInit ELSE ds[u]], rs, Active(t), nd)
<1> DEFINE e == TurnStarted(t, n)
<1>1. lg \in Seq(Event) /\ DOMAIN ds \subseteq StartedIn(lg) /\ \A m \in DOMAIN rs : rs[m].turn \in StartedIn(lg)
    BY DEF Held, Shaped, HoldersStarted
<1>2. t \in Nat /\ t \notin StartedIn(lg)
    <2>1. TurnFailed(0) \in Event
        BY EventTypesOK
    <2> QED
        BY <1>1, <2>1, AppendStarted
<1>3. e \in Event /\ e.type = "TurnStarted" /\ e.turn = t
    BY <1>2, EventTypesOK DEF TurnStarted, Ev
<1> HIDE DEF e
<1>4. Fits(lg, e)
    BY <1>3 DEF Fits
<1>5. Active(t).kind # "Paused"
    BY DEF Active
<1>6. ActorOK(Append(lg, e), Active(t), nd)
    BY <1>5 DEF ActorOK
<1>7. t \notin DOMAIN ds /\ \A m \in DOMAIN rs : rs[m].turn # t
    BY <1>1, <1>2
<1>8. CallsHeld(Append(lg, e), js, ds, rs, Active(t), nd)
    BY <1>3, <1>4, <1>6, <1>7, CallsActorWrites
<1>9. TaskOK(Append(lg, e), js, t, FreshLikeInit) /\ FreshLikeInit.pc \notin Unnoted
    BY EmptyTask DEF FreshLikeInit
<1>10. CallsHeld(Append(lg, e), js, [u \in DOMAIN ds \cup {t} |-> IF u = t THEN FreshLikeInit ELSE ds[u]],
                 rs, Active(t), nd)
    <2> DEFINE d == FreshLikeInit
               kg == Append(lg, e)
               gl == Active(t)
    <2>1. TaskOK(kg, js, t, d) /\ d.pc \notin Unnoted
        BY <1>9
    <2>2. CallsHeld(kg, js, ds, rs, gl, nd) /\ gl.kind # "Paused"
        BY <1>5, <1>8
    <2> HIDE DEF d, kg, gl
    <2>3. CallsHeld(kg, js, [u \in DOMAIN ds \cup {t} |-> IF u = t THEN d ELSE ds[u]], rs, gl, nd)
        BY <2>1, <2>2, CallsSpawn
    <2> QED
        BY <2>3 DEF d, kg, gl
<1> QED
    BY <1>10 DEF e

LEMMA StartHeldInputCalls == SessionInv /\ CallsInv /\ StartHeldInput => CallsInv'
<1> SUFFICES ASSUME SessionInv, CallsInv, StartHeldInput
             PROVE  CallsInv'
    OBVIOUS
<1> DEFINE t == FreshTurn(log)
           es == [u \in DOMAIN drivers \cup {t} |-> IF u = t THEN FreshLikeInit ELSE drivers[u]]
<1>1. /\ log' = Append(log, TurnStarted(t, held)) /\ drivers' = es /\ inFlight' = Active(t)
      /\ jobs' = jobs /\ results' = results
    BY DEF StartHeldInput, TryStartTurn, Spawn, jobVars
<1>2. Held(log, drivers, results, inFlight) /\ CallsHeld(log, DOMAIN jobs, drivers, results, inFlight, mode)
      /\ held \in Nat
    BY DEF SessionInv, AsideOK, CallsInv
<1>3. CallsHeld(Append(log, TurnStarted(t, held)), DOMAIN jobs, es, results, Active(t), mode')
    <2> HIDE DEF t
    <2>1. t = FreshTurn(log)
        BY DEF t
    <2> QED
        BY <1>2, <2>1, CallsStart
<1> HIDE DEF t, es
<1> QED
    BY <1>1, <1>3 DEF CallsInv

\* A turn may pause on the job of a free call.
LEMMA PauseFits ==
    ASSUME NEW lg \in Seq(Event), NEW t \in Nat, NEW j \in JobIds, LookupCallId(lg, j) \in Free(lg, t),
           SubmittedBefore(lg, t, j, Len(lg) + 1)
    PROVE  LET e == TurnPaused(t, j) IN
           /\ e \in Event /\ e.type = "TurnPaused" /\ e.turn = t /\ e.job = j
           /\ Fits(lg, e)
<1> DEFINE e == TurnPaused(t, j)
<1>1. e \in Event /\ e.type = "TurnPaused" /\ e.turn = t /\ e.job = j
    <2>1. e \in Event
        BY EventTypesOK, JobIdsAssumption
    <2> QED
        BY <2>1 DEF TurnPaused, Ev
<1>2. e = TurnPaused(t, j)
    OBVIOUS
<1> HIDE DEF e
<1>3. Fits(lg, e)
    BY <1>1, <1>2 DEF Fits
<1> QED
    BY <1>1, <1>3 DEF e

\* A turn is parked on its job: the job's completion is still to come.
LEMMA CallsPark ==
    ASSUME NEW lg, NEW js, NEW ds, NEW rs, NEW fl, NEW md, NEW nd, Held(lg, ds, rs, fl),
           CallsHeld(lg, js, ds, rs, fl, md), nd # "recording",
           NEW t \in Nat, NEW j \in JobIds, NEW c, c = LookupCallId(lg, j), c \in Free(lg, t),
           SubmittedBefore(lg, t, j, Len(lg) + 1),
           t \notin DOMAIN ds, \A n \in DOMAIN rs : rs[n].turn # t
    PROVE  CallsHeld(Append(lg, TurnPaused(t, j)), js, ds, rs, PausedOnJob(t, j, c), nd)
<1> DEFINE e == TurnPaused(t, j)
           kg == Append(lg, e)
           n == Len(lg)
           gl == PausedOnJob(t, j, c)
<1>1. lg \in Seq(Event) /\ LogOK(lg)
    BY DEF Held, Shaped, CallsHeld
<1>2. e \in Event /\ e.type = "TurnPaused" /\ e.turn = t /\ e.job = j
    BY <1>1, PauseFits
<1>3. e = TurnPaused(t, j)
    OBVIOUS
<1>4. gl.turn = t /\ gl.job = j /\ gl.call = c
    BY DEF PausedOnJob
<1>5. Fits(lg, e)
    BY <1>1, PauseFits
<1> HIDE DEF e, gl
<1>6. LookupCallId(kg, j) = c /\ c \notin Answered(kg)
    <2>1. c \notin Answered(lg) /\ Answered(kg) = Answered(lg)
        BY <1>1, <1>2, <1>5, FreeParts DEF Free
    <2>2. LookupCallId(kg, j) = LookupCallId(lg, j)
        BY <1>1, <1>2, AppendLookup
    <2> QED
        BY <2>1, <2>2
<1>7. /\ n \in Nat /\ kg[n + 1] = e /\ n + 1 \in Pauses(kg)
      /\ Completions(kg) = Completions(lg) /\ \A q \in Completions(lg) : kg[q] = lg[q]
    BY <1>1, <1>2, AppendEvents, GrownBy
<1>8. \A q \in Completions(lg) : lg[q].job # j
    <2> SUFFICES ASSUME NEW q \in Completions(lg), lg[q].job = j
                 PROVE  FALSE
        OBVIOUS
    <2>1. PICK p \in Pauses(lg) : lg[p] = TurnPaused(lg[q].turn, lg[q].job)
        BY <1>1 DEF LogOK, CompletionsOK
    <2>2. lg[p].job = j
        BY <2>1 DEF TurnPaused, Ev
    <2>3. c \in Parked(lg)
        BY <2>2 DEF Parked, CallOf
    <2> QED
        BY <2>3 DEF Free
<1> HIDE DEF kg, n
<1>9. \E p \in Pauses(kg) : kg[p] = TurnPaused(t, j)
    BY <1>3, <1>7
<1>10. \A q \in Completions(kg) : kg[q].job # j
    BY <1>7, <1>8
<1>11. ActorOK(kg, gl, nd)
    BY <1>4, <1>6, <1>9, <1>10 DEF ActorOK
<1>12. CallsHeld(kg, js, ds, rs, gl, nd)
    BY <1>2, <1>5, <1>11, CallsActorWrites DEF kg
<1> QED
    BY <1>12 DEF kg, e, gl

LEMMA TakeOutcomeCalls == SessionInv /\ CallsInv /\ TakeOutcome => CallsInv'
<1> SUFFICES ASSUME SessionInv, CallsInv, TakeOutcome
             PROVE  CallsInv'
    OBVIOUS
<1> DEFINE r == Head(results)
           qs == Tail(results)
           call == LookupCallId(log, r.job)
           t == FreshTurn(log)
           es == [u \in DOMAIN drivers \cup {t} |-> IF u = t THEN FreshLikeInit ELSE drivers[u]]
<1>1. mode \in {"running", "draining"} /\ results # <<>> /\ results' = qs /\ jobs' = jobs /\ mode' = mode
    BY DEF TakeOutcome, jobVars
<1>2. Held(log, drivers, results, inFlight) /\ CallsHeld(log, DOMAIN jobs, drivers, results, inFlight, mode)
    BY DEF SessionInv, CallsInv
<1>3. /\ r \in Result /\ r.turn \notin DOMAIN drivers /\ \A n \in DOMAIN qs : qs[n].turn # r.turn
      /\ r.outcome = "Paused" => r.job \in JobIds
      /\ Held(log, drivers, qs, NoTurn)
    BY <1>1, <1>2, TakenOutcome, HeldTakes
<1>4. CallsHeld(log, DOMAIN jobs, drivers, qs, NoTurn, mode) /\ OutcomeOK(log, r)
    BY <1>1, <1>2, CallsTake
<1>5. r.outcome = "Paused" => call \in Free(log, r.turn) /\ SubmittedBefore(log, r.turn, r.job, Len(log) + 1)
    BY <1>4 DEF OutcomeOK
<1>6. r.outcome = "Paused" => call # None
    <2>1. None \notin Free(log, r.turn)
        BY <1>2, UsedApart DEF CallsHeld, LogOK, Held, Shaped
    <2> QED
        BY <1>5, <2>1
<1>7. CASE r.outcome = "Paused"
    <2>1. log' = Append(log, TurnPaused(r.turn, r.job)) /\ inFlight' = PausedOnJob(r.turn, r.job, call)
          /\ drivers' = drivers
        BY <1>6, <1>7 DEF TakeOutcome, OnTurnComplete
    <2>2. r.turn \in Nat
        BY <1>3 DEF Result
    <2>3. call = LookupCallId(log, r.job) /\ mode # "recording"
        BY <1>1
    <2> HIDE DEF call, r, qs
    <2>4. CallsHeld(Append(log, TurnPaused(r.turn, r.job)), DOMAIN jobs, drivers, qs,
                    PausedOnJob(r.turn, r.job, call), mode)
        BY <1>3, <1>4, <1>5, <1>7, <2>2, <2>3, CallsPark
    <2> QED
        BY <1>1, <2>1, <2>4 DEF CallsInv
<1>8. CASE r.outcome # "Paused"
    <2>1. \/ log' = log /\ inFlight' = NoTurn /\ drivers' = drivers
          \/ log' = Append(log, TurnStarted(t, pendingInput)) /\ inFlight' = Active(t) /\ drivers' = es
        BY <1>8 DEF TakeOutcome, OnTurnComplete, TryStartTurn, Spawn
    <2>2. CallsHeld(Append(log, TurnStarted(t, pendingInput)), DOMAIN jobs, es, qs, Active(t), mode)
        <3>1. pendingInput \in Nat
            BY DEF SessionInv, AsideOK
        <3>2. t = FreshTurn(log)
            OBVIOUS
        <3> HIDE DEF t, qs
        <3> QED
            BY <1>3, <1>4, <3>1, <3>2, CallsStart
    <2> HIDE DEF t, es, qs
    <2> QED
        BY <1>1, <1>4, <2>1, <2>2 DEF CallsInv
<1> QED
    BY <1>7, <1>8

\* A paused call whose job's completion is recorded may be answered.
LEMMA CompletedFits ==
    ASSUME NEW lg \in Seq(Event), LogOK(lg), NEW p \in Pauses(lg), NEW t, NEW j, NEW c,
           lg[p] = TurnPaused(t, j), c = LookupCallId(lg, j), c \notin Answered(lg), Done(lg, p)
    PROVE  c \in Nat /\ Fits(lg, ToolResult(t, c))
<1> DEFINE e == ToolResult(t, c)
<1>1. e.type = "ToolResultRecorded" /\ e.turn = t /\ e.key = c
    BY DEF ToolResult, Ev
<1> HIDE DEF e
<1>2. lg[p].turn = t /\ lg[p].job = j
    BY DEF TurnPaused, Ev
<1>3. CallOf(lg, p) = c
    BY <1>2 DEF CallOf
<1>4. c \in UsedBy(lg, t)
    BY <1>2, <1>3 DEF LogOK, PausesOK, UsedBefore, UsedBy
<1>5. \A q \in Pauses(lg) : CallOf(lg, q) = c => Done(lg, q)
    BY <1>3 DEF LogOK, PausesOK
<1>6. Fits(lg, e)
    BY <1>1, <1>4, <1>5 DEF Fits
<1>7. c \in Nat
    BY LookupCallType
<1> QED
    BY <1>6, <1>7 DEF e

\* The actor answers a call of a turn that has no task.
LEMMA CallsAnswer ==
    ASSUME NEW lg, NEW js, NEW ds, NEW rs, NEW fl, NEW md, NEW nd, Held(lg, ds, rs, fl),
           CallsHeld(lg, js, ds, rs, fl, md), NEW t \in Nat, NEW c \in Nat, Fits(lg, ToolResult(t, c)),
           t \notin DOMAIN ds, \A n \in DOMAIN rs : rs[n].turn # t
    PROVE  CallsHeld(Append(lg, ToolResult(t, c)), js, ds, rs, Active(t), nd)
<1> DEFINE e == ToolResult(t, c)
<1>1. e \in Event /\ e.type = "ToolResultRecorded" /\ e.turn = t
    BY EventTypesOK DEF ToolResult, Ev
<1> HIDE DEF e
<1>2. ActorOK(Append(lg, e), Active(t), nd)
    BY DEF ActorOK, Active
<1>3. CallsHeld(Append(lg, e), js, ds, rs, Active(t), nd)
    BY <1>1, <1>2, CallsActorWrites DEF e
<1> QED
    BY <1>3 DEF e

\* The tasks a turn is taken up with when no call is pending.
LEMMA NothingPending ==
    ASSUME NEW lg, NEW js, NEW t, NEW m
    PROVE  /\ TaskOK(lg, js, t, FromToolDispatching(m, <<>>, FALSE))
           /\ FromToolDispatching(m, <<>>, FALSE).pc \notin Unnoted
           /\ TaskOK(lg, js, t, FromModelCompleted(m))
           /\ FromModelCompleted(m).pc \notin Unnoted
<1>1. FromToolDispatching(m, <<>>, FALSE) = Task("ToolDispatching", m, <<>>)
    <2>1. DOMAIN <<>> = {}
        OBVIOUS
    <2> QED
        BY <2>1 DEF FromToolDispatching
<1>2. TaskOK(lg, js, t, Task("ToolDispatching", m, <<>>)) /\ Task("ToolDispatching", m, <<>>).pc \notin Unnoted
    BY EmptyTask
<1>3. TaskOK(lg, js, t, FromModelCompleted(m)) /\ FromModelCompleted(m).pc \notin Unnoted
    BY EmptyTask DEF FromModelCompleted
<1> QED
    BY <1>1, <1>2, <1>3

\* The two appends that apply a completion: the paused turn is in no other hand, and
\* its completion, then its result, may be written.
LEMMA AppliedJob ==
    ASSUME SessionInv, CallsInv, RecordJobCompleted \/ FinishJobCompleted
    PROVE  LET t == inFlight.turn
               j == inFlight.job
               c == inFlight.call
           IN  /\ t \notin DOMAIN drivers /\ (\A n \in DOMAIN results : results[n].turn # t) /\ t \in Nat /\ j \in Nat
               /\ c = LookupCallId(log, j) /\ c \notin Answered(log)
               /\ \E p \in Pauses(log) : log[p] = TurnPaused(t, j)
               /\ RecordJobCompleted => Fits(log, JobCompletedRecorded(t, j))
               /\ FinishJobCompleted => c \in Nat /\ Fits(log, ToolResult(t, c))
<1> DEFINE t == inFlight.turn
           j == inFlight.job
           c == inFlight.call
<1>1. mode \in {"completing", "recording"} /\ is_paused
    BY DEF RecordJobCompleted, FinishJobCompleted, SessionInv, ActorHolds
<1>2. Held(log, drivers, results, inFlight) /\ CallsHeld(log, DOMAIN jobs, drivers, results, inFlight, mode)
      /\ log \in Seq(Event) /\ LogOK(log)
    BY DEF SessionInv, CallsInv, CallsHeld, Held, Shaped
<1>3. t \notin DOMAIN drivers /\ (\A n \in DOMAIN results : results[n].turn # t) /\ t \in Nat /\ j \in Nat
    BY <1>1, <1>2 DEF Held, Shaped, OneHolder, is_paused, InFlight
<1>4. /\ c = LookupCallId(log, j) /\ c \notin Answered(log)
      /\ mode = "recording" <=> \E q \in Completions(log) : log[q].job = j
    BY <1>1, <1>2 DEF CallsHeld, ActorOK, is_paused
<1>5. PICK p \in Pauses(log) : log[p] = TurnPaused(t, j)
    BY <1>1, <1>2 DEF CallsHeld, ActorOK, is_paused
<1>6. log[p].turn = t /\ log[p].job = j
    BY <1>5 DEF TurnPaused, Ev
<1>7. ASSUME RecordJobCompleted
      PROVE  Fits(log, JobCompletedRecorded(t, j))
    <2> DEFINE e == JobCompletedRecorded(t, j)
    <2>1. mode # "recording"
        BY <1>7 DEF RecordJobCompleted
    <2>2. e.turn = t /\ e.type = "JobCompletedRecorded" /\ e.job = j
        BY DEF JobCompletedRecorded, Ev
    <2> HIDE DEF e
    <2>3. \A q \in Completions(log) : log[q].job # j
        BY <1>4, <2>1
    <2>4. Fits(log, e)
        BY <1>4, <1>5, <2>2, <2>3 DEF Fits
    <2> QED
        BY <2>4 DEF e
<1>8. ASSUME FinishJobCompleted
      PROVE  c \in Nat /\ Fits(log, ToolResult(t, c))
    <2>1. mode = "recording"
        BY <1>8 DEF FinishJobCompleted
    <2>2. Done(log, p)
        BY <1>4, <1>6, <2>1 DEF Done
    <2> HIDE DEF t, j, c
    <2> QED
        BY <1>2, <1>4, <1>5, <2>2, CompletedFits
<1> QED
    BY <1>3, <1>4, <1>5, <1>7, <1>8

\* They keep the calls as they should be.
LEMMA JobCompletedCalls == SessionInv /\ CallsInv /\ (RecordJobCompleted \/ FinishJobCompleted) => CallsInv'
<1> SUFFICES ASSUME SessionInv, CallsInv, RecordJobCompleted \/ FinishJobCompleted
             PROVE  CallsInv'
    OBVIOUS
<1> DEFINE t == inFlight.turn
           j == inFlight.job
           c == inFlight.call
<1>2. Held(log, drivers, results, inFlight) /\ CallsHeld(log, DOMAIN jobs, drivers, results, inFlight, mode)
      /\ log \in Seq(Event) /\ LogOK(log)
    BY DEF SessionInv, CallsInv, CallsHeld, Held, Shaped
<1>3. /\ t \notin DOMAIN drivers /\ (\A n \in DOMAIN results : results[n].turn # t) /\ t \in Nat /\ j \in Nat
      /\ RecordJobCompleted => Fits(log, JobCompletedRecorded(t, j))
      /\ FinishJobCompleted => c \in Nat /\ Fits(log, ToolResult(t, c))
    BY AppliedJob
<1>4. c = LookupCallId(log, j) /\ c \notin Answered(log)
    BY AppliedJob
<1>5. PICK p \in Pauses(log) : log[p] = TurnPaused(t, j)
    BY AppliedJob
<1>7. CASE RecordJobCompleted
    <2> DEFINE e == JobCompletedRecorded(t, j)
               kg == Append(log, e)
               n == Len(log)
    <2>1. /\ log' = kg /\ drivers' = drivers /\ results' = results /\ inFlight' = inFlight
          /\ jobs' = jobs /\ mode = "completing" /\ mode' = "recording"
        BY <1>7 DEF RecordJobCompleted, Record, jobVars
    <2>2. e \in Event /\ e.turn = t /\ e.type = "JobCompletedRecorded" /\ e.job = j
        BY <1>3, EventTypesOK DEF JobCompletedRecorded, Ev
    <2>4. Fits(log, e)
        BY <1>3, <1>7
    <2> HIDE DEF e
    <2>5. LookupCallId(kg, j) = c /\ c \notin Answered(kg)
        BY <1>2, <1>4, <2>2, <2>4, AppendLookup, FreeParts
    <2>6. /\ kg[p] = log[p] /\ p \in Pauses(kg) /\ n \in Nat /\ kg[n + 1] = e
          /\ n + 1 \in Completions(kg)
        BY <1>2, <2>2, AppendEvents, GrownBy
    <2> HIDE DEF kg, n
    <2>7. ActorOK(kg, inFlight, "recording")
        BY <1>5, <2>2, <2>5, <2>6 DEF ActorOK
    <2>8. CallsHeld(kg, DOMAIN jobs, drivers, results, inFlight, "recording")
        BY <1>2, <1>3, <2>2, <2>4, <2>7, CallsActorWrites DEF kg
    <2> QED
        BY <2>1, <2>8 DEF CallsInv
<1>8. CASE FinishJobCompleted
    <2> DEFINE d == FromToolDispatching(CountModelCalls(log, t), <<>>, FALSE)
               es == [u \in DOMAIN drivers \cup {t} |-> IF u = t THEN d ELSE drivers[u]]
    <2>1. /\ log' = Append(log, ToolResult(t, c)) /\ drivers' = es /\ inFlight' = Active(t)
          /\ mode = "recording" /\ mode' = "running" /\ results' = results /\ jobs' = jobs
        BY <1>8 DEF FinishJobCompleted, Spawn, jobVars
    <2>3. c \in Nat /\ Fits(log, ToolResult(t, c))
        BY <1>3, <1>8
    <2>4. TaskOK(Append(log, ToolResult(t, c)), DOMAIN jobs, t, d) /\ d.pc \notin Unnoted
        BY NothingPending
    <2> HIDE DEF d
    <2>5. CallsHeld(Append(log, ToolResult(t, c)), DOMAIN jobs, es, results, Active(t), mode')
        <3> HIDE DEF t, j, c
        <3>1. CallsHeld(Append(log, ToolResult(t, c)), DOMAIN jobs, drivers, results, Active(t), mode)
            BY <1>2, <1>3, <2>3, CallsAnswer
        <3>2. Active(t).kind # "Paused"
            BY DEF Active
        <3> QED
            BY <2>4, <3>1, <3>2, CallsSpawn
    <2> HIDE DEF es
    <2> QED
        BY <2>1, <2>5 DEF CallsInv
<1> QED
    BY <1>7, <1>8

-----------------------------------------------------------------------------
(* What a restart takes from the log.                                      *)

\* The last turn boundary, and the last model call after it.
LastBoundary(lg) == Latest(Positions(lg, Boundaries))
LastOpening(lg) == Latest({i \in Openings(lg) : i > LastBoundary(lg)})
LastSeal(lg) == Latest({i \in Seals(lg) : i > LastBoundary(lg)})

\* The calls of the last response that have no result after it.
Unanswered(lg) ==
    {i \in Uses(lg) : /\ LastOpening(lg) < i /\ i < LastSeal(lg)
                      /\ lg[i].key \notin {lg[r].key : r \in {k \in Answers(lg) : k > LastSeal(lg)}}}

PendingCalls(lg) ==
    LET f == InOrder(Unanswered(lg))
    IN  [n \in DOMAIN f |-> [id |-> lg[f[n]].key, ok |-> lg[f[n]].info = "valid"]]

\* The boundary a turn is taken up from.
LEMMA Boundary ==
    ASSUME NEW lg \in Seq(Event), Replay(lg).point \in Taken
    PROVE  LET b == LastBoundary(lg) IN
           /\ b \in DOMAIN lg /\ b \in 1..Len(lg) /\ Len(lg) \in Nat /\ DOMAIN lg = 1..Len(lg)
           /\ lg[b].type \in {"TurnStarted", "TurnPaused"}
           /\ \A k \in DOMAIN lg : lg[k].type \in Boundaries => k <= b
           /\ lg[b].type = "TurnPaused" => Replay(lg) = ResumeFromTurnPaused(lg, b)
           /\ lg[b].type = "TurnStarted" => /\ Replay(lg) = ResumeFromTurnStarted(lg, b)
                                            /\ ~NestedTurnStarted(lg)
<1> DEFINE b == LastBoundary(lg)
<1>1. /\ Len(lg) \in Nat /\ DOMAIN lg = 1..Len(lg)
      /\ Positions(lg, Boundaries) \in SUBSET (1..Len(lg))
    BY DEF Positions
<1>2. \/ b = 0
      \/ /\ b \in DOMAIN lg /\ lg[b].type \in Boundaries
         /\ \A k \in DOMAIN lg : lg[k].type \in Boundaries => k <= b
    BY <1>1, LatestIsLast DEF LastBoundary, Positions
<1>3. Replay(lg) \notin {Fresh, Malformed}
    BY DEF Fresh, Malformed, Decision, Taken
<1>4. /\ b # 0 /\ ~NestedTurnStarted(lg)
      /\ \/ lg[b].type = "TurnPaused" /\ Replay(lg) = ResumeFromTurnPaused(lg, b)
         \/ lg[b].type = "TurnStarted" /\ Replay(lg) = ResumeFromTurnStarted(lg, b)
    <2>1. b = Latest(Positions(lg, Boundaries))
        BY DEF LastBoundary
    <2> HIDE DEF b
    <2>2. ~NestedTurnStarted(lg)
        BY <1>3 DEF Replay
    <2>3. Replay(lg) = IF b = 0 \/ lg[b].type \in {"TurnCompleted", "TurnFailed"} THEN Fresh
                       ELSE IF lg[b].type = "TurnPaused" THEN ResumeFromTurnPaused(lg, b)
                       ELSE ResumeFromTurnStarted(lg, b)
        BY <1>3, <2>1 DEF Replay
    <2>4. b # 0 /\ lg[b].type \in {"TurnStarted", "TurnPaused"}
        BY <1>2, <1>3, <2>3 DEF Boundaries
    <2> QED
        BY <2>2, <2>3, <2>4
<1> HIDE DEF b
<1> QED
    BY <1>1, <1>2, <1>4 DEF b

\* A pause is waited for if its job's completion is not in the log, and answered if it is.
LEMMA PausedPoints ==
    ASSUME NEW lg \in Seq(Event), LogOK(lg), NEW d, d = Replay(lg),
           d.point \in {"ResumePausedJob", "ResumeAfterJobCompletion"}
    PROVE  \E p \in Pauses(lg) :
               /\ lg[p] = TurnPaused(d.turn, d.job) /\ d.job \in JobIds /\ d.call = LookupCallId(lg, d.job)
               /\ d.point = "ResumeAfterJobCompletion" => Done(lg, p)
               /\ d.point = "ResumePausedJob" => /\ d.call \notin Answered(lg)
                                                 /\ \A q \in Completions(lg) : lg[q].job # d.job
<1> DEFINE b == LastBoundary(lg)
<1>1. /\ b \in DOMAIN lg /\ lg[b].type \in {"TurnStarted", "TurnPaused"}
      /\ lg[b].type = "TurnPaused" => d = ResumeFromTurnPaused(lg, b)
      /\ lg[b].type = "TurnStarted" => d = ResumeFromTurnStarted(lg, b)
    BY Boundary DEF Taken
<1> HIDE DEF b
<1>2. lg[b].type = "TurnPaused"
    <2> SUFFICES ASSUME lg[b].type = "TurnStarted"
                 PROVE  FALSE
        BY <1>1
    <2>1. \E pend : d \in {Decision("RestartCurrentTurn", lg[b].turn, <<>>, None, None), Malformed,
                          Decision("ResumeFromModelCompleted", lg[b].turn, <<>>, None, None),
                          Decision("ResumeFromToolDispatching", lg[b].turn, pend, None, None)}
        BY <1>1, Zenon DEF ResumeFromTurnStarted
    <2>2. d.point \notin {"ResumePausedJob", "ResumeAfterJobCompletion"}
        BY <2>1 DEF Decision, Malformed
    <2> QED
        BY <2>2
<1>3. b \in Pauses(lg)
    BY <1>1, <1>2 DEF Pauses, Positions
<1> DEFINE done == {i \in Completions(lg) : i > b /\ lg[i].job = lg[b].job}
<1>4. /\ d.turn = lg[b].turn /\ d.job = lg[b].job /\ d.call = LookupCallId(lg, lg[b].job)
      /\ done = {} <=> d.point = "ResumePausedJob"
    BY <1>1, <1>2 DEF ResumeFromTurnPaused, Decision, Malformed, Completions
<1>5. lg[b] = TurnPaused(d.turn, d.job) /\ d.job \in JobIds
    BY <1>3, <1>4 DEF LogOK, PausesOK
<1>6. d.point = "ResumeAfterJobCompletion" => Done(lg, b)
    BY <1>4 DEF Done
<1>7. ASSUME d.point = "ResumePausedJob"
      PROVE  \A q \in Completions(lg) : lg[q].job # d.job
    <2> SUFFICES ASSUME NEW q \in Completions(lg), lg[q].job = d.job
                 PROVE  FALSE
        OBVIOUS
    <2>1. PICK p \in Pauses(lg) : p < q /\ lg[p] = TurnPaused(lg[q].turn, lg[q].job)
        BY DEF LogOK, CompletionsOK
    <2>2. lg[p].job = lg[b].job
        BY <1>4, <2>1 DEF TurnPaused, Ev
    <2>3. p = b
        BY <1>3, <2>2 DEF LogOK, PausesOK, CallOf
    <2>4. q > b
        BY <2>1, <2>3
    <2> QED
        BY <1>4, <1>7, <2>4
<1>8. ASSUME d.point = "ResumePausedJob"
      PROVE  d.call \notin Answered(lg)
    <2> SUFFICES ASSUME d.call \in Answered(lg)
                 PROVE  FALSE
        OBVIOUS
    <2>1. PICK r \in Answers(lg) : lg[r].key = CallOf(lg, b)
        BY <1>4 DEF Answered, Answers, CallOf
    <2>2. Done(lg, b)
        BY <1>3, <2>1 DEF LogOK, AnswersDone
    <2> QED
        BY <1>4, <1>7, <1>8, <2>2 DEF Done
<1> QED
    BY <1>3, <1>4, <1>5, <1>6, <1>7, <1>8

\* What is written after the start of the last turn is of that turn.
LEMMA LastTurn ==
    ASSUME NEW lg \in Seq(Event), LogOK(lg), OfStartedTurns(lg), EndsAreLast(lg), ~NestedTurnStarted(lg),
           NEW b \in Begins(lg), \A k \in DOMAIN lg : lg[k].type \in Boundaries => k <= b,
           NEW i \in DOMAIN lg, i > b
    PROVE  lg[i].turn = lg[b].turn
<1> DEFINE c == Cardinality(Begins(lg))
<1>1. c \in Nat /\ Begins(lg) \subseteq 1..Len(lg) /\ Len(lg) \in Nat /\ DOMAIN lg = 1..Len(lg)
    <2>1. TurnFailed(0) \in Event
        BY EventTypesOK
    <2> QED
        BY <2>1, AppendStarted DEF Begins, Positions
<1>2. \A k \in Begins(lg) : k <= b
    BY DEF Begins, Positions, Boundaries
<1>3. lg[b].turn = c /\ \A w \in 1..(c - 1) : \E k \in Ends(lg) : k < b /\ lg[k].turn = w
    BY <1>2 DEF LogOK, Sequential
<1>4. lg[i].turn \in 1..c
    BY DEF OfStartedTurns, StartedIn, Begins
<1> HIDE DEF c
<1> SUFFICES ASSUME lg[i].turn # c
             PROVE  FALSE
    BY <1>3
<1>5. lg[i].turn \in 1..(c - 1)
    BY <1>1, <1>4
<1>6. PICK k \in Ends(lg) : k < b /\ lg[k].turn = lg[i].turn
    BY <1>3, <1>5
<1>7. k < i
    <2>1. k \in Int /\ b \in Int /\ i \in Int
        BY <1>1 DEF Ends, Positions
    <2> QED
        BY <1>6, <2>1
<1> QED
    BY <1>6, <1>7 DEF EndsAreLast, Ends

\* The turn that is taken up from its last response, and the calls dispatched again.
LEMMA DispatchPoint ==
    ASSUME NEW lg \in Seq(Event), NEW d, d = Replay(lg),
           d.point \in {"ResumeFromModelCompleted", "ResumeFromToolDispatching"}
    PROVE  LET b == LastBoundary(lg) IN
           /\ b \in Begins(lg) /\ \A k \in DOMAIN lg : lg[k].type \in Boundaries => k <= b
           /\ ~NestedTurnStarted(lg)
           /\ d.turn = lg[b].turn /\ d.pending = PendingCalls(lg)
           /\ d.point = "ResumeFromModelCompleted" => d.pending = <<>>
           /\ LastOpening(lg) # 0 /\ ~(LastOpening(lg) > LastSeal(lg))
<1> DEFINE b == LastBoundary(lg)
<1>1. /\ b \in DOMAIN lg /\ lg[b].type \in {"TurnStarted", "TurnPaused"}
      /\ \A k \in DOMAIN lg : lg[k].type \in Boundaries => k <= b
      /\ lg[b].type = "TurnPaused" => d = ResumeFromTurnPaused(lg, b)
      /\ lg[b].type = "TurnStarted" => d = ResumeFromTurnStarted(lg, b) /\ ~NestedTurnStarted(lg)
    BY Boundary DEF Taken
<1>2. lg[b].type = "TurnStarted"
    <2> SUFFICES ASSUME lg[b].type = "TurnPaused"
                 PROVE  FALSE
        BY <1>1
    <2> HIDE DEF b
    <2>1. \E j, c : d \in {Decision("ResumePausedJob", lg[b].turn, <<>>, j, c), Malformed,
                          Decision("ResumeAfterJobCompletion", lg[b].turn, <<>>, j, c)}
        BY <1>1, Zenon DEF ResumeFromTurnPaused
    <2>2. d.point \notin {"ResumeFromModelCompleted", "ResumeFromToolDispatching"}
        BY <2>1 DEF Decision, Malformed
    <2> QED
        BY <2>2
<1>3. b \in Begins(lg)
    BY <1>1, <1>2 DEF Begins, Positions
<1> DEFINE pending == PendingCalls(lg)
           started == LastOpening(lg)
           completed == LastSeal(lg)
           answered == {lg[i].key : i \in {k \in Positions(lg, {"ToolResultRecorded"}) : k > completed}}
<1>4. d = IF started = 0 \/ started > completed
          THEN Decision("RestartCurrentTurn", lg[b].turn, <<>>, None, None)
          ELSE IF pending = <<>> /\ answered = {}
          THEN IF lg[completed].info = "ToolUse" THEN Malformed
               ELSE Decision("ResumeFromModelCompleted", lg[b].turn, <<>>, None, None)
          ELSE Decision("ResumeFromToolDispatching", lg[b].turn, pending, None, None)
    <2>1. started = Latest({i \in Positions(lg, {"ModelCallStarted"}) : i > b})
        BY DEF LastOpening, Openings
    <2>2. completed = Latest({i \in Positions(lg, {"ModelCallCompleted"}) : i > b})
        BY DEF LastSeal, Seals
    <2>3. InOrder({i \in Positions(lg, {"ToolUseRecorded"}) : started < i /\ i < completed /\ lg[i].key \notin answered})
          = InOrder(Unanswered(lg))
        BY DEF Unanswered, Uses, Answers
    <2> HIDE DEF started, completed, b, answered
    <2> DEFINE f == InOrder({i \in Positions(lg, {"ToolUseRecorded"}) :
                                started < i /\ i < completed /\ lg[i].key \notin answered})
    <2>4. pending = [n \in DOMAIN f |-> [id |-> lg[f[n]].key, ok |-> lg[f[n]].info = "valid"]]
        BY <2>3 DEF PendingCalls
    <2>5. d = ResumeFromTurnStarted(lg, b)
        BY <1>1, <1>2 DEF b
    <2> HIDE DEF pending
    <2> QED
        BY <2>1, <2>2, <2>4, <2>5, Zenon DEF ResumeFromTurnStarted, f, answered
<1> HIDE DEF pending, started, completed, answered, b
<1>5. /\ started # 0 /\ ~(started > completed) /\ d.turn = lg[b].turn /\ d.pending = pending
      /\ d.point = "ResumeFromModelCompleted" => d.pending = <<>>
    <2> DEFINE none == <<>>
    <2> HIDE DEF none
    <2>1. \/ d \in {Decision("RestartCurrentTurn", lg[b].turn, none, None, None), Malformed}
          \/ /\ started # 0 /\ ~(started > completed)
             /\ \/ pending = none /\ d = Decision("ResumeFromModelCompleted", lg[b].turn, none, None, None)
                \/ d = Decision("ResumeFromToolDispatching", lg[b].turn, pending, None, None)
        BY <1>4, Zenon DEF none
    <2>2. /\ started # 0 /\ ~(started > completed) /\ d.turn = lg[b].turn /\ d.pending = pending
          /\ d.point = "ResumeFromModelCompleted" => d.pending = none
        BY <2>1 DEF Decision, Malformed
    <2> QED
        BY <2>2 DEF none
<1> QED
    BY <1>1, <1>2, <1>3, <1>5 DEF b, pending, started, completed

\* The model call of the last response, and the event that seals it.
LEMMA LastResponse ==
    ASSUME NEW lg \in Seq(Event), LastOpening(lg) # 0, ~(LastOpening(lg) > LastSeal(lg))
    PROVE  LET b == LastBoundary(lg)
               o == LastOpening(lg)
               s == LastSeal(lg)
           IN  /\ o \in Openings(lg) /\ o > b /\ \A m \in Openings(lg) : m > b => m <= o
               /\ s \in Seals(lg) /\ s > b
<1> DEFINE b == LastBoundary(lg)
           o == LastOpening(lg)
           s == LastSeal(lg)
           n == Len(lg)
           S == {m \in Openings(lg) : m > b}
           T == {m \in Seals(lg) : m > b}
<1>1. /\ n \in Nat /\ Openings(lg) \in SUBSET (1..n) /\ Seals(lg) \in SUBSET (1..n)
      /\ o # 0 /\ ~(o > s)
    BY DEF Openings, Seals, Positions
<1>2. S \in SUBSET (1..n) /\ o = Latest(S) /\ T \in SUBSET (1..n) /\ s = Latest(T)
    BY <1>1 DEF LastOpening, LastSeal
<1> HIDE DEF b, o, s, n, S, T
<1>3. S # {} /\ o \in S /\ \A k \in S : k <= o
    BY <1>1, <1>2, LatestIsLast
<1>4. s # 0
    BY <1>1, <1>2, <1>3
<1>5. s \in T
    BY <1>1, <1>2, <1>4, LatestIsLast
<1> QED
    BY <1>3, <1>5 DEF b, o, s, S, T

\* A call that is dispatched again is free, and of the turn that is taken up: a
\* result it had would come after its model call, where it would have been found.
LEMMA UnansweredFree ==
    ASSUME NEW lg \in Seq(Event), LogOK(lg), OfStartedTurns(lg), EndsAreLast(lg),
           NEW d, d = Replay(lg), d.point = "ResumeFromToolDispatching", NEW i \in Unanswered(lg)
    PROVE  lg[i].key \in Free(lg, d.turn)
<1> DEFINE b == LastBoundary(lg)
           o == LastOpening(lg)
           s == LastSeal(lg)
           n == Len(lg)
<1>1. /\ b \in Begins(lg) /\ \A k \in DOMAIN lg : lg[k].type \in Boundaries => k <= b
      /\ ~NestedTurnStarted(lg) /\ d.turn = lg[b].turn /\ o # 0 /\ ~(o > s)
    BY DispatchPoint
<1>2. /\ n \in Nat /\ DOMAIN lg = 1..n /\ Uses(lg) \subseteq 1..n /\ Answers(lg) \subseteq 1..n
      /\ Openings(lg) \subseteq 1..n /\ Seals(lg) \subseteq 1..n /\ Pauses(lg) \subseteq 1..n /\ b \in 1..n
    BY <1>1 DEF Uses, Answers, Openings, Seals, Pauses, Begins, Positions
<1>3. o \in Openings(lg) /\ o > b /\ \A m \in Openings(lg) : m > b => m <= o
    BY <1>1, LastResponse
<1>4. s \in Seals(lg) /\ s > b
    BY <1>1, LastResponse
<1>5. /\ i \in Uses(lg) /\ o < i /\ i < s
      /\ \A r \in Answers(lg) : r > s => lg[r].key # lg[i].key
    BY DEF Unanswered
<1> HIDE DEF b, o, s, n
<1>6. \A k \in 1..n : k > b => lg[k].turn = d.turn
    BY <1>1, <1>2, LastTurn
<1>7. i \in 1..n /\ s \in 1..n /\ o \in 1..n /\ b \in 1..n /\ i > b
    BY <1>2, <1>3, <1>4, <1>5
<1>8. lg[i].key \in UsedBy(lg, d.turn)
    BY <1>5, <1>6, <1>7 DEF UsedBy
<1>9. \A t, m : UsedBefore(lg, t, lg[i].key, m) => i < m
    BY <1>5 DEF LogOK, UsesOK, UsedBefore
<1>10. \A r \in Answers(lg) : lg[r].key # lg[i].key
    <2> SUFFICES ASSUME NEW r \in Answers(lg), lg[r].key = lg[i].key
                 PROVE  FALSE
        OBVIOUS
    <2>1. i < r /\ r \in 1..n /\ r > b
        <3>1. UsedBefore(lg, lg[r].turn, lg[i].key, r)
            BY DEF LogOK, AnswersOK
        <3>2. i < r /\ r \in 1..n
            BY <1>2, <1>9, <3>1
        <3> QED
            BY <1>7, <3>2
    <2>2. r < s
        <3>1. lg[r].type = "ToolResultRecorded" /\ lg[s].type = "ModelCallCompleted"
            BY <1>4 DEF Answers, Seals, Positions
        <3>2. ~(r > s) /\ r # s
            BY <1>5, <3>1
        <3> QED
            BY <1>7, <2>1, <3>2
    <2>3. lg[r].turn = d.turn /\ lg[s].turn = d.turn
        BY <1>4, <1>6, <1>7, <2>1
    <2>4. PICK m \in Openings(lg) : r < m /\ m < s
        BY <1>4, <2>2, <2>3 DEF LogOK, StreamsOK, Consumed
    <2>5. m \in 1..n /\ m > b /\ m <= o
        <3>1. m \in 1..n
            BY <1>2
        <3>2. m > b
            BY <1>7, <2>1, <2>4, <3>1
        <3> QED
            BY <1>3, <3>1, <3>2
    <2> QED
        BY <1>5, <1>7, <2>1, <2>4, <2>5
<1>11. \A p \in Pauses(lg) : CallOf(lg, p) # lg[i].key
    <2> SUFFICES ASSUME NEW p \in Pauses(lg), CallOf(lg, p) = lg[i].key
                 PROVE  FALSE
        OBVIOUS
    <2>1. UsedBefore(lg, lg[p].turn, lg[i].key, p)
        BY DEF LogOK, PausesOK
    <2>2. i < p /\ p \in 1..n
        BY <1>2, <1>9, <2>1
    <2>3. p <= b
        BY <1>1 DEF Pauses, Positions, Boundaries
    <2> QED
        BY <1>7, <2>2, <2>3
<1>12. Answered(lg) = {lg[r].key : r \in Answers(lg)}
    BY DEF Answered, Answers
<1> QED
    BY <1>8, <1>10, <1>11, <1>12 DEF Free, Parked

\* The task that dispatches them again.
LEMMA PendingTask ==
    ASSUME NEW lg \in Seq(Event), LogOK(lg), OfStartedTurns(lg), EndsAreLast(lg),
           NEW d, d = Replay(lg), d.point = "ResumeFromToolDispatching", NEW js, NEW m, NEW drift
    PROVE  /\ TaskOK(lg, js, d.turn, FromToolDispatching(m, d.pending, drift))
           /\ FromToolDispatching(m, d.pending, drift).pc \notin Unnoted
<1> DEFINE S == Unanswered(lg)
           f == InOrder(S)
           c == Cardinality(S)
           pend == PendingCalls(lg)
<1>1. d.pending = pend
    BY DispatchPoint
<1>2. Len(lg) \in Nat /\ S \in SUBSET (1..Len(lg))
    BY DEF Unanswered, Uses, Positions
<1> HIDE DEF S
<1>3. c \in Nat /\ f \in [1..c -> S] /\ \A i, k \in 1..c : i < k => f[i] < f[k]
    BY <1>2, InOrderAscends
<1>4. pend = [n \in DOMAIN f |-> [id |-> lg[f[n]].key, ok |-> lg[f[n]].info = "valid"]]
    BY DEF PendingCalls, S
<1> HIDE DEF f, c, pend
<1>5. DOMAIN pend = 1..c /\ \A n \in 1..c : f[n] \in S /\ pend[n].id = lg[f[n]].key
    BY <1>3, <1>4
<1>6. \A i \in S : lg[i].key \in Free(lg, d.turn)
    BY UnansweredFree DEF S
<1>7. Ids(pend) \subseteq Free(lg, d.turn)
    BY <1>5, <1>6 DEF Ids
<1>8. Distinct(pend)
    <2> SUFFICES ASSUME NEW n \in 1..c, NEW k \in 1..c, pend[n].id = pend[k].id
                 PROVE  n = k
        BY <1>5 DEF Distinct
    <2>1. f[n] = f[k]
        <3>1. f[n] \in Uses(lg) /\ f[k] \in Uses(lg)
            BY <1>5 DEF S, Unanswered
        <3>2. lg[f[n]].key = lg[f[k]].key
            BY <1>5
        <3> QED
            BY <3>1, <3>2 DEF LogOK, UsesOK
    <2>2. ~(n < k) /\ ~(k < n)
        <3>1. f[n] \in 1..Len(lg) /\ f[k] \in 1..Len(lg)
            BY <1>2, <1>5
        <3> QED
            BY <1>3, <2>1, <3>1
    <2> QED
        BY <1>3, <2>2
<1> DEFINE none == <<>>
<1>9. DOMAIN none = {}
    OBVIOUS
<1> HIDE DEF none
<1>10. Ids(none) = {} /\ Distinct(none)
    BY <1>9 DEF Ids, Distinct
<1> DEFINE no == FALSE
<1> HIDE DEF no
<1>11. ASSUME NEW pc \in {"Failing", "ToolDispatching"}
       PROVE  TaskOK(lg, js, d.turn, Task(pc, m, pend)) /\ Task(pc, m, pend).pc \notin Unnoted
    <2> DEFINE x == [pc |-> pc, mcalls |-> m, streak |-> 0, todo |-> none, pend |-> pend, bad |-> no, job |-> None]
    <2>1. x.pc = pc /\ x.todo = none /\ x.pend = pend
        OBVIOUS
    <2>2. x = Task(pc, m, pend)
        BY DEF Task, none, no
    <2> HIDE DEF x
    <2>3. Apart(x) /\ Ids(x.todo) \cup Ids(x.pend) \subseteq Free(lg, d.turn)
        BY <1>7, <1>8, <1>10, <2>1 DEF Apart
    <2>4. x.pc \notin Streaming \cup WithJob /\ x.pc \notin Unnoted
        BY <2>1 DEF Streaming, WithJob, Unnoted
    <2>5. TaskOK(lg, js, d.turn, x)
        BY <2>3, <2>4, FreeTask
    <2> QED
        BY <2>2, <2>4, <2>5
<1>12. \E pc \in {"Failing", "ToolDispatching"} : FromToolDispatching(m, pend, drift) = Task(pc, m, pend)
    BY DEF FromToolDispatching
<1> QED
    BY <1>1, <1>11, <1>12

\* The session is opened.
LEMMA StartCalls == SessionInv /\ CallsInv /\ Start => CallsInv'
<1> SUFFICES ASSUME SessionInv, CallsInv, Start
             PROVE  CallsInv'
    OBVIOUS
<1> DEFINE d == Replay(log)
           t == d.turn
<1>1. NewActor
    BY DEF Start, StartIdle, StartFails, StartTurn, StartPaused, StartAfterJob
<1>2. /\ DOMAIN drivers = {} /\ results = <<>> /\ inFlight = NoTurn /\ log \in Seq(Event) /\ incarnation' \in Sinks
      /\ t \in Nat
    BY <1>1, NewActorFinds
<1>3. /\ Held(log, drivers, results, inFlight) /\ CallsHeld(log, DOMAIN jobs, drivers, results, inFlight, mode)
      /\ LogOK(log) /\ OfStartedTurns(log) /\ EndsAreLast(log)
    BY DEF SessionInv, CallsInv, CallsHeld, Held, HoldersStarted
<1>4. t \notin DOMAIN drivers /\ \A n \in DOMAIN results : results[n].turn # t
    BY <1>2
<1>5. d = Replay(log) /\ t = d.turn
    OBVIOUS
<1> HIDE DEF d, t
<1>6. Active(t).kind # "Paused"
    BY DEF Active
<1>7. NoTurn.kind # "Paused"
    BY DEF NoTurn
<1>8. CASE StartIdle \/ StartFails
    <2>1. UNCHANGED <<log, drivers, results, inFlight, jobs>>
        BY <1>8 DEF StartIdle, StartFails, turnVars, jobVars
    <2> QED
        BY <1>2, <1>7, <2>1, QuietCalls
<1>9. CASE StartTurn
    <2>1. \E x : /\ Spawn(t, x) /\ TaskOK(log, DOMAIN jobs, t, x) /\ x.pc \notin Unnoted
        <3>1. CASE /\ d.point = "ResumeFromModelCompleted"
                   /\ Spawn(t, FromModelCompleted(CountModelCalls(log, t)))
            BY <3>1, NothingPending
        <3>2. CASE /\ d.point = "ResumeFromToolDispatching"
                   /\ \E drift : Spawn(t, FromToolDispatching(CountModelCalls(log, t), d.pending, drift))
            <4>1. PICK drift : Spawn(t, FromToolDispatching(CountModelCalls(log, t), d.pending, drift))
                BY <3>2
            <4> DEFINE x == FromToolDispatching(CountModelCalls(log, t), d.pending, drift)
            <4>2. TaskOK(log, DOMAIN jobs, t, x) /\ x.pc \notin Unnoted
                BY <1>2, <1>3, <1>5, <3>2, PendingTask
            <4>3. Spawn(t, x)
                BY <4>1
            <4> HIDE DEF x
            <4> QED
                BY <4>2, <4>3
        <3> QED
            BY <1>5, <1>9, <3>1, <3>2 DEF StartTurn
    <2>2. PICK x : Spawn(t, x) /\ TaskOK(log, DOMAIN jobs, t, x) /\ x.pc \notin Unnoted
        BY <2>1
    <2>3. log' = log /\ results' = results /\ jobs' = jobs /\ inFlight' = Active(t)
        BY <1>5, <1>9 DEF StartTurn, jobVars
    <2> DEFINE es == [u \in DOMAIN drivers \cup {t} |-> IF u = t THEN x ELSE drivers[u]]
    <2>4. drivers' = es
        BY <2>2 DEF Spawn
    <2>5. CallsHeld(log, DOMAIN jobs, es, results, Active(t), mode')
        BY <1>3, <1>6, <2>2, CallsSpawn
    <2> HIDE DEF es
    <2> QED
        BY <2>3, <2>4, <2>5 DEF CallsInv
<1>10. CASE StartPaused
    <2> DEFINE gl == PausedOnJob(t, d.job, d.call)
    <2>1. /\ log' = log /\ drivers' = drivers /\ results' = results /\ inFlight' = gl /\ mode' = "running"
          /\ d.point = "ResumePausedJob"
        BY <1>5, <1>10 DEF StartPaused, turnVars
    <2>2. gl.turn = t /\ gl.job = d.job /\ gl.call = d.call
        BY DEF PausedOnJob
    <2> HIDE DEF gl
    <2>3. PICK p \in Pauses(log) :
              /\ log[p] = TurnPaused(t, d.job) /\ d.call = LookupCallId(log, d.job)
              /\ d.call \notin Answered(log) /\ \A q \in Completions(log) : log[q].job # d.job
        BY <1>2, <1>3, <1>5, <2>1, PausedPoints
    <2>4. ActorOK(log, gl, "running")
        BY <2>2, <2>3 DEF ActorOK
    <2>5. CallsHeld(log, DOMAIN jobs', drivers, results, gl, "running")
        BY <1>2, <1>3, <2>4 DEF CallsHeld, SubmitsApart
    <2> QED
        BY <2>1, <2>5 DEF CallsInv
<1>11. CASE StartAfterJob
    <2> DEFINE x == FromToolDispatching(CountModelCalls(log, t), <<>>, FALSE)
               es == [u \in DOMAIN drivers \cup {t} |-> IF u = t THEN x ELSE drivers[u]]
    <2>1. /\ log' = IF d.call \in Answered(log) THEN log ELSE Append(log, ToolResult(t, d.call))
          /\ drivers' = es /\ results' = results /\ jobs' = jobs /\ inFlight' = Active(t)
          /\ d.point = "ResumeAfterJobCompletion"
        BY <1>5, <1>11 DEF StartAfterJob, Spawn, Record, jobVars
    <2>2. \A lg : TaskOK(lg, DOMAIN jobs, t, x) /\ x.pc \notin Unnoted
        BY NothingPending
    <2> HIDE DEF x
    <2>3. CASE d.call \in Answered(log)
        <3>1. CallsHeld(log, DOMAIN jobs, es, results, Active(t), mode')
            BY <1>3, <1>6, <2>2, CallsSpawn
        <3> HIDE DEF es
        <3> QED
            BY <2>1, <2>3, <3>1 DEF CallsInv
    <2>4. CASE d.call \notin Answered(log)
        <3>1. PICK p \in Pauses(log) : /\ log[p] = TurnPaused(t, d.job)
                                       /\ d.call = LookupCallId(log, d.job) /\ Done(log, p)
            BY <1>2, <1>3, <1>5, <2>1, PausedPoints
        <3>2. d.call \in Nat /\ Fits(log, ToolResult(t, d.call))
            BY <1>2, <1>3, <2>4, <3>1, CompletedFits
        <3> DEFINE kg == Append(log, ToolResult(t, d.call))
                   js == DOMAIN jobs
                   gl == Active(t)
        <3>3. CallsHeld(kg, js, drivers, results, gl, mode)
            BY <1>2, <1>3, <1>4, <3>2, CallsAnswer
        <3>4. TaskOK(kg, js, t, x) /\ gl.kind # "Paused"
            BY <1>6, <2>2
        <3> HIDE DEF kg, js, gl
        <3>5. CallsHeld(kg, js, es, results, gl, mode')
            BY <2>2, <3>3, <3>4, CallsSpawn
        <3> HIDE DEF es
        <3> QED
            BY <2>1, <2>4, <3>5 DEF CallsInv, kg, js, gl
    <2> QED
        BY <2>3, <2>4
<1> QED
    BY <1>8, <1>9, <1>10, <1>11 DEF Start

-----------------------------------------------------------------------------
(* One answer per call, and the order of an async call's events.           *)

\* Every step keeps it.
LEMMA CallsStep == SessionInv /\ CallsInv /\ [Next]_vars => CallsInv'
<1>1. SessionInv /\ CallsInv /\ ActorStep => CallsInv'
    BY TakeOutcomeCalls, StartHeldInputCalls, JobCompletedCalls, HandlerCalls, EndCalls DEF ActorStep
<1> QED
    BY <1>1, StartCalls, TurnStepCalls, AsideCalls, EndCalls DEF Next

\* The invariant holds throughout.
LEMMA CallsInvAlways == Spec => []CallsInv
BY CallsInit, CallsStep, SessionInvAlways, PTL DEF Spec

\* No tool call gets two results, though the turn task, the JobCompleted handler and
\* apply_resume_point all write them: over every interleaving, crash and restart, and
\* however soon a job ends.
THEOREM SessionToolResultOnce == Spec => []ToolResultOnce
<1>1. CallsInv => ToolResultOnce
    BY DEF CallsInv, CallsHeld, LogOK, AnswersOK, Answers, ToolResultOnce
<1> QED
    BY <1>1, CallsInvAlways, PTL

\* The events of an async call are in the log in the order JobSubmitted, TurnPaused,
\* JobCompletedRecorded, ToolResultRecorded, and the completion of a job is recorded
\* once, though the dispatcher, the actor and a restart write them.
THEOREM SessionAsyncChainOrdered == Spec => []AsyncChainOrdered
<1>1. SessionInv /\ CallsInv => AsyncChainOrdered
    <2> SUFFICES ASSUME SessionInv, CallsInv
                 PROVE  AsyncChainOrdered
        OBVIOUS
    <2>1. /\ LogOK(log) /\ DOMAIN log = 1..Len(log) /\ Len(log) \in Nat
          /\ Pauses(log) = Positions(log, {"TurnPaused"})
          /\ Completions(log) = Positions(log, {"JobCompletedRecorded"})
          /\ Answers(log) = Positions(log, {"ToolResultRecorded"})
        BY DEF SessionInv, Held, Shaped, CallsInv, CallsHeld, Pauses, Completions, Answers
    <2>2. ASSUME NEW p \in Pauses(log)
          PROVE  \E i \in 1..(p - 1) : log[i].type = "JobSubmitted" /\ log[i].job = log[p].job
                                       /\ log[i].turn = log[p].turn
        <3>1. PICK i \in Submissions(log) : i < p /\ log[i].job = log[p].job /\ log[i].turn = log[p].turn
            BY <2>1 DEF LogOK, PausesOK, SubmittedBefore
        <3>2. i \in 1..(p - 1) /\ log[i].type = "JobSubmitted"
            BY <2>1, <3>1 DEF Submissions, Positions
        <3> QED
            BY <3>1, <3>2
    <2>3. ASSUME NEW c \in Completions(log)
          PROVE  /\ \E p \in 1..(c - 1) : log[p] = TurnPaused(log[c].turn, log[c].job)
                 /\ \A d \in Completions(log) : log[d].job = log[c].job => d = c
                 /\ \A r \in Answers(log) : log[r].key = LookupCallId(log, log[c].job) => c < r
        <3>1. PICK p \in Pauses(log) : p < c /\ log[p] = TurnPaused(log[c].turn, log[c].job)
            BY <2>1 DEF LogOK, CompletionsOK
        <3>2. p \in 1..(c - 1)
            BY <2>1, <3>1 DEF Positions
        <3> QED
            BY <2>1, <3>1, <3>2 DEF LogOK, CompletionsOK, CallOf
    <2> QED
        BY <2>1, <2>2, <2>3 DEF AsyncChainOrdered
<1> QED
    BY <1>1, SessionInvAlways, CallsInvAlways, PTL

-----------------------------------------------------------------------------
(* Every call answered before its turn's next model call.                  *)

\* The call used at u comes after one of its turn that was submitted as a job.
Behind(lg, u) ==
    \E i \in Submissions(lg), k \in Uses(lg) : k < u /\ lg[k].key = lg[i].key /\ lg[k].turn = lg[u].turn

\* It is answered, or dropped behind a job.
Settled(lg, u) == lg[u].key \in Answered(lg) \/ Behind(lg, u)

\* The calls of turn t are settled but for those in C.
SettledBut(lg, t, C) == \A u \in Uses(lg) : lg[u].turn = t => Settled(lg, u) \/ lg[u].key \in C

\* Every model call turn t completed before n is followed by another it started before n.
Reopened(lg, t, n) ==
    \A s \in Seals(lg) : s < n /\ lg[s].turn = t => \E m \in Openings(lg) : s < m /\ m < n /\ lg[m].turn = t

\* The call used at u was answered after u and before n.
AnsweredBetween(lg, u, n) ==
    \E r \in Answers(lg) : u < r /\ r < n /\ lg[r].turn = lg[u].turn /\ lg[r].key = lg[u].key

UsesRise(lg) == \A i, k \in Uses(lg) : i < k => lg[i].key < lg[k].key

AnswersPlain(lg) == \A r \in Answers(lg) : lg[r] = ToolResult(lg[r].turn, lg[r].key)

\* The model makes its calls while it is called.
UsesStreamed(lg) == \A u \in Uses(lg) : Reopened(lg, lg[u].turn, u)

Matched(lg) ==
    \A m \in Openings(lg), u \in Uses(lg) :
        u < m /\ lg[u].turn = lg[m].turn => AnsweredBetween(lg, u, m) \/ Behind(lg, u)

\* A paused turn leaves open the call of its job only.
PausesSettled(lg) == \A p \in Pauses(lg) : SettledBut(lg, lg[p].turn, {CallOf(lg, p)})

MatchedLog(lg) ==
    UsesRise(lg) /\ AnswersPlain(lg) /\ UsesStreamed(lg) /\ Matched(lg) /\ PausesSettled(lg)

\* The event e, which fits, may be written next.
Suits(lg, e) ==
    /\ e.type = "ToolResultRecorded" => e = ToolResult(e.turn, e.key)
    /\ e.type = "ToolUseRecorded" => Reopened(lg, e.turn, Len(lg) + 1)
    /\ e.type = "ModelCallStarted" => SettledBut(lg, e.turn, {})
    /\ e.type = "TurnPaused" => SettledBut(lg, e.turn, {LookupCallId(lg, e.job)})

\* What is settled stays so.
LEMMA SettledKept ==
    ASSUME NEW lg \in Seq(Event), NEW e \in Event
    PROVE  LET kg == Append(lg, e) IN
           /\ Answered(lg) \subseteq Answered(kg)
           /\ e.type = "ToolResultRecorded" => e.key \in Answered(kg)
           /\ \A u \in Uses(lg) : Behind(lg, u) => Behind(kg, u)
           /\ \A u \in Uses(lg) : Settled(lg, u) => Settled(kg, u)
<1> DEFINE kg == Append(lg, e)
           n  == Len(lg)
<1>1. /\ n \in Nat /\ (\A i \in 1..n : kg[i] = lg[i]) /\ kg[n + 1] = e
      /\ Uses(lg) \in SUBSET (1..n) /\ Uses(lg) \subseteq Uses(kg)
      /\ Submissions(lg) \in SUBSET (1..n) /\ Submissions(lg) \subseteq Submissions(kg)
      /\ Answers(lg) \in SUBSET (1..n)
      /\ Answers(kg) = IF e.type = "ToolResultRecorded" THEN Answers(lg) \cup {n + 1} ELSE Answers(lg)
    BY AppendEvents, GrownBy
<1> HIDE DEF kg, n
<1>2. Answered(lg) = {lg[r].key : r \in Answers(lg)} /\ Answered(kg) = {kg[r].key : r \in Answers(kg)}
    BY DEF Answered, Answers
<1>3. Answered(lg) \subseteq Answered(kg) /\ (e.type = "ToolResultRecorded" => e.key \in Answered(kg))
    BY <1>1, <1>2
<1>4. \A u \in Uses(lg) : Behind(lg, u) => Behind(kg, u)
    BY <1>1 DEF Behind
<1>5. \A u \in Uses(lg) : kg[u] = lg[u]
    BY <1>1
<1> QED
    BY <1>3, <1>4, <1>5 DEF Settled, kg

\* Calls left open: those that were, less the one e answers, and the one e makes.
LEMMA SettledButKept ==
    ASSUME NEW lg \in Seq(Event), NEW e \in Event, NEW t, NEW C, NEW D, SettledBut(lg, t, C),
           \A c \in C : c \in D \/ (e.type = "ToolResultRecorded" /\ e.key = c),
           e.type = "ToolUseRecorded" /\ e.turn = t => e.key \in D \/ Behind(Append(lg, e), Len(lg) + 1)
    PROVE  SettledBut(Append(lg, e), t, D)
<1> DEFINE kg == Append(lg, e)
           n  == Len(lg)
<1>1. /\ n \in Nat /\ (\A i \in 1..n : kg[i] = lg[i]) /\ kg[n + 1] = e
      /\ Uses(lg) \in SUBSET (1..n)
      /\ Uses(kg) = IF e.type = "ToolUseRecorded" THEN Uses(lg) \cup {n + 1} ELSE Uses(lg)
    BY AppendEvents, GrownBy
<1>2. /\ e.type = "ToolResultRecorded" => e.key \in Answered(kg)
      /\ \A u \in Uses(lg) : Settled(lg, u) => Settled(kg, u)
    BY SettledKept
<1>3. e.type = "ToolUseRecorded" /\ e.turn = t => e.key \in D \/ Behind(kg, n + 1)
    OBVIOUS
<1> HIDE DEF kg, n
<1>4. ASSUME NEW u \in Uses(kg), kg[u].turn = t
      PROVE  Settled(kg, u) \/ kg[u].key \in D
    <2>1. CASE u \in Uses(lg)
        <3>1. kg[u] = lg[u]
            BY <1>1, <2>1
        <3>2. Settled(lg, u) \/ lg[u].key \in C
            BY <1>4, <2>1, <3>1 DEF SettledBut
        <3>3. lg[u].key \in C => lg[u].key \in D \/ kg[u].key \in Answered(kg)
            BY <1>2, <3>1
        <3> QED
            BY <1>2, <2>1, <3>1, <3>2, <3>3 DEF Settled
    <2>2. CASE u \notin Uses(lg)
        <3>1. u = n + 1 /\ e.type = "ToolUseRecorded" /\ kg[u] = e
            BY <1>1, <1>4, <2>2
        <3> QED
            BY <1>3, <1>4, <3>1 DEF Settled
    <2> QED
        BY <2>1, <2>2
<1> QED
    BY <1>4 DEF SettledBut, kg

\* The model calls of a turn before a position stay as they are, and up to the
\* end of the log unless one is completed.
LEMMA ReopenedKept ==
    ASSUME NEW lg \in Seq(Event), NEW e \in Event, NEW t
    PROVE  LET kg == Append(lg, e) IN
           /\ \A m \in 1..(Len(lg) + 1) : Reopened(lg, t, m) => Reopened(kg, t, m)
           /\ Reopened(lg, t, Len(lg) + 1) /\ (e.type = "ModelCallCompleted" => e.turn # t) =>
                  Reopened(kg, t, Len(kg) + 1)
           /\ e.type = "ModelCallStarted" /\ e.turn = t => Reopened(kg, t, Len(kg) + 1)
<1> DEFINE kg == Append(lg, e)
           n  == Len(lg)
<1>1. /\ n \in Nat /\ (\A i \in 1..n : kg[i] = lg[i] /\ i < n + 1 /\ i < n + 2) /\ kg[n + 1] = e
      /\ n + 1 < n + 2 /\ Len(kg) = n + 1
      /\ Seals(lg) \in SUBSET (1..n) /\ Openings(lg) \in SUBSET (1..n)
      /\ Seals(kg) = IF e.type = "ModelCallCompleted" THEN Seals(lg) \cup {n + 1} ELSE Seals(lg)
      /\ Openings(kg) = IF e.type = "ModelCallStarted" THEN Openings(lg) \cup {n + 1} ELSE Openings(lg)
    BY AppendEvents, GrownBy
<1>2. Len(kg) + 1 = n + 2
    BY <1>1
<1> HIDE DEF kg, n
<1>3. ASSUME NEW m \in 1..(n + 1), Reopened(lg, t, m)
      PROVE  Reopened(kg, t, m)
    <2> SUFFICES ASSUME NEW s \in Seals(kg), s < m, kg[s].turn = t
                 PROVE  \E o \in Openings(kg) : s < o /\ o < m /\ kg[o].turn = t
        BY DEF Reopened
    <2>1. s # n + 1
        BY <1>1
    <2>2. s \in Seals(lg) /\ lg[s].turn = t
        BY <1>1, <2>1
    <2>3. PICK o \in Openings(lg) : s < o /\ o < m /\ lg[o].turn = t
        BY <1>3, <2>2 DEF Reopened
    <2> QED
        BY <1>1, <2>3
<1>4. ASSUME Reopened(lg, t, n + 1), e.type = "ModelCallCompleted" => e.turn # t
      PROVE  Reopened(kg, t, n + 2)
    <2> SUFFICES ASSUME NEW s \in Seals(kg), kg[s].turn = t
                 PROVE  \E o \in Openings(kg) : s < o /\ o < n + 2 /\ kg[o].turn = t
        BY DEF Reopened
    <2>1. s \in Seals(lg) /\ lg[s].turn = t /\ s < n + 1
        BY <1>1, <1>4
    <2>2. PICK o \in Openings(lg) : s < o /\ o < n + 1 /\ lg[o].turn = t
        BY <1>4, <2>1 DEF Reopened
    <2> QED
        BY <1>1, <2>2
<1>5. ASSUME e.type = "ModelCallStarted", e.turn = t
      PROVE  Reopened(kg, t, n + 2)
    <2> SUFFICES ASSUME NEW s \in Seals(kg)
                 PROVE  \E o \in Openings(kg) : s < o /\ o < n + 2 /\ kg[o].turn = t
        BY DEF Reopened
    <2>1. s < n + 1 /\ n + 1 \in Openings(kg) /\ kg[n + 1].turn = t
        BY <1>1, <1>5
    <2> QED
        BY <1>1, <2>1
<1> QED
    BY <1>2, <1>3, <1>4, <1>5 DEF kg, n

\* A call that is answered is answered after it was made, and for its turn.
LEMMA AnswerFound ==
    ASSUME NEW lg \in Seq(Event), LogOK(lg), NEW u \in Uses(lg), lg[u].key \in Answered(lg)
    PROVE  AnsweredBetween(lg, u, Len(lg) + 1)
<1>1. PICK r \in Answers(lg) : lg[r].key = lg[u].key
    BY DEF Answered, Answers
<1>2. PICK k \in Uses(lg) : k < r /\ lg[k].turn = lg[r].turn /\ lg[k].key = lg[r].key
    BY DEF LogOK, AnswersOK, UsedBefore
<1>3. k = u
    BY <1>1, <1>2 DEF LogOK, UsesOK
<1>4. r < Len(lg) + 1
    BY DEF Answers, Positions
<1> QED
    BY <1>1, <1>2, <1>3, <1>4 DEF AnsweredBetween

\* What a turn uses after it has paused is behind the job it paused on.
LEMMA BehindPause ==
    ASSUME NEW lg \in Seq(Event), LogOK(lg), NEW p \in Pauses(lg), NEW u \in Uses(lg), p < u,
           lg[u].turn = lg[p].turn
    PROVE  Behind(lg, u)
<1>1. PICK k \in Uses(lg) : k < p /\ lg[k].turn = lg[p].turn /\ lg[k].key = CallOf(lg, p)
    BY DEF LogOK, PausesOK, UsedBefore
<1>2. /\ Cardinality(Uses(lg)) \in Nat
      /\ lg[k].key \in 1..Cardinality(Uses(lg))
    BY UsedApart DEF LogOK, UsesOK
<1>3. CallOf(lg, p) # None
    BY <1>1, <1>2 DEF None
<1>4. PICK i \in Submissions(lg) : lg[i].key = CallOf(lg, p)
    BY <1>3, LookupCallType DEF CallOf, Submissions, Positions
<1>5. k < u
    <2>1. k \in 1..Len(lg) /\ p \in 1..Len(lg) /\ u \in 1..Len(lg)
        BY DEF Uses, Pauses, Positions
    <2> QED
        BY <1>1, <2>1
<1> QED
    BY <1>1, <1>4, <1>5 DEF Behind

\* It says so still when an event is written that suits it.
LEMMA MatchedLogKept ==
    ASSUME NEW lg \in Seq(Event), NEW e \in Event, Fits(lg, e), Suits(lg, e),
           LogOK(lg), LogOK(Append(lg, e)), MatchedLog(lg)
    PROVE  MatchedLog(Append(lg, e))
<1> DEFINE kg == Append(lg, e)
           n  == Len(lg)
           c  == Cardinality(Uses(lg))
<1>1. /\ n \in Nat /\ (\A i \in 1..n : kg[i] = lg[i] /\ i < n + 1 /\ ~(n + 1 < i)) /\ kg[n + 1] = e
      /\ ~(n + 1 < n + 1) /\ 1..n \subseteq 1..(n + 1)
      /\ Uses(lg) \in SUBSET (1..n) /\ Answers(lg) \in SUBSET (1..n)
      /\ Openings(lg) \in SUBSET (1..n) /\ Pauses(lg) \in SUBSET (1..n)
      /\ Answers(lg) \subseteq Answers(kg)
      /\ Uses(kg) = IF e.type = "ToolUseRecorded" THEN Uses(lg) \cup {n + 1} ELSE Uses(lg)
      /\ Answers(kg) = IF e.type = "ToolResultRecorded" THEN Answers(lg) \cup {n + 1} ELSE Answers(lg)
      /\ Openings(kg) = IF e.type = "ModelCallStarted" THEN Openings(lg) \cup {n + 1} ELSE Openings(lg)
      /\ Pauses(kg) = IF e.type = "TurnPaused" THEN Pauses(lg) \cup {n + 1} ELSE Pauses(lg)
    BY AppendEvents, GrownBy
<1>2. kg \in Seq(Event) /\ LogOK(kg)
    BY AppendEvents
<1>3. /\ \A u \in Uses(lg) : Behind(lg, u) => Behind(kg, u)
      /\ \A u \in Uses(lg) : Settled(lg, u) => Settled(kg, u)
    BY SettledKept
<1>4. \A u \in Uses(lg), m \in 1..(n + 1) : AnsweredBetween(lg, u, m) => AnsweredBetween(kg, u, m)
    <2> HIDE DEF kg, n
    <2> QED
        BY <1>1 DEF AnsweredBetween
<1>5. c \in Nat /\ (\A u \in Uses(lg) : lg[u].key \in 1..c) /\ (e.type = "ToolUseRecorded" => e.key = c + 1)
    <2>1. c \in Nat
        BY UsedApart DEF LogOK
    <2>2. \A u \in Uses(lg) : lg[u].key \in 1..c
        BY DEF LogOK, UsesOK
    <2>3. e.type = "ToolUseRecorded" => e.key = c + 1
        BY DEF Fits, FreshCall, Uses
    <2> QED
        BY <2>1, <2>2, <2>3
<1>6. \A t : \A m \in 1..(n + 1) : Reopened(lg, t, m) => Reopened(kg, t, m)
    BY ReopenedKept
<1>7. \A u \in Uses(lg) : lg[u].key \in Answered(lg) => AnsweredBetween(lg, u, n + 1)
    BY AnswerFound
<1>8. /\ e.type = "ToolResultRecorded" => e = ToolResult(e.turn, e.key)
      /\ e.type = "ToolUseRecorded" => Reopened(lg, e.turn, n + 1)
      /\ e.type = "ModelCallStarted" => SettledBut(lg, e.turn, {})
      /\ e.type = "TurnPaused" => SettledBut(lg, e.turn, {LookupCallId(lg, e.job)})
    BY DEF Suits
<1>9. \A p \in Pauses(lg) : SettledBut(kg, lg[p].turn, {CallOf(kg, p)})
    <2> SUFFICES ASSUME NEW p \in Pauses(lg)
                 PROVE  SettledBut(kg, lg[p].turn, {CallOf(kg, p)})
        OBVIOUS
    <2>1. CallOf(kg, p) = CallOf(lg, p)
        BY CallsKept DEF LogOK
    <2>2. SettledBut(lg, lg[p].turn, {CallOf(lg, p)})
        BY DEF MatchedLog, PausesSettled
    <2>3. ASSUME e.type = "ToolUseRecorded", e.turn = lg[p].turn
          PROVE  Behind(kg, n + 1)
        <3> HIDE DEF kg, n
        <3>1. p \in Pauses(kg) /\ n + 1 \in Uses(kg) /\ p < n + 1 /\ kg[n + 1].turn = kg[p].turn
            BY <1>1, <2>3
        <3> QED
            BY <1>2, <3>1, BehindPause
    <2> QED
        BY <2>1, <2>2, <2>3, SettledButKept
<1>10. ASSUME e.type = "TurnPaused"
       PROVE  SettledBut(kg, e.turn, {CallOf(kg, n + 1)})
    <2>1. LookupCallId(kg, e.job) = LookupCallId(lg, e.job)
        BY <1>10, AppendLookup
    <2>2. CallOf(kg, n + 1) = LookupCallId(lg, e.job)
        BY <1>1, <2>1 DEF CallOf
    <2>3. SettledBut(lg, e.turn, {LookupCallId(lg, e.job)})
        BY <1>8, <1>10
    <2> QED
        BY <1>10, <2>2, <2>3, SettledButKept
<1> HIDE DEF kg, n, c
<1>11. UsesRise(kg)
    <2> SUFFICES ASSUME NEW i \in Uses(kg), NEW k \in Uses(kg), i < k
                 PROVE  kg[i].key < kg[k].key
        BY DEF UsesRise
    <2>1. i # n + 1 \/ k # n + 1
        BY <1>1
    <2>2. i \in Uses(lg) /\ kg[i] = lg[i]
        BY <1>1, <2>1
    <2>3. CASE k \in Uses(lg)
        BY <1>1, <2>2, <2>3 DEF MatchedLog, UsesRise
    <2>4. CASE k \notin Uses(lg)
        <3>1. kg[k] = e /\ e.key = c + 1
            BY <1>1, <1>5, <2>4
        <3>2. lg[i].key \in 1..c
            BY <1>5, <2>2
        <3> QED
            BY <1>5, <2>2, <3>1, <3>2
    <2> QED
        BY <2>3, <2>4
<1>12. AnswersPlain(kg)
    BY <1>1, <1>8 DEF MatchedLog, AnswersPlain
<1>13. UsesStreamed(kg)
    BY <1>1, <1>6, <1>8 DEF MatchedLog, UsesStreamed
<1>14. Matched(kg)
    <2> SUFFICES ASSUME NEW m \in Openings(kg), NEW u \in Uses(kg), u < m, kg[u].turn = kg[m].turn
                 PROVE  AnsweredBetween(kg, u, m) \/ Behind(kg, u)
        BY DEF Matched
    <2>1. u \in Uses(lg) /\ kg[u] = lg[u]
        BY <1>1
    <2>2. CASE m \in Openings(lg)
        <3>1. AnsweredBetween(lg, u, m) \/ Behind(lg, u)
            BY <1>1, <2>1, <2>2 DEF MatchedLog, Matched
        <3> QED
            BY <1>1, <1>3, <1>4, <2>1, <2>2, <3>1
    <2>3. CASE m \notin Openings(lg)
        <3>1. m = n + 1 /\ SettledBut(lg, kg[u].turn, {})
            BY <1>1, <1>8, <2>3
        <3>2. Settled(lg, u)
            BY <2>1, <3>1 DEF SettledBut
        <3>3. n + 1 \in 1..(n + 1)
            BY <1>1
        <3> QED
            BY <1>3, <1>4, <1>7, <2>1, <3>1, <3>2, <3>3 DEF Settled
    <2> QED
        BY <2>2, <2>3
<1>15. PausesSettled(kg)
    <2> SUFFICES ASSUME NEW p \in Pauses(kg)
                 PROVE  SettledBut(kg, kg[p].turn, {CallOf(kg, p)})
        BY DEF PausesSettled
    <2>1. CASE p \in Pauses(lg)
        BY <1>1, <1>9, <2>1
    <2>2. CASE p \notin Pauses(lg)
        BY <1>1, <1>10, <2>2
    <2> QED
        BY <2>1, <2>2
<1> QED
    BY <1>11, <1>12, <1>13, <1>14, <1>15 DEF MatchedLog, kg

-----------------------------------------------------------------------------
(* Queues of calls in the order they were made.                            *)

Increasing(s) == \A n, m \in DOMAIN s : n < m => s[n].id < s[m].id
Under(s, r) == \A b \in Ids(s), c \in Ids(r) : b < c

LEMMA EmptyQueue == \A s : s = <<>> => Ids(s) = {} /\ Increasing(s)
<1> SUFFICES ASSUME NEW s, s = <<>>
             PROVE  Ids(s) = {} /\ Increasing(s)
    OBVIOUS
<1>1. DOMAIN s = {}
    OBVIOUS
<1> QED
    BY <1>1 DEF Ids, Increasing

LEMMA FirstIsLeast ==
    ASSUME NEW s \in Seq(Call), s # <<>>, Increasing(s)
    PROVE  /\ Ids(s) = {Head(s).id} \cup Ids(Tail(s))
           /\ Increasing(Tail(s))
           /\ \A c \in Ids(Tail(s)) : Head(s).id < c
<1> DEFINE k == Len(s)
           r == Tail(s)
           h == Head(s)
<1>1. /\ k \in Nat \ {0} /\ DOMAIN s = 1..k /\ DOMAIN r = 1..(k - 1) /\ h = s[1]
      /\ \A n \in 1..(k - 1) : r[n] = s[n + 1]
    OBVIOUS
<1>2. \A n, m \in 1..k : n < m => s[n].id < s[m].id
    BY <1>1 DEF Increasing
<1> HIDE DEF k, r, h
<1>3. 1 \in 1..k /\ \A n \in 1..(k - 1) : n + 1 \in 1..k /\ 1 < n + 1
    BY <1>1
<1>4. Ids(r) = {s[n + 1].id : n \in 1..(k - 1)}
    BY <1>1 DEF Ids
<1>5. ASSUME NEW n \in 1..k
      PROVE  n = 1 \/ \E m \in 1..(k - 1) : n = m + 1
    <2>1. n # 1 => n - 1 \in 1..(k - 1) /\ n = (n - 1) + 1
        BY <1>1
    <2> QED
        BY <2>1
<1>6. Ids(s) = {h.id} \cup Ids(r)
    <2>1. Ids(s) = {s[n].id : n \in 1..k}
        BY <1>1 DEF Ids
    <2>2. \A n \in 1..k : s[n].id = h.id \/ s[n].id \in Ids(r)
        BY <1>1, <1>4, <1>5
    <2>3. h.id \in Ids(s) /\ Ids(r) \subseteq Ids(s)
        BY <1>1, <1>3, <1>4, <2>1
    <2> QED
        BY <2>1, <2>2, <2>3
<1>7. Increasing(r)
    <2> SUFFICES ASSUME NEW n \in 1..(k - 1), NEW m \in 1..(k - 1), n < m
                 PROVE  s[n + 1].id < s[m + 1].id
        BY <1>1 DEF Increasing
    <2>1. n + 1 < m + 1
        BY <1>1
    <2> QED
        BY <1>2, <1>3, <2>1
<1>8. \A c \in Ids(r) : h.id < c
    BY <1>1, <1>2, <1>3, <1>4
<1> QED
    BY <1>6, <1>7, <1>8 DEF r, h

LEMMA LastIsGreatest ==
    ASSUME NEW s \in Seq(Call), NEW c \in Call, Increasing(s), \A b \in Ids(s) : b < c.id
    PROVE  Increasing(Append(s, c))
<1> DEFINE k == Len(s)
           r == Append(s, c)
<1>1. /\ k \in Nat /\ DOMAIN s = 1..k /\ DOMAIN r = 1..(k + 1)
      /\ (\A n \in 1..k : r[n] = s[n] /\ s[n].id \in Ids(s)) /\ r[k + 1] = c
    BY DEF Ids
<1> HIDE DEF k, r
<1> SUFFICES ASSUME NEW n \in 1..(k + 1), NEW m \in 1..(k + 1), n < m
             PROVE  r[n].id < r[m].id
    BY <1>1 DEF Increasing, r
<1>2. n \in 1..k
    BY <1>1
<1>3. CASE m = k + 1
    BY <1>1, <1>2, <1>3
<1>4. CASE m # k + 1
    <2>1. m \in 1..k
        BY <1>1, <1>4
    <2> QED
        BY <1>1, <1>2, <2>1 DEF Increasing
<1> QED
    BY <1>3, <1>4

-----------------------------------------------------------------------------
(* The invariant: what a task and an outcome leave open.                   *)

Over        == {"Failing", "Failed", "Completed"}
Between     == {"Init", "ContextManaged", "PromptBuilt", "Opening"}
Dispatching == {"ToolDispatching", "Invoked", "Submitting", "Submitted", "Registering", "Registered"}

\* A task has its calls in the order they were made, those to dispatch before those
\* to resolve; it has resolved them when it dispatches, and dispatched them when it
\* goes back to the model.
Orderly(d) ==
    /\ Increasing(d.todo) /\ Increasing(d.pend) /\ Under(d.pend, d.todo)
    /\ d.pc \in Between \cup Dispatching => Ids(d.todo) = {}
    /\ d.pc \in Between => Ids(d.pend) = {}

\* The task d of turn t leaves open the calls it has, unless the turn is over, and
\* streams the response to its last model call.
TaskMatched(lg, t, d) ==
    /\ d.pc \notin Over => SettledBut(lg, t, Owned(lg, d))
    /\ Orderly(d)
    /\ d.pc \in Streaming => Reopened(lg, t, Len(lg) + 1)

OutcomeMatched(lg, r) == r.outcome = "Paused" => SettledBut(lg, r.turn, {LookupCallId(lg, r.job)})

MatchHeld(lg, ds, rs) ==
    /\ MatchedLog(lg)
    /\ \A t \in DOMAIN ds : TaskMatched(lg, t, ds[t])
    /\ \A n \in DOMAIN rs : OutcomeMatched(lg, rs[n])

MatchInv == MatchHeld(log, drivers, results)

-----------------------------------------------------------------------------
(* The steps of a task.                                                    *)

\* Turn t's task is as it should be after the step, and what the step writes suits.
GoesWell(t) ==
    /\ TaskMatched(log', t, drivers'[t])
    /\ \A e \in Event : log' = Append(log, e) => Suits(log, e)

LEMMA MovesWell ==
    ASSUME log \in Seq(Event), NEW t, log' = log, TaskMatched(log, t, drivers'[t])
    PROVE  GoesWell(t)
<1>1. \A e \in Event : log # Append(log, e)
    <2> SUFFICES ASSUME NEW e \in Event
                 PROVE  Len(log) # Len(Append(log, e))
        OBVIOUS
    <2>1. Len(log) \in Nat /\ Len(Append(log, e)) = Len(log) + 1
        OBVIOUS
    <2> QED
        BY <2>1
<1> QED
    BY <1>1 DEF GoesWell

LEMMA NotesWell ==
    ASSUME log \in Seq(Event), NEW t, NEW e \in Event, log' = Append(log, e), Suits(log, e),
           TaskMatched(Append(log, e), t, drivers'[t])
    PROVE  GoesWell(t)
<1>1. ASSUME NEW x \in Event, log' = Append(log, x)
      PROVE  x = e
    <2>1. Append(log, x)[Len(log) + 1] = x /\ Append(log, e)[Len(log) + 1] = e
        OBVIOUS
    <2> QED
        BY <1>1, <2>1
<1> QED
    BY <1>1 DEF GoesWell

\* A task moves on with the calls it has, whether or not it writes.
LEMMA OnwardMatched ==
    ASSUME NEW lg \in Seq(Event), NEW t, NEW c, NEW d, TaskMatched(lg, t, c), c.pc # "Paused",
           c.pc \in Over => d.pc \in Over, d.pc \notin Streaming \cup {"Paused"},
           d.todo = c.todo, d.pend = c.pend,
           d.pc \in Between \cup Dispatching => Ids(c.todo) = {},
           d.pc \in Between => Ids(c.pend) = {}
    PROVE  /\ TaskMatched(lg, t, d)
           /\ \A e \in Event : e.type # "ToolUseRecorded" => TaskMatched(Append(lg, e), t, d)
<1>1. Orderly(d)
    BY DEF TaskMatched, Orderly
<1>2. \A kg : Owned(kg, d) = Owned(lg, c)
    BY DEF Owned
<1>3. d.pc \notin Over => SettledBut(lg, t, Owned(lg, d))
    BY <1>2 DEF TaskMatched
<1>4. ASSUME NEW e \in Event, e.type # "ToolUseRecorded"
      PROVE  TaskMatched(Append(lg, e), t, d)
    <2>1. d.pc \notin Over => SettledBut(Append(lg, e), t, Owned(lg, d))
        BY <1>3, <1>4, SettledButKept
    <2>2. Owned(Append(lg, e), d) = Owned(lg, d)
        BY <1>2
    <2> QED
        BY <1>1, <2>1, <2>2 DEF TaskMatched
<1> QED
    BY <1>1, <1>3, <1>4 DEF TaskMatched

LEMMA OnwardWell ==
    ASSUME SessionInv, MatchInv, NEW t \in DOMAIN drivers, NEW c, c = drivers[t], NEW d, d = drivers'[t],
           c.pc # "Paused", c.pc \in Over => d.pc \in Over, d.pc \notin Streaming \cup {"Paused"},
           d.todo = c.todo, d.pend = c.pend,
           d.pc \in Between \cup Dispatching => Ids(c.todo) = {},
           d.pc \in Between => Ids(c.pend) = {},
           \/ log' = log
           \/ \E e \in Event : /\ log' = Append(log, e)
                               /\ e.type \in {"TurnCompleted", "TurnFailed", "ModelCallCompleted", "JobSubmitted"}
    PROVE  GoesWell(t)
<1>1. log \in Seq(Event) /\ TaskMatched(log, t, c)
    BY DEF SessionInv, Held, Shaped, MatchInv, MatchHeld
<1>2. /\ TaskMatched(log, t, d)
      /\ \A e \in Event : e.type # "ToolUseRecorded" => TaskMatched(Append(log, e), t, d)
    BY <1>1, OnwardMatched
<1>3. CASE log' = log
    BY <1>1, <1>2, <1>3, MovesWell
<1>4. CASE \E e \in Event : /\ log' = Append(log, e)
                            /\ e.type \in {"TurnCompleted", "TurnFailed", "ModelCallCompleted", "JobSubmitted"}
    <2>1. PICK e \in Event : /\ log' = Append(log, e)
                             /\ e.type \in {"TurnCompleted", "TurnFailed", "ModelCallCompleted", "JobSubmitted"}
        BY <1>4
    <2>2. Suits(log, e)
        BY <2>1 DEF Suits
    <2>3. TaskMatched(Append(log, e), t, d)
        BY <1>2, <2>1
    <2> QED
        BY <1>1, <2>1, <2>2, <2>3, NotesWell
<1> QED
    BY <1>3, <1>4

\* The steps that leave the task's calls alone: those that write nothing ...
LEMMA QuietWell ==
    ASSUME SessionInv, MatchInv, NEW t \in DOMAIN drivers,
           \/ InitTransit(t) \/ ContextManagedTransit(t) \/ DemuxEnd(t) \/ CountErrors(t) \/ DispatchDone(t)
           \/ Invoke(t) \/ SubmitReturns(t) \/ RegisterSink(t, incarnation)
    PROVE  GoesWell(t)
<1> DEFINE c == drivers[t]
           d == drivers'[t]
<1>1. c \in Driver /\ Orderly(c)
    BY DEF SessionInv, Held, TasksWellFormed, WellFormed, MatchInv, MatchHeld, TaskMatched
<1>2. \A s : s = <<>> => Ids(s) = {}
    BY EmptyQueue
<1>3. log' = log
    BY DEF InitTransit, ContextManagedTransit, DemuxEnd, CountErrors, DispatchDone, Invoke, SubmitReturns,
       RegisterSink
<1>4. CASE InitTransit(t) \/ ContextManagedTransit(t)
    <2>1. /\ c.pc \in {"Init", "ContextManaged"} /\ d.pc \in {"Failing", "ContextManaged", "PromptBuilt"}
          /\ d.todo = c.todo /\ d.pend = c.pend
        BY <1>1, <1>4 DEF InitTransit, ContextManagedTransit, At, Goto, Driver
    <2>2. Ids(c.todo) = {} /\ Ids(c.pend) = {}
        BY <1>1, <2>1 DEF Orderly, Between
    <2> HIDE DEF c, d
    <2> QED
        BY <1>3, <2>1, <2>2, OnwardWell DEF c, d, Over, Streaming
<1>5. CASE DispatchDone(t)
    <2>1. c.pc = "ToolDispatching" /\ d.pc = "Init" /\ d.todo = c.todo /\ d.pend = c.pend /\ c.pend = <<>>
        BY <1>1, <1>5 DEF DispatchDone, At, Goto, Driver
    <2>2. Ids(c.todo) = {} /\ Ids(c.pend) = {}
        BY <1>1, <1>2, <2>1 DEF Orderly, Dispatching
    <2> HIDE DEF c, d
    <2> QED
        BY <1>3, <2>1, <2>2, OnwardWell DEF c, d, Over, Streaming
<1>6. CASE DemuxEnd(t)
    <2>1. /\ c.pc \in {"Sealed", "ModelCalling"} /\ d.pc \in {"ModelCompleted", "Failing"}
          /\ d.todo = c.todo /\ d.pend = c.pend
        BY <1>1, <1>6 DEF DemuxEnd, At, Goto, Driver
    <2> HIDE DEF c, d
    <2> QED
        BY <1>3, <2>1, OnwardWell DEF c, d, Over, Streaming, Between, Dispatching
<1>7. CASE CountErrors(t)
    <2> DEFINE streak == IF c.pend = <<>> THEN c.streak + 1 ELSE 0
               pc == IF streak >= MAX_CONSECUTIVE_TOOL_ERRORS THEN "Failing" ELSE "ToolDispatching"
    <2>1. drivers' = [drivers EXCEPT ![t].streak = streak, ![t].pc = pc]
        BY <1>7, Zenon DEF CountErrors
    <2>2. pc \in {"Failing", "ToolDispatching"} /\ c.todo = <<>> /\ c.pc = "ModelCompleted"
        BY <1>7 DEF CountErrors, At
    <2> HIDE DEF streak, pc
    <2>3. d.pc = pc /\ d.todo = c.todo /\ d.pend = c.pend
        BY <1>1, <2>1 DEF Driver
    <2>4. Ids(c.todo) = {}
        BY <1>2, <2>2
    <2> HIDE DEF c, d
    <2> QED
        BY <1>3, <2>2, <2>3, <2>4, OnwardWell DEF c, d, Over, Streaming, Between
<1>8. CASE Invoke(t) \/ SubmitReturns(t) \/ RegisterSink(t, incarnation)
    <2>1. /\ c.pc \in Dispatching /\ d.pc \in Dispatching /\ d.todo = c.todo /\ d.pend = c.pend
        <3>1. CASE Invoke(t)
            <4>1. c.pc = "ToolDispatching"
                BY <3>1 DEF Invoke, At
            <4>2. \/ drivers' = [drivers EXCEPT ![t].pc = "Invoked"]
                  \/ \E pc \in {"Submitting", "Submitted"}, j \in JobIds \cup StrayJobs :
                        drivers' = [drivers EXCEPT ![t].pc = pc, ![t].job = j]
                BY <3>1 DEF Invoke, Goto
            <4>3. \E pc \in {"Invoked", "Submitting", "Submitted"} : d.pc = pc /\ d.todo = c.todo /\ d.pend = c.pend
                BY <1>1, <4>2 DEF Driver
            <4> QED
                BY <4>1, <4>3 DEF Dispatching
        <3>2. CASE SubmitReturns(t)
            BY <1>1, <3>2 DEF SubmitReturns, At, Goto, Driver, Dispatching
        <3>3. CASE RegisterSink(t, incarnation)
            BY <1>1, <3>3 DEF RegisterSink, At, Goto, Driver, Dispatching
        <3> QED
            BY <1>8, <3>1, <3>2, <3>3
    <2>2. Ids(c.todo) = {}
        BY <1>1, <2>1 DEF Orderly
    <2> HIDE DEF c, d
    <2> QED
        BY <1>3, <2>1, <2>2, OnwardWell DEF c, d, Over, Streaming, Between, Dispatching
<1> QED
    BY <1>4, <1>5, <1>6, <1>7, <1>8

\* ... and those that do.
LEMMA PlainWell ==
    ASSUME SessionInv, MatchInv, NEW t \in DOMAIN drivers,
           RecordTurnFailed(t) \/ RecordTurnCompleted(t) \/ DemuxMessageCompleted(t) \/ RecordJobSubmitted(t)
    PROVE  GoesWell(t)
<1> DEFINE c == drivers[t]
           d == drivers'[t]
<1>1. c \in Driver /\ t \in Nat /\ Orderly(c) /\ WellFormed(c)
    BY DEF SessionInv, Held, Shaped, TasksWellFormed, WellFormed, MatchInv, MatchHeld, TaskMatched
<1>2. /\ TurnCompleted(t) \in Event /\ TurnFailed(t) \in Event
      /\ TurnCompleted(t).type = "TurnCompleted" /\ TurnFailed(t).type = "TurnFailed"
    BY <1>1, EventTypesOK DEF TurnCompleted, TurnFailed, Ev
<1>3. CASE RecordTurnFailed(t) \/ RecordTurnCompleted(t)
    <2>1. /\ c.pc \in {"Failing", "ModelCompleted"} /\ d.pc \in {"Failed", "Completed"}
          /\ d.todo = c.todo /\ d.pend = c.pend
          /\ log' = Append(log, TurnCompleted(t)) \/ log' = Append(log, TurnFailed(t))
        BY <1>1, <1>3 DEF RecordTurnFailed, RecordTurnCompleted, Record, At, Goto, Driver
    <2> HIDE DEF c, d
    <2> QED
        BY <1>2, <2>1, OnwardWell DEF c, d, Over, Streaming, Between, Dispatching
<1>4. CASE DemuxMessageCompleted(t)
    <2>1. /\ c.pc = "ModelCalling" /\ d.pc = "Sealed" /\ d.todo = c.todo /\ d.pend = c.pend
          /\ \E stop \in StopReasons : log' = Append(log, ModelCallCompleted(t, stop))
        BY <1>1, <1>4 DEF DemuxMessageCompleted, At, Goto, Driver
    <2>2. PICK stop \in StopReasons : log' = Append(log, ModelCallCompleted(t, stop))
        BY <2>1
    <2>3. ModelCallCompleted(t, stop) \in Event /\ ModelCallCompleted(t, stop).type = "ModelCallCompleted"
        BY <1>1, EventTypesOK DEF ModelCallCompleted, Ev
    <2> HIDE DEF c, d
    <2> QED
        BY <2>1, <2>2, <2>3, OnwardWell DEF c, d, Over, Streaming, Between, Dispatching
<1>5. CASE RecordJobSubmitted(t)
    <2> DEFINE e == JobSubmitted(t, Head(c.pend).id, c.job)
    <2>1. /\ c.pc = "Submitted" /\ d.pc = "Registering" /\ d.todo = c.todo /\ d.pend = c.pend
          /\ log' = Append(log, e)
        BY <1>1, <1>5 DEF RecordJobSubmitted, Record, At, Goto, Driver
    <2>2. Head(c.pend).id \in Nat /\ c.job \in Nat
        <3>1. c.pend \in Seq(Call) /\ c.pend # <<>> /\ c.job \in Nat
            BY <1>1, <2>1 DEF WellFormed, Driver, Busy
        <3>2. Head(c.pend) \in Call
            BY <3>1, FirstCall
        <3> QED
            BY <3>1, <3>2 DEF Call
    <2>3. e \in Event /\ e.type = "JobSubmitted"
        BY <1>1, <2>2, EventTypesOK DEF JobSubmitted, Ev
    <2>4. Ids(c.todo) = {}
        BY <1>1, <2>1 DEF Orderly, Dispatching
    <2> HIDE DEF c, d, e
    <2> QED
        BY <2>1, <2>3, <2>4, OnwardWell DEF c, d, Over, Streaming, Between, Dispatching
<1> QED
    BY <1>3, <1>4, <1>5

\* The model is called when every call of the turn is settled, and its response streamed.
LEMMA OpeningWell ==
    ASSUME SessionInv, MatchInv, NEW t \in DOMAIN drivers, RecordModelCallStarted(t)
    PROVE  GoesWell(t)
<1> DEFINE c == drivers[t]
           d == drivers'[t]
           e == ModelCallStarted(t)
           kg == Append(log, e)
<1>1. c \in Driver /\ t \in Nat /\ TaskMatched(log, t, c) /\ log \in Seq(Event)
    BY DEF SessionInv, Held, Shaped, TasksWellFormed, WellFormed, MatchInv, MatchHeld
<1>2. /\ c.pc = "PromptBuilt" /\ d.pc = "Opening" /\ d.todo = c.todo /\ d.pend = c.pend
      /\ log' = Append(log, e)
    BY <1>1 DEF RecordModelCallStarted, Record, At, Driver
<1>3. e \in Event /\ e.turn = t /\ e.type = "ModelCallStarted"
    BY <1>1, EventTypesOK DEF ModelCallStarted, Ev
<1> HIDE DEF c, d, e
<1>4. Ids(c.todo) = {} /\ Ids(c.pend) = {} /\ Orderly(d)
    BY <1>1, <1>2 DEF TaskMatched, Orderly, Between, Dispatching
<1>5. SettledBut(log, t, {})
    BY <1>1, <1>2, <1>4 DEF TaskMatched, Owned, Over
<1>6. Suits(log, e)
    BY <1>3, <1>5 DEF Suits
<1>7. SettledBut(kg, t, Owned(kg, d))
    BY <1>1, <1>3, <1>5, SettledButKept
<1>8. Reopened(kg, t, Len(kg) + 1)
    BY <1>1, <1>3, ReopenedKept
<1>9. TaskMatched(kg, t, d)
    BY <1>4, <1>7, <1>8 DEF TaskMatched
<1> QED
    BY <1>1, <1>2, <1>3, <1>6, <1>9, NotesWell DEF d

LEMMA OpenWell ==
    ASSUME SessionInv, MatchInv, NEW t \in DOMAIN drivers, OpenStream(t)
    PROVE  GoesWell(t)
<1> DEFINE c == drivers[t]
           d == drivers'[t]
<1>1. c \in Driver /\ TaskMatched(log, t, c) /\ log \in Seq(Event)
    BY DEF SessionInv, Held, Shaped, TasksWellFormed, WellFormed, MatchInv, MatchHeld
<1>2. c.pc = "Opening" /\ log' = log
    BY DEF OpenStream, At
<1>3. CASE drivers' = [drivers EXCEPT ![t].pc = "Failing"]
    <2>1. d.pc = "Failing" /\ d.todo = c.todo /\ d.pend = c.pend
        BY <1>1, <1>3 DEF Driver
    <2> HIDE DEF c, d
    <2> QED
        BY <1>2, <2>1, OnwardWell DEF c, d, Over, Streaming, Between, Dispatching
<1>4. CASE drivers' = [drivers EXCEPT ![t].pc = "ModelCalling", ![t].todo = <<>>]
    <2> DEFINE none == <<>>
    <2>1. Ids(none) = {} /\ Increasing(none)
        BY EmptyQueue
    <2> HIDE DEF none
    <2>2. drivers' = [drivers EXCEPT ![t].pc = "ModelCalling", ![t].todo = none]
        BY <1>4 DEF none
    <2>3. d.pc = "ModelCalling" /\ d.todo = none /\ d.pend = c.pend
        BY <1>1, <2>2 DEF Driver
    <2> HIDE DEF c, d
    <2>4. /\ Increasing(c.pend) /\ Ids(c.todo) = {} /\ Ids(c.pend) = {}
          /\ SettledBut(log, t, Owned(log, c)) /\ Reopened(log, t, Len(log) + 1)
        BY <1>1, <1>2 DEF TaskMatched, Orderly, Between, Dispatching, Over, Streaming
    <2>5. Owned(log, d) = Owned(log, c)
        BY <1>2, <2>1, <2>3, <2>4 DEF Owned
    <2>6. Orderly(d)
        BY <2>1, <2>3, <2>4 DEF Orderly, Under, Between, Dispatching
    <2>7. TaskMatched(log, t, d)
        BY <2>4, <2>5, <2>6 DEF TaskMatched
    <2> QED
        BY <1>1, <1>2, <2>7, MovesWell DEF d
<1> QED
    BY <1>3, <1>4 DEF OpenStream, Goto

\* A call the model makes comes after those the task has.
LEMMA ToolUseWell ==
    ASSUME SessionInv, CallsInv, MatchInv, NEW t \in DOMAIN drivers, DemuxToolUse(t)
    PROVE  GoesWell(t)
<1> DEFINE c == drivers[t]
           d == drivers'[t]
           n == FreshCall(log)
<1>1. /\ c \in Driver /\ t \in Nat /\ TaskMatched(log, t, c) /\ log \in Seq(Event) /\ LogOK(log)
      /\ TaskOK(log, DOMAIN jobs, t, c)
    BY DEF SessionInv, Held, Shaped, TasksWellFormed, WellFormed, MatchInv, MatchHeld, CallsInv, CallsHeld
<1>2. PICK check \in Checks :
          /\ c.pc = "ModelCalling"
          /\ log' = Append(log, ToolUse(t, n, check))
          /\ drivers' = [drivers EXCEPT ![t].todo = Append(@, [id |-> n, ok |-> check = "valid"])]
    BY DEF DemuxToolUse, At
<1> DEFINE x == [id |-> n, ok |-> check = "valid"]
           e == ToolUse(t, n, check)
           kg == Append(log, e)
<1>3. n \in Nat /\ \A k \in Owned(log, c) : k < n
    <2>1. /\ Cardinality(Uses(log)) \in Nat /\ \A u : Free(log, u) \subseteq 1..Cardinality(Uses(log))
        BY <1>1, UsedApart DEF LogOK
    <2>2. Owned(log, c) \subseteq 1..Cardinality(Uses(log)) /\ n = Cardinality(Uses(log)) + 1
        BY <1>1, <2>1 DEF TaskOK, FreshCall, Uses
    <2> QED
        BY <2>1, <2>2
<1>4. x \in Call /\ x.id = n
    BY <1>3 DEF Call
<1>5. e \in Event /\ e.turn = t /\ e.type = "ToolUseRecorded" /\ e.key = n
    <2>1. e \in Event
        BY <1>1, <1>3, ChecksAssumption, EventTypesOK
    <2> QED
        BY <2>1 DEF ToolUse, Ev
<1>6. d.pc = "ModelCalling" /\ d.todo = Append(c.todo, x) /\ d.pend = c.pend
    BY <1>1, <1>2 DEF Driver
<1>7. log' = Append(log, e) /\ c.todo \in Seq(Call)
    BY <1>1, <1>2 DEF Driver
<1> HIDE DEF x, e, n
<1>8. /\ Increasing(c.todo) /\ Increasing(c.pend) /\ Under(c.pend, c.todo)
      /\ SettledBut(log, t, Owned(log, c)) /\ Reopened(log, t, Len(log) + 1)
    BY <1>1, <1>2 DEF TaskMatched, Orderly, Over, Streaming
<1>9. Owned(log, c) = Ids(c.todo) \cup Ids(c.pend)
    BY <1>2 DEF Owned
<1> HIDE DEF c, d
<1>10. Ids(d.todo) = Ids(c.todo) \cup {n} /\ Increasing(d.todo)
    BY <1>3, <1>4, <1>6, <1>7, <1>8, <1>9, OneMoreCall, LastIsGreatest
<1>11. Orderly(d)
    BY <1>3, <1>6, <1>8, <1>9, <1>10 DEF Orderly, Under, Between, Dispatching
<1>12. Suits(log, e)
    BY <1>5, <1>8 DEF Suits
<1>13. Owned(kg, d) = Owned(log, c) \cup {n}
    BY <1>6, <1>9, <1>10 DEF Owned
<1>14. SettledBut(kg, t, Owned(kg, d))
    BY <1>1, <1>5, <1>8, <1>13, SettledButKept
<1>15. Reopened(kg, t, Len(kg) + 1)
    BY <1>1, <1>5, <1>8, ReopenedKept
<1>16. TaskMatched(kg, t, d)
    BY <1>11, <1>14, <1>15 DEF TaskMatched
<1> QED
    BY <1>1, <1>5, <1>7, <1>12, <1>16, NotesWell DEF d

\* A call that is answered leaves the task's queue.
LEMMA AnswerWell ==
    ASSUME SessionInv, MatchInv, NEW t \in DOMAIN drivers, NEW c, c = drivers[t], NEW d, d = drivers'[t],
           NEW n \in Nat, log' = Append(log, ToolResult(t, n)), c.pc \notin Over \cup {"Paused"},
           d.pc \notin Streaming \cup {"Paused"}, Orderly(d),
           Ids(c.todo) \cup Ids(c.pend) \subseteq Ids(d.todo) \cup Ids(d.pend) \cup {n}
    PROVE  GoesWell(t)
<1> DEFINE e == ToolResult(t, n)
<1>1. TaskMatched(log, t, c) /\ log \in Seq(Event) /\ t \in Nat
    BY DEF SessionInv, Held, Shaped, MatchInv, MatchHeld
<1>2. e \in Event /\ e.type = "ToolResultRecorded" /\ e.turn = t /\ e.key = n
    BY <1>1, EventTypesOK DEF ToolResult, Ev
<1>3. e = ToolResult(t, n)
    OBVIOUS
<1> HIDE DEF e
<1>4. Suits(log, e)
    BY <1>2, <1>3 DEF Suits
<1>5. SettledBut(log, t, Owned(log, c)) /\ Owned(log, c) \subseteq Ids(d.todo) \cup Ids(d.pend) \cup {n}
    BY <1>1 DEF TaskMatched, Owned
<1>6. SettledBut(Append(log, e), t, Ids(d.todo) \cup Ids(d.pend))
    BY <1>1, <1>2, <1>5, SettledButKept
<1>7. TaskMatched(Append(log, e), t, d)
    BY <1>6 DEF TaskMatched, Owned
<1> QED
    BY <1>1, <1>2, <1>3, <1>4, <1>7, NotesWell

LEMMA ResolveWell ==
    ASSUME SessionInv, MatchInv, NEW t \in DOMAIN drivers, Resolve(t) \/ RecordToolResult(t)
    PROVE  GoesWell(t)
<1> DEFINE c == drivers[t]
           d == drivers'[t]
           s == c.todo
           q == c.pend
<1>1. /\ c \in Driver /\ WellFormed(c) /\ TaskMatched(log, t, c) /\ log \in Seq(Event)
      /\ s \in Seq(Call) /\ q \in Seq(Call)
    BY DEF SessionInv, Held, Shaped, TasksWellFormed, WellFormed, MatchInv, MatchHeld, Driver
<1>2. Increasing(s) /\ Increasing(q) /\ Under(q, s)
    BY <1>1 DEF TaskMatched, Orderly
<1>3. CASE Resolve(t)
    <2> DEFINE x == Head(s)
    <2>1. s # <<>> /\ c.pc = "ModelCompleted"
        BY <1>3 DEF Resolve, At
    <2>2. x \in Call /\ Ids(s) = {x.id} \cup Ids(Tail(s)) /\ Increasing(Tail(s)) /\ \A k \in Ids(Tail(s)) : x.id < k
        BY <1>1, <1>2, <2>1, FirstCall, FirstIsLeast
    <2>3. \A k \in Ids(q) : k < x.id
        BY <1>2, <2>2 DEF Under
    <2>4. CASE x.ok
        <3>1. drivers' = [drivers EXCEPT ![t].todo = Tail(@), ![t].pend = Append(@, x)] /\ log' = log
            BY <1>3, <2>4 DEF Resolve
        <3>2. d.pc = "ModelCompleted" /\ d.todo = Tail(s) /\ d.pend = Append(q, x)
            BY <1>1, <2>1, <3>1 DEF Driver
        <3> HIDE DEF x
        <3>3. Ids(Append(q, x)) = Ids(q) \cup {x.id} /\ Increasing(Append(q, x))
            BY <1>1, <1>2, <2>2, <2>3, OneMoreCall, LastIsGreatest
        <3> HIDE DEF s, q, c, d
        <3>4. Orderly(d)
            BY <1>2, <2>2, <3>2, <3>3 DEF Orderly, Under, Between, Dispatching
        <3>5. Owned(log, d) = Owned(log, c)
            BY <2>1, <2>2, <3>2, <3>3 DEF Owned, s, q
        <3>6. SettledBut(log, t, Owned(log, d))
            BY <1>1, <2>1, <3>5 DEF TaskMatched, Over
        <3>7. TaskMatched(log, t, d)
            BY <3>2, <3>4, <3>6 DEF TaskMatched, Streaming
        <3> QED
            BY <1>1, <3>1, <3>7, MovesWell DEF d
    <2>5. CASE ~x.ok
        <3>1. drivers' = [drivers EXCEPT ![t].todo = Tail(@), ![t].bad = TRUE] /\ log' = Append(log, ToolResult(t, x.id))
            BY <1>3, <2>5 DEF Resolve, Record
        <3>2. d.pc = "ModelCompleted" /\ d.todo = Tail(s) /\ d.pend = q
            BY <1>1, <2>1, <3>1 DEF Driver
        <3>3. x.id \in Nat
            BY <2>2 DEF Call
        <3> HIDE DEF s, q, c, d, x
        <3>4. Orderly(d)
            BY <1>2, <2>2, <3>2 DEF Orderly, Under, Between, Dispatching
        <3>5. Ids(c.todo) \cup Ids(c.pend) \subseteq Ids(d.todo) \cup Ids(d.pend) \cup {x.id}
            BY <2>2, <3>2 DEF s, q
        <3> QED
            BY <2>1, <3>1, <3>2, <3>3, <3>4, <3>5, AnswerWell DEF c, d, Over, Streaming
    <2> QED
        BY <2>4, <2>5
<1>4. CASE RecordToolResult(t)
    <2> DEFINE x == Head(q)
    <2>1. /\ c.pc = "Invoked" /\ log' = Append(log, ToolResult(t, x.id))
          /\ d.pc = "ToolDispatching" /\ d.todo = s /\ d.pend = Tail(q)
        BY <1>1, <1>4 DEF RecordToolResult, Record, At, Driver
    <2>2. q # <<>>
        BY <1>1, <2>1 DEF WellFormed, Busy
    <2>3. x \in Call /\ Ids(q) = {x.id} \cup Ids(Tail(q)) /\ Increasing(Tail(q))
        BY <1>1, <1>2, <2>2, FirstCall, FirstIsLeast
    <2>4. x.id \in Nat
        BY <2>3 DEF Call
    <2>5. Ids(s) = {}
        BY <1>1, <2>1 DEF TaskMatched, Orderly, Dispatching
    <2> HIDE DEF s, q, c, d, x
    <2>6. Orderly(d)
        BY <1>2, <2>1, <2>3, <2>5 DEF Orderly, Under, Between
    <2>7. Ids(c.todo) \cup Ids(c.pend) \subseteq Ids(d.todo) \cup Ids(d.pend) \cup {x.id}
        BY <2>1, <2>3 DEF s, q
    <2> QED
        BY <2>1, <2>4, <2>6, <2>7, AnswerWell DEF c, d, Over, Streaming
<1> QED
    BY <1>3, <1>4

\* The calls a turn drops when it pauses are behind the job it pauses on.
LEMMA PauseWell ==
    ASSUME SessionInv, CallsInv, MatchInv, NEW t \in DOMAIN drivers, PauseTurn(t)
    PROVE  GoesWell(t)
<1> DEFINE c == drivers[t]
           d == drivers'[t]
           q == c.pend
           h == Head(q).id
           none == <<>>
<1>1. /\ c \in Driver /\ WellFormed(c) /\ TaskMatched(log, t, c) /\ log \in Seq(Event) /\ LogOK(log)
      /\ TaskOK(log, DOMAIN jobs, t, c) /\ q \in Seq(Call) /\ UsesRise(log)
    BY DEF SessionInv, Held, Shaped, TasksWellFormed, WellFormed, MatchInv, MatchHeld, MatchedLog, CallsInv,
       CallsHeld, Driver
<1>2. Ids(none) = {} /\ Increasing(none)
    BY EmptyQueue
<1> HIDE DEF none
<1>3. drivers' = [drivers EXCEPT ![t].pc = "Paused", ![t].pend = none] /\ log' = log /\ c.pc = "Registered"
    BY DEF PauseTurn, At, none
<1>4. d.pc = "Paused" /\ d.todo = c.todo /\ d.pend = none /\ d.job = c.job
    BY <1>1, <1>3 DEF Driver
<1>5. q # <<>> /\ c.job \in JobIds
    BY <1>1, <1>3 DEF WellFormed, Busy
<1>6. Increasing(c.todo) /\ Increasing(q) /\ Ids(c.todo) = {} /\ SettledBut(log, t, Owned(log, c))
    BY <1>1, <1>3 DEF TaskMatched, Orderly, Dispatching, Over
<1>7. Ids(q) = {h} \cup Ids(Tail(q)) /\ \A k \in Ids(Tail(q)) : h < k
    BY <1>1, <1>5, <1>6, FirstIsLeast
<1>8. LookupCallId(log, c.job) = h
    BY <1>1, <1>3, <1>5 DEF TaskOK, Noted
<1>9. Owned(log, c) = Ids(c.todo) \cup Ids(q)
    BY <1>3 DEF Owned
<1> HIDE DEF c, d, q, h
<1>10. Owned(log, d) = {h} /\ Owned(log, c) = {h} \cup Ids(Tail(q))
    BY <1>4, <1>6, <1>7, <1>8, <1>9 DEF Owned
<1>11. h \in UsedBy(log, t) /\ h # None
    BY <1>1, <1>10, UsedApart DEF TaskOK, LogOK
<1>12. PICK i \in Submissions(log) : log[i].key = h
    BY <1>1, <1>8, <1>11, LookupCallType DEF Submissions, Positions
<1>13. PICK k \in Uses(log) : log[k].key = h /\ log[k].turn = t
    BY <1>11 DEF UsedBy
<1>14. ASSUME NEW u \in Uses(log), log[u].turn = t, log[u].key \in Ids(Tail(q))
       PROVE  Behind(log, u)
    <2>1. h < log[u].key
        BY <1>7, <1>14
    <2>2. /\ u \in 1..Len(log) /\ k \in 1..Len(log) /\ log[u].key \in Nat /\ log[k].key \in Nat
          /\ Len(log) \in Nat
        <3>1. log \in Seq(Event)
            BY <1>1
        <3>2. u \in DOMAIN log /\ k \in DOMAIN log
            BY DEF Uses, Positions
        <3>3. log[u] \in Event /\ log[k] \in Event
            BY <3>1, <3>2
        <3> QED
            BY <3>1, <3>2, <3>3 DEF Event
    <2>3. ~(u < k) /\ u # k
        BY <1>1, <1>13, <2>1, <2>2 DEF UsesRise
    <2>4. k < u
        BY <2>2, <2>3
    <2> QED
        BY <1>12, <1>13, <1>14, <2>4 DEF Behind
<1>15. SettledBut(log, t, Owned(log, d))
    BY <1>6, <1>10, <1>14 DEF SettledBut, Settled
<1>16. Orderly(d)
    BY <1>2, <1>4, <1>6 DEF Orderly, Under, Between, Dispatching
<1>17. TaskMatched(log, t, d)
    BY <1>4, <1>15, <1>16 DEF TaskMatched, Streaming
<1> QED
    BY <1>1, <1>3, <1>17, MovesWell DEF d

\* Every step of a turn's task does well, until it posts the outcome.
LEMMA TaskWell ==
    ASSUME SessionInv, CallsInv, MatchInv, NEW t \in DOMAIN drivers,
           DriverStep(t, incarnation, mode \in Alive)
    PROVE  GoesWell(t) \/ PostOutcome(t, mode \in Alive)
<1>1. CASE \/ InitTransit(t) \/ ContextManagedTransit(t) \/ DemuxEnd(t) \/ CountErrors(t) \/ DispatchDone(t)
           \/ Invoke(t) \/ SubmitReturns(t) \/ RegisterSink(t, incarnation)
    BY <1>1, QuietWell
<1>2. CASE RecordTurnFailed(t) \/ RecordTurnCompleted(t) \/ DemuxMessageCompleted(t) \/ RecordJobSubmitted(t)
    BY <1>2, PlainWell
<1>3. CASE Resolve(t) \/ RecordToolResult(t)
    BY <1>3, ResolveWell
<1>4. CASE RecordModelCallStarted(t)
    BY <1>4, OpeningWell
<1>5. CASE OpenStream(t)
    BY <1>5, OpenWell
<1>6. CASE DemuxToolUse(t)
    BY <1>6, ToolUseWell
<1>7. CASE PauseTurn(t)
    BY <1>7, PauseWell
<1> QED
    BY <1>1, <1>2, <1>3, <1>4, <1>5, <1>6, <1>7 DEF DriverStep

-----------------------------------------------------------------------------
(* The kinds of step.                                                      *)

\* What one turn writes leaves the task of another as it was ...
LEMMA OtherTaskMatched ==
    ASSUME NEW lg \in Seq(Event), NEW e \in Event, Fits(lg, e), LogOK(lg), NEW js,
           NEW t, NEW d, WellFormed(d), TaskOK(lg, js, t, d), t # e.turn, TaskMatched(lg, t, d)
    PROVE  TaskMatched(Append(lg, e), t, d)
<1> DEFINE kg == Append(lg, e)
<1>1. d.pc = "Paused" => LookupCallId(kg, d.job) = LookupCallId(lg, d.job)
    <2>1. None \notin Free(lg, t)
        BY UsedApart DEF LogOK
    <2>2. d.pc = "Paused" => d.job \in JobIds /\ LookupCallId(lg, d.job) # None
        BY <2>1 DEF WellFormed, TaskOK, Owned
    <2> QED
        BY <2>2, LookupKept
<1>2. SettledBut(lg, t, Owned(lg, d)) => SettledBut(kg, t, Owned(lg, d))
    BY SettledButKept
<1>3. d.pc \in Streaming => Reopened(kg, t, Len(kg) + 1)
    BY ReopenedKept DEF TaskMatched
<1> HIDE DEF kg
<1>4. Owned(kg, d) = Owned(lg, d)
    BY <1>1 DEF Owned
<1> QED
    BY <1>2, <1>3, <1>4 DEF TaskMatched, kg

\* ... and its outcome.
LEMMA OtherOutcomeMatched ==
    ASSUME NEW lg \in Seq(Event), NEW e \in Event, Fits(lg, e), LogOK(lg),
           NEW r, r.outcome = "Paused" => r.job \in JobIds, OutcomeOK(lg, r), r.turn # e.turn,
           OutcomeMatched(lg, r)
    PROVE  OutcomeMatched(Append(lg, e), r)
<1> SUFFICES ASSUME r.outcome = "Paused"
             PROVE  SettledBut(Append(lg, e), r.turn, {LookupCallId(Append(lg, e), r.job)})
    BY DEF OutcomeMatched
<1>1. None \notin Free(lg, r.turn) /\ LookupCallId(lg, r.job) \in Free(lg, r.turn)
    BY UsedApart DEF LogOK, OutcomeOK
<1>2. LookupCallId(Append(lg, e), r.job) = LookupCallId(lg, r.job)
    BY <1>1, LookupKept
<1>3. SettledBut(lg, r.turn, {LookupCallId(lg, r.job)})
    BY DEF OutcomeMatched
<1>4. SettledBut(Append(lg, e), r.turn, {LookupCallId(lg, r.job)})
    BY <1>3, SettledButKept
<1> QED
    BY <1>2, <1>4

\* The tasks es are those of ds, but for turn t's.
ChangedAt(ds, es, t) == \A u \in DOMAIN es : u = t \/ (u \in DOMAIN ds /\ es[u] = ds[u])

\* Nothing is written.
LEMMA MatchTasks ==
    ASSUME NEW lg, NEW ds, NEW rs, MatchHeld(lg, ds, rs), NEW es, NEW t, ChangedAt(ds, es, t),
           t \in DOMAIN es => TaskMatched(lg, t, es[t]),
           NEW qs, \A n \in DOMAIN qs : OutcomeMatched(lg, qs[n])
    PROVE  MatchHeld(lg, es, qs)
<1>1. ASSUME NEW u \in DOMAIN es
      PROVE  TaskMatched(lg, u, es[u])
    <2>1. CASE u = t
        BY <2>1
    <2>2. CASE u # t
        BY <2>2 DEF ChangedAt, MatchHeld
    <2> QED
        BY <2>1, <2>2
<1> QED
    BY <1>1 DEF MatchHeld

\* The event e is written, and its turn's task goes on or is new.
LEMMA MatchWrites ==
    ASSUME NEW lg, NEW js, NEW ds, NEW rs, NEW fl, NEW md, Held(lg, ds, rs, fl),
           CallsHeld(lg, js, ds, rs, fl, md), MatchHeld(lg, ds, rs),
           NEW e \in Event, Fits(lg, e), Suits(lg, e), \A n \in DOMAIN rs : rs[n].turn # e.turn,
           NEW es, ChangedAt(ds, es, e.turn),
           e.turn \in DOMAIN es => TaskMatched(Append(lg, e), e.turn, es[e.turn])
    PROVE  MatchHeld(Append(lg, e), es, rs)
<1> DEFINE kg == Append(lg, e)
<1>1. lg \in Seq(Event) /\ LogOK(lg) /\ LogOK(kg)
    BY LogKept DEF CallsHeld, Held, HoldersStarted, Shaped
<1>2. MatchedLog(kg)
    BY <1>1, MatchedLogKept DEF MatchHeld
<1>3. ASSUME NEW u \in DOMAIN es
      PROVE  TaskMatched(kg, u, es[u])
    <2>1. CASE u = e.turn
        BY <2>1
    <2>2. CASE u # e.turn
        <3>1. u \in DOMAIN ds /\ es[u] = ds[u]
            BY <2>2 DEF ChangedAt
        <3>2. WellFormed(ds[u]) /\ TaskOK(lg, js, u, ds[u]) /\ TaskMatched(lg, u, ds[u])
            BY <3>1 DEF Held, TasksWellFormed, CallsHeld, MatchHeld
        <3>3. TaskMatched(kg, u, ds[u])
            BY <1>1, <2>2, <3>2, OtherTaskMatched
        <3> QED
            BY <3>1, <3>3
    <2> QED
        BY <2>1, <2>2
<1>4. ASSUME NEW n \in DOMAIN rs
      PROVE  OutcomeMatched(kg, rs[n])
    <2>1. /\ rs[n].outcome = "Paused" => rs[n].job \in JobIds
          /\ OutcomeOK(lg, rs[n]) /\ rs[n].turn # e.turn /\ OutcomeMatched(lg, rs[n])
        BY DEF Held, PausedOnJobs, CallsHeld, MatchHeld
    <2> QED
        BY <1>1, <2>1, OtherOutcomeMatched
<1> HIDE DEF kg
<1> QED
    BY <1>2, <1>3, <1>4 DEF MatchHeld, kg

\* A turn task's step.
LEMMA TurnStepMatch == SessionInv /\ CallsInv /\ MatchInv /\ TurnStep => MatchInv'
<1> SUFFICES ASSUME SessionInv, CallsInv, MatchInv, TurnStep
             PROVE  MatchInv'
    OBVIOUS
<1>1. PICK t \in DOMAIN drivers : DriverStep(t, incarnation, mode \in Alive)
    BY DEF TurnStep
<1>2. \/ \E d : Moves(t, d) \/ \E e : Notes(t, d, e)
      \/ PostOutcome(t, mode \in Alive)
    BY <1>1, TaskSteps
<1>3. GoesWell(t) \/ PostOutcome(t, mode \in Alive)
    BY <1>1, TaskWell
<1>4. /\ Held(log, drivers, results, inFlight)
      /\ CallsHeld(log, DOMAIN jobs, drivers, results, inFlight, mode)
      /\ MatchHeld(log, drivers, results)
    BY DEF SessionInv, CallsInv, MatchInv
<1>5. CASE PostOutcome(t, mode \in Alive)
    <2> DEFINE r == [turn |-> t, outcome |-> drivers[t].pc, job |-> drivers[t].job]
    <2>1. /\ log' = log /\ drivers' = [u \in DOMAIN drivers \ {t} |-> drivers[u]]
          /\ results' \in {results, Append(results, r)}
        BY <1>5 DEF PostOutcome
    <2>2. r.turn = t /\ r.outcome = drivers[t].pc /\ r.job = drivers[t].job
        OBVIOUS
    <2> HIDE DEF r
    <2>3. TaskMatched(log, t, drivers[t])
        BY <1>4 DEF MatchHeld
    <2>4. OutcomeMatched(log, r)
        BY <2>2, <2>3 DEF OutcomeMatched, TaskMatched, Owned, Over
    <2>5. \A n \in DOMAIN results' : (n \in DOMAIN results /\ results'[n] = results[n]) \/ results'[n] = r
        <3>1. results \in Seq(Result)
            BY <1>4 DEF Held, Shaped
        <3>2. \A n \in DOMAIN Append(results, r) :
                  (n \in DOMAIN results /\ Append(results, r)[n] = results[n]) \/ Append(results, r)[n] = r
            BY <3>1
        <3> QED
            BY <2>1, <3>2
    <2>6. \A n \in DOMAIN results' : OutcomeMatched(log, results'[n])
        <3>1. \A n \in DOMAIN results : OutcomeMatched(log, results[n])
            BY <1>4 DEF MatchHeld
        <3> HIDE DEF OutcomeMatched
        <3> QED
            BY <2>4, <2>5, <3>1
    <2>7. ChangedAt(drivers, drivers', t) /\ t \notin DOMAIN drivers'
        BY <2>1 DEF ChangedAt
    <2>8. MatchHeld(log, drivers', results')
        BY <1>4, <2>6, <2>7, MatchTasks
    <2> QED
        BY <2>1, <2>8 DEF MatchInv
<1>6. CASE GoesWell(t) /\ \E d : Moves(t, d)
    <2>1. PICK d : Moves(t, d)
        BY <1>6
    <2>2. log' = log /\ results' = results /\ drivers' = [drivers EXCEPT ![t] = d]
        BY <2>1 DEF Moves
    <2>3. ChangedAt(drivers, drivers', t)
        BY <2>2 DEF ChangedAt
    <2>4. TaskMatched(log, t, drivers'[t])
        BY <1>6, <2>2 DEF GoesWell
    <2>5. \A n \in DOMAIN results : OutcomeMatched(log, results[n])
        BY <1>4 DEF MatchHeld
    <2>6. MatchHeld(log, drivers', results)
        BY <1>4, <2>3, <2>4, <2>5, MatchTasks
    <2> QED
        BY <2>2, <2>6 DEF MatchInv
<1>7. CASE GoesWell(t) /\ \E d, e : Notes(t, d, e)
    <2>1. PICK d, e : Notes(t, d, e)
        BY <1>7
    <2>2. /\ drivers' = [drivers EXCEPT ![t] = d] /\ log' = Append(log, e) /\ results' = results
          /\ e \in Event /\ e.turn = t /\ Fits(log, e)
        BY <2>1 DEF Notes
    <2>3. ChangedAt(drivers, drivers', e.turn)
        BY <2>2 DEF ChangedAt
    <2>4. Suits(log, e) /\ TaskMatched(Append(log, e), e.turn, drivers'[e.turn])
        BY <1>7, <2>2 DEF GoesWell
    <2>5. \A n \in DOMAIN results : results[n].turn # e.turn
        BY <1>4, <2>2 DEF Held, OneHolder
    <2>6. MatchHeld(Append(log, e), drivers', results)
        BY <1>4, <2>2, <2>3, <2>4, <2>5, MatchWrites
    <2> QED
        BY <2>2, <2>6 DEF MatchInv
<1> QED
    BY <1>2, <1>3, <1>5, <1>6, <1>7

\* The steps that change neither the log, nor a task, nor an outcome.
LEMMA QuietMatch ==
    SessionInv /\ MatchInv
    /\ \/ ClientStep \/ JobStep \/ HandleTrigger \/ HandleStrayCompletion \/ HandleJobCompleted \/ HandleProbe
       \/ HandleCancelJob \/ CancelReturns \/ HandleShutdown \/ TakeCompletion \/ ForwardCompletion
       \/ StartIdle \/ StartFails \/ StartPaused \/ UNCHANGED vars
    => MatchInv'
<1> SUFFICES ASSUME MatchInv,
                    \/ ClientStep \/ JobStep \/ HandleTrigger \/ HandleStrayCompletion \/ HandleJobCompleted
                    \/ HandleProbe \/ HandleCancelJob \/ CancelReturns \/ HandleShutdown \/ TakeCompletion
                    \/ ForwardCompletion \/ StartIdle \/ StartFails \/ StartPaused \/ UNCHANGED vars
             PROVE  MatchInv'
    OBVIOUS
<1>1. UNCHANGED <<log, drivers, results>>
    BY DEF ClientStep, ClientSubmit, ClientCancel, ClientShutdown, JobStep, WorkerRuns, SendRuns,
       HandleTrigger, HandleStrayCompletion, HandleJobCompleted, HandleProbe, HandleCancelJob, CancelReturns,
       HandleShutdown, TakeCompletion, ForwardCompletion, StartIdle, StartFails, StartPaused, vars, turnVars
<1> QED
    BY <1>1 DEF MatchInv

\* An actor that ends, and a crash, lose tasks and outcomes.
LEMMA EndMatch == MatchInv /\ (Exit \/ Crash) => MatchInv'
<1> SUFFICES ASSUME MatchInv, Exit \/ Crash
             PROVE  MatchInv'
    OBVIOUS
<1> DEFINE none == <<>>
           gone == [t \in {} |-> {}]
<1>1. DOMAIN none = {} /\ DOMAIN gone = {}
    OBVIOUS
<1> HIDE DEF none, gone
<1>2. log' = log /\ drivers' \in {drivers, gone} /\ results' = none
    BY DEF Exit, Crash, none, gone
<1> QED
    BY <1>1, <1>2 DEF MatchInv, MatchHeld

\* A session that was never opened.
LEMMA MatchInit == Init => MatchInv
<1> SUFFICES ASSUME Init
             PROVE  MatchInv
    OBVIOUS
<1>1. log = <<>> /\ DOMAIN drivers = {} /\ DOMAIN results = {}
    BY DEF Init, TurnInit
<1>2. \A types : Positions(log, types) = {}
    BY <1>1 DEF Positions
<1>3. Uses(log) = {} /\ Answers(log) = {} /\ Openings(log) = {} /\ Pauses(log) = {}
    BY <1>2 DEF Uses, Answers, Openings, Pauses
<1>4. MatchedLog(log)
    BY <1>3 DEF MatchedLog, UsesRise, AnswersPlain, UsesStreamed, Matched, PausesSettled
<1> QED
    BY <1>1, <1>4 DEF MatchInv, MatchHeld

-----------------------------------------------------------------------------
(* The actor's appends, and the tasks it spawns.                           *)

\* A task that begins with the calls that are open.
LEMMA BegunTask ==
    ASSUME NEW lg, NEW t, NEW pc \in {"Init", "ModelCompleted", "ToolDispatching", "Failing"}, NEW m,
           NEW pend, Increasing(pend), SettledBut(lg, t, Ids(pend)), pc = "Init" => Ids(pend) = {}
    PROVE  TaskMatched(lg, t, Task(pc, m, pend))
<1> DEFINE none == <<>>
           no == FALSE
<1>1. Ids(none) = {} /\ Increasing(none)
    BY EmptyQueue
<1> HIDE DEF none, no
<1> DEFINE d == [pc |-> pc, mcalls |-> m, streak |-> 0, todo |-> none, pend |-> pend, bad |-> no, job |-> None]
<1>2. d.pc = pc /\ d.todo = none /\ d.pend = pend
    OBVIOUS
<1>3. d = Task(pc, m, pend)
    BY DEF Task, none, no
<1> HIDE DEF d
<1>4. Orderly(d)
    BY <1>1, <1>2 DEF Orderly, Under, Between
<1>5. Owned(lg, d) = Ids(pend)
    BY <1>1, <1>2 DEF Owned
<1>6. TaskMatched(lg, t, d)
    BY <1>2, <1>4, <1>5 DEF TaskMatched, Streaming
<1> QED
    BY <1>3, <1>6

LEMMA BegunEmpty ==
    ASSUME NEW lg, NEW t, NEW m, SettledBut(lg, t, {})
    PROVE  /\ TaskMatched(lg, t, FreshLikeInit)
           /\ TaskMatched(lg, t, FromModelCompleted(m))
           /\ TaskMatched(lg, t, FromToolDispatching(m, <<>>, FALSE))
<1> DEFINE none == <<>>
<1>1. Ids(none) = {} /\ Increasing(none)
    BY EmptyQueue
<1>2. FromToolDispatching(m, <<>>, FALSE) = Task("ToolDispatching", m, <<>>)
    <2>1. DOMAIN <<>> = {}
        OBVIOUS
    <2> QED
        BY <2>1 DEF FromToolDispatching
<1>3. FreshLikeInit = Task("Init", 0, none) /\ FromModelCompleted(m) = Task("ModelCompleted", m, none)
    BY DEF FreshLikeInit, FromModelCompleted
<1>4. FromToolDispatching(m, <<>>, FALSE) = Task("ToolDispatching", m, none)
    BY <1>2
<1> HIDE DEF none
<1>5. TaskMatched(lg, t, Task("Init", 0, none))
    BY <1>1, BegunTask
<1>6. TaskMatched(lg, t, Task("ModelCompleted", m, none)) /\ TaskMatched(lg, t, Task("ToolDispatching", m, none))
    BY <1>1, BegunTask
<1> QED
    BY <1>3, <1>4, <1>5, <1>6

\* A new turn has no call.
LEMMA MatchStart ==
    ASSUME NEW lg, NEW js, NEW ds, NEW rs, NEW fl, NEW md, Held(lg, ds, rs, fl),
           CallsHeld(lg, js, ds, rs, fl, md), MatchHeld(lg, ds, rs), NEW n \in Nat, NEW t, t = FreshTurn(lg)
    PROVE  MatchHeld(Append(lg, TurnStarted(t, n)),
                     [u \in DOMAIN ds \cup {t} |-> IF u = t THEN FreshLikeInit ELSE ds[u]], rs)
<1> DEFINE e == TurnStarted(t, n)
           kg == Append(lg, e)
           d == FreshLikeInit
           es == [u \in DOMAIN ds \cup {t} |-> IF u = t THEN d ELSE ds[u]]
<1>1. lg \in Seq(Event) /\ OfStartedTurns(lg) /\ \A m \in DOMAIN rs : rs[m].turn \in StartedIn(lg)
    BY DEF Held, Shaped, HoldersStarted
<1>2. t \in Nat /\ t \notin StartedIn(lg)
    <2>1. TurnFailed(0) \in Event
        BY EventTypesOK
    <2> QED
        BY <1>1, <2>1, AppendStarted
<1>3. e \in Event /\ e.type = "TurnStarted" /\ e.turn = t
    BY <1>2, EventTypesOK DEF TurnStarted, Ev
<1> HIDE DEF e
<1>4. Fits(lg, e) /\ Suits(lg, e)
    BY <1>3 DEF Fits, Suits
<1>5. SettledBut(lg, t, {})
    BY <1>1, <1>2 DEF SettledBut, OfStartedTurns, Uses, Positions
<1>6. SettledBut(kg, t, {})
    BY <1>1, <1>3, <1>5, SettledButKept
<1>7. TaskMatched(kg, t, d)
    BY <1>6, BegunEmpty
<1>8. \A m \in DOMAIN rs : rs[m].turn # e.turn
    BY <1>1, <1>2, <1>3
<1> HIDE DEF d
<1>9. ChangedAt(ds, es, t) /\ es[t] = d
    BY DEF ChangedAt
<1> HIDE DEF es
<1>10. MatchHeld(kg, es, rs)
    BY <1>3, <1>4, <1>7, <1>8, <1>9, MatchWrites
<1> QED
    BY <1>10 DEF kg, es, d, e

LEMMA StartHeldInputMatch == SessionInv /\ CallsInv /\ MatchInv /\ StartHeldInput => MatchInv'
<1> SUFFICES ASSUME SessionInv, CallsInv, MatchInv, StartHeldInput
             PROVE  MatchInv'
    OBVIOUS
<1> DEFINE t == FreshTurn(log)
           es == [u \in DOMAIN drivers \cup {t} |-> IF u = t THEN FreshLikeInit ELSE drivers[u]]
<1>1. log' = Append(log, TurnStarted(t, held)) /\ drivers' = es /\ results' = results
    BY DEF StartHeldInput, TryStartTurn, Spawn
<1>2. /\ Held(log, drivers, results, inFlight) /\ MatchHeld(log, drivers, results) /\ held \in Nat
      /\ CallsHeld(log, DOMAIN jobs, drivers, results, inFlight, mode)
    BY DEF SessionInv, AsideOK, CallsInv, MatchInv
<1>3. MatchHeld(Append(log, TurnStarted(t, held)), es, results)
    <2> HIDE DEF t
    <2>1. t = FreshTurn(log)
        BY DEF t
    <2> QED
        BY <1>2, <2>1, MatchStart
<1> HIDE DEF t, es
<1> QED
    BY <1>1, <1>3 DEF MatchInv

\* The actor parks a turn that has left open the call of its job only.
LEMMA TakeOutcomeMatch == SessionInv /\ CallsInv /\ MatchInv /\ TakeOutcome => MatchInv'
<1> SUFFICES ASSUME SessionInv, CallsInv, MatchInv, TakeOutcome
             PROVE  MatchInv'
    OBVIOUS
<1> DEFINE r == Head(results)
           qs == Tail(results)
           call == LookupCallId(log, r.job)
           t == FreshTurn(log)
           es == [u \in DOMAIN drivers \cup {t} |-> IF u = t THEN FreshLikeInit ELSE drivers[u]]
<1>1. results # <<>> /\ results' = qs
    BY DEF TakeOutcome
<1>2. /\ Held(log, drivers, results, inFlight) /\ MatchHeld(log, drivers, results) /\ log \in Seq(Event)
      /\ CallsHeld(log, DOMAIN jobs, drivers, results, inFlight, mode) /\ LogOK(log)
    BY DEF SessionInv, CallsInv, MatchInv, CallsHeld, Held, Shaped
<1>3. /\ r \in Result /\ r.turn \notin DOMAIN drivers /\ \A n \in DOMAIN qs : qs[n].turn # r.turn
      /\ r.outcome = "Paused" => r.job \in JobIds
      /\ Held(log, drivers, qs, NoTurn)
    BY <1>1, <1>2, TakenOutcome, HeldTakes
<1>4. CallsHeld(log, DOMAIN jobs, drivers, qs, NoTurn, mode) /\ OutcomeOK(log, r)
    BY <1>1, <1>2, CallsTake
<1>5. MatchHeld(log, drivers, qs) /\ OutcomeMatched(log, r)
    <2>1. /\ 1 \in DOMAIN results /\ results[1] = r
          /\ \A n \in DOMAIN qs : n + 1 \in DOMAIN results /\ qs[n] = results[n + 1]
        BY <1>1, <1>2, TailOfResults DEF Held, Shaped
    <2>2. \A m \in DOMAIN results : OutcomeMatched(log, results[m])
        BY <1>2 DEF MatchHeld
    <2> HIDE DEF OutcomeMatched, r, qs
    <2>3. OutcomeMatched(log, r)
        BY <2>1, <2>2
    <2>4. ASSUME NEW n \in DOMAIN qs
          PROVE  OutcomeMatched(log, qs[n])
        <3>1. n + 1 \in DOMAIN results /\ qs[n] = results[n + 1]
            BY <2>1, <2>4
        <3> QED
            BY <2>2, <3>1
    <2> QED
        BY <1>2, <2>3, <2>4 DEF MatchHeld
<1>6. CASE r.outcome = "Paused"
    <2> DEFINE e == TurnPaused(r.turn, r.job)
    <2>1. call \in Free(log, r.turn) /\ SubmittedBefore(log, r.turn, r.job, Len(log) + 1)
        BY <1>4, <1>6 DEF OutcomeOK
    <2>2. call # None
        <3>1. None \notin Free(log, r.turn)
            BY <1>2, UsedApart DEF LogOK
        <3> QED
            BY <2>1, <3>1
    <2>3. log' = Append(log, e) /\ drivers' = drivers
        BY <1>6, <2>2 DEF TakeOutcome, OnTurnComplete
    <2>4. r.turn \in Nat /\ r.job \in JobIds
        BY <1>3, <1>6 DEF Result
    <2>5. e \in Event /\ e.type = "TurnPaused" /\ e.turn = r.turn /\ e.job = r.job /\ Fits(log, e)
        BY <1>2, <2>1, <2>4, PauseFits
    <2>6. SettledBut(log, r.turn, {call})
        BY <1>5, <1>6 DEF OutcomeMatched
    <2> HIDE DEF e
    <2>7. Suits(log, e)
        BY <2>5, <2>6 DEF Suits
    <2>8. ChangedAt(drivers, drivers, e.turn) /\ e.turn \notin DOMAIN drivers
        BY <1>3, <2>5 DEF ChangedAt
    <2>9. \A n \in DOMAIN qs : qs[n].turn # e.turn
        BY <1>3, <2>5
    <2> HIDE DEF qs
    <2>10. MatchHeld(Append(log, e), drivers, qs)
        BY <1>3, <1>4, <1>5, <2>5, <2>7, <2>8, <2>9, MatchWrites
    <2> QED
        BY <1>1, <2>3, <2>10 DEF MatchInv
<1>7. CASE r.outcome # "Paused"
    <2>1. \/ log' = log /\ drivers' = drivers
          \/ log' = Append(log, TurnStarted(t, pendingInput)) /\ drivers' = es
        BY <1>7 DEF TakeOutcome, OnTurnComplete, TryStartTurn, Spawn
    <2>2. MatchHeld(Append(log, TurnStarted(t, pendingInput)), es, qs)
        <3>1. pendingInput \in Nat
            BY DEF SessionInv, AsideOK
        <3>2. t = FreshTurn(log)
            OBVIOUS
        <3> HIDE DEF t, qs
        <3> QED
            BY <1>3, <1>4, <1>5, <3>1, <3>2, MatchStart
    <2> HIDE DEF t, es, qs
    <2> QED
        BY <1>1, <1>5, <2>1, <2>2 DEF MatchInv
<1> QED
    BY <1>6, <1>7

\* The calls of a paused turn are settled but for that of its job ...
LEMMA PausedSettled ==
    ASSUME NEW lg, MatchedLog(lg), NEW t, NEW j, NEW c, c = LookupCallId(lg, j),
           NEW p \in Pauses(lg), lg[p] = TurnPaused(t, j)
    PROVE  SettledBut(lg, t, {c})
<1>1. lg[p].turn = t /\ lg[p].job = j
    BY DEF TurnPaused, Ev
<1> QED
    BY <1>1 DEF MatchedLog, PausesSettled, CallOf

\* ... so that it goes on with nothing open once this is answered.
LEMMA MatchAnswer ==
    ASSUME NEW lg, NEW js, NEW ds, NEW rs, NEW fl, NEW md, Held(lg, ds, rs, fl),
           CallsHeld(lg, js, ds, rs, fl, md), MatchHeld(lg, ds, rs),
           NEW t \in Nat, NEW c \in Nat, SettledBut(lg, t, {c}), Fits(lg, ToolResult(t, c)),
           \A n \in DOMAIN rs : rs[n].turn # t,
           NEW m, NEW es, ChangedAt(ds, es, t), es[t] = FromToolDispatching(m, <<>>, FALSE)
    PROVE  MatchHeld(Append(lg, ToolResult(t, c)), es, rs)
<1> DEFINE e == ToolResult(t, c)
           kg == Append(lg, e)
           d == FromToolDispatching(m, <<>>, FALSE)
<1>1. lg \in Seq(Event)
    BY DEF Held, Shaped
<1>2. e \in Event /\ e.type = "ToolResultRecorded" /\ e.turn = t /\ e.key = c
    BY EventTypesOK DEF ToolResult, Ev
<1>3. e = ToolResult(t, c) /\ Fits(lg, e)
    OBVIOUS
<1> HIDE DEF e
<1>4. Suits(lg, e)
    BY <1>2, <1>3 DEF Suits
<1>5. SettledBut(kg, t, {})
    BY <1>1, <1>2, SettledButKept
<1>6. TaskMatched(kg, t, d)
    BY <1>5, BegunEmpty
<1> HIDE DEF d
<1>7. es[t] = d
    BY DEF d
<1>8. MatchHeld(kg, es, rs)
    BY <1>2, <1>3, <1>4, <1>6, <1>7, MatchWrites
<1> QED
    BY <1>8 DEF kg, e

LEMMA JobCompletedMatch ==
    SessionInv /\ CallsInv /\ MatchInv /\ (RecordJobCompleted \/ FinishJobCompleted) => MatchInv'
<1> SUFFICES ASSUME SessionInv, CallsInv, MatchInv, RecordJobCompleted \/ FinishJobCompleted
             PROVE  MatchInv'
    OBVIOUS
<1> DEFINE t == inFlight.turn
           j == inFlight.job
           c == inFlight.call
<1>1. /\ Held(log, drivers, results, inFlight) /\ MatchHeld(log, drivers, results)
      /\ CallsHeld(log, DOMAIN jobs, drivers, results, inFlight, mode)
    BY DEF SessionInv, CallsInv, MatchInv
<1>2. /\ t \notin DOMAIN drivers /\ (\A n \in DOMAIN results : results[n].turn # t) /\ t \in Nat /\ j \in Nat
      /\ c = LookupCallId(log, j) /\ \E p \in Pauses(log) : log[p] = TurnPaused(t, j)
      /\ RecordJobCompleted => Fits(log, JobCompletedRecorded(t, j))
      /\ FinishJobCompleted => c \in Nat /\ Fits(log, ToolResult(t, c))
    BY AppliedJob
<1>3. CASE RecordJobCompleted
    <2> DEFINE e == JobCompletedRecorded(t, j)
    <2>1. log' = Append(log, e) /\ drivers' = drivers /\ results' = results
        BY <1>3 DEF RecordJobCompleted, Record
    <2>2. e \in Event /\ e.turn = t /\ e.type = "JobCompletedRecorded" /\ Fits(log, e)
        BY <1>2, <1>3, EventTypesOK DEF JobCompletedRecorded, Ev
    <2> HIDE DEF e
    <2>3. Suits(log, e)
        BY <2>2 DEF Suits
    <2>4. ChangedAt(drivers, drivers, e.turn)
        BY DEF ChangedAt
    <2>5. e.turn \notin DOMAIN drivers /\ \A n \in DOMAIN results : results[n].turn # e.turn
        BY <1>2, <2>2
    <2>6. MatchHeld(Append(log, e), drivers, results)
        BY <1>1, <2>2, <2>3, <2>4, <2>5, MatchWrites
    <2> QED
        BY <2>1, <2>6 DEF MatchInv
<1>4. CASE FinishJobCompleted
    <2> DEFINE m == CountModelCalls(log, t)
               d == FromToolDispatching(m, <<>>, FALSE)
               es == [u \in DOMAIN drivers \cup {t} |-> IF u = t THEN d ELSE drivers[u]]
    <2>1. log' = Append(log, ToolResult(t, c)) /\ drivers' = es /\ results' = results
        BY <1>4 DEF FinishJobCompleted, Spawn
    <2>2. c \in Nat /\ Fits(log, ToolResult(t, c))
        BY <1>2, <1>4
    <2>3. d = FromToolDispatching(m, <<>>, FALSE)
        OBVIOUS
    <2> HIDE DEF m, d, t, j, c
    <2>4. ChangedAt(drivers, es, t) /\ es[t] = d
        BY DEF ChangedAt
    <2> HIDE DEF es
    <2>5. SettledBut(log, t, {c})
        BY <1>1, <1>2, PausedSettled DEF MatchHeld
    <2>6. es[t] = FromToolDispatching(m, <<>>, FALSE)
        BY <2>3, <2>4, Zenon
    <2>7. MatchHeld(Append(log, ToolResult(t, c)), es, results)
        BY <1>1, <1>2, <2>2, <2>4, <2>5, <2>6, MatchAnswer
    <2> QED
        BY <2>1, <2>7 DEF MatchInv
<1> QED
    BY <1>3, <1>4

-----------------------------------------------------------------------------
(* What a restart leaves open.                                             *)

\* The last turn has open the calls that are dispatched again: those before its last
\* model call were settled for it, and those of the response have no result after it.
LEMMA RestartSettled ==
    ASSUME NEW lg \in Seq(Event), LogOK(lg), OfStartedTurns(lg), EndsAreLast(lg), MatchedLog(lg),
           NEW d, d = Replay(lg), d.point \in {"ResumeFromModelCompleted", "ResumeFromToolDispatching"}
    PROVE  SettledBut(lg, d.turn, Ids(d.pending)) /\ Increasing(d.pending)
<1> DEFINE b == LastBoundary(lg)
           o == LastOpening(lg)
           s == LastSeal(lg)
           n == Len(lg)
           t == d.turn
           S == Unanswered(lg)
           f == InOrder(S)
           c == Cardinality(S)
           pend == d.pending
           late == {lg[r].key : r \in {k \in Answers(lg) : k > s}}
<1>1. /\ b \in Begins(lg) /\ \A k \in DOMAIN lg : lg[k].type \in Boundaries => k <= b
      /\ ~NestedTurnStarted(lg) /\ t = lg[b].turn /\ pend = PendingCalls(lg) /\ o # 0 /\ ~(o > s)
    BY DispatchPoint
<1>2. /\ o \in Openings(lg) /\ o > b /\ \A m \in Openings(lg) : m > b => m <= o
      /\ s \in Seals(lg) /\ s > b
    BY <1>1, LastResponse
<1>3. /\ n \in Nat /\ DOMAIN lg = 1..n /\ Uses(lg) \subseteq 1..n /\ Openings(lg) \subseteq 1..n /\ s \in 1..n
      /\ b \in 1..n /\ o \in 1..n
    BY <1>1, <1>2 DEF Uses, Openings, Seals, Begins, Positions
<1>4. S \in SUBSET (1..n) /\ S \subseteq Uses(lg)
    BY <1>3 DEF Unanswered
<1>5. pend = [i \in DOMAIN f |-> [id |-> lg[f[i]].key, ok |-> lg[f[i]].info = "valid"]]
    BY <1>1 DEF PendingCalls
<1>6. S = {i \in Uses(lg) : o < i /\ i < s /\ lg[i].key \notin late}
    BY DEF Unanswered
<1>7. Answered(lg) = {lg[r].key : r \in Answers(lg)}
    BY DEF Answered, Answers
<1>8. late \subseteq Answered(lg)
    BY <1>7
<1> HIDE DEF b, o, s, n, t, S, pend, late
<1>9. /\ c \in Nat /\ f \in [1..c -> S] /\ \A i, k \in 1..c : i < k => f[i] < f[k]
      /\ \A i \in S : \E k \in 1..c : f[k] = i
    BY <1>3, <1>4, InOrderAscends
<1> HIDE DEF f, c
<1>10. DOMAIN pend = 1..c /\ \A i \in 1..c : f[i] \in S /\ pend[i].id = lg[f[i]].key
    BY <1>5, <1>9
<1>11. \A k \in 1..n : k > b => lg[k].turn = t
    BY <1>1, <1>3, LastTurn
<1>12. lg[o].turn = t /\ lg[s].turn = t
    BY <1>2, <1>3, <1>11
<1>13. ASSUME NEW u \in Uses(lg), lg[u].turn = t
       PROVE  Settled(lg, u) \/ lg[u].key \in Ids(pend)
    <2>1. u \in 1..n /\ u # o /\ u # s
        <3>1. lg[o].type = "ModelCallStarted" /\ lg[s].type = "ModelCallCompleted" /\ lg[u].type = "ToolUseRecorded"
            BY <1>2 DEF Openings, Seals, Uses, Positions
        <3> QED
            BY <1>3, <3>1
    <2>2. CASE u < o
        <3>1. AnsweredBetween(lg, u, o) \/ Behind(lg, u)
            BY <1>2, <1>12, <1>13, <2>2 DEF MatchedLog, Matched
        <3> QED
            BY <1>7, <3>1 DEF AnsweredBetween, Settled
    <2>3. CASE s < u
        <3>1. PICK m \in Openings(lg) : s < m /\ m < u
            BY <1>2, <1>12, <1>13, <2>3 DEF MatchedLog, UsesStreamed, Reopened
        <3>2. m \in 1..n /\ m > b
            BY <1>2, <1>3, <3>1
        <3>3. m <= o
            BY <1>2, <3>2
        <3> QED
            BY <1>1, <1>3, <3>1, <3>2, <3>3
    <2>4. CASE o < u /\ u < s
        <3>1. CASE lg[u].key \in late
            BY <1>8, <3>1 DEF Settled
        <3>2. CASE u \in S
            <4>1. PICK k \in 1..c : f[k] = u
                BY <1>9, <3>2
            <4> QED
                BY <1>10, <4>1 DEF Ids
        <3> QED
            BY <1>6, <2>4, <3>1, <3>2
    <2> QED
        BY <1>3, <2>1, <2>2, <2>3, <2>4
<1>14. ASSUME NEW i \in 1..c, NEW k \in 1..c, i < k
       PROVE  pend[i].id < pend[k].id
    <2>1. f[i] < f[k] /\ f[i] \in Uses(lg) /\ f[k] \in Uses(lg)
        BY <1>4, <1>9, <1>14
    <2> QED
        BY <1>10, <2>1 DEF MatchedLog, UsesRise
<1>15. Increasing(pend)
    BY <1>10, <1>14 DEF Increasing
<1>16. SettledBut(lg, t, Ids(pend))
    BY <1>13 DEF SettledBut
<1> QED
    BY <1>15, <1>16 DEF t, pend

\* The task a turn is taken up with.
LEMMA TakenUpTask ==
    ASSUME NEW lg \in Seq(Event), LogOK(lg), OfStartedTurns(lg), EndsAreLast(lg), MatchedLog(lg),
           NEW d, d = Replay(lg), NEW m
    PROVE  /\ d.point = "ResumeFromModelCompleted" => TaskMatched(lg, d.turn, FromModelCompleted(m))
           /\ d.point = "ResumeFromToolDispatching" =>
                  \A drift : TaskMatched(lg, d.turn, FromToolDispatching(m, d.pending, drift))
<1>1. ASSUME d.point = "ResumeFromModelCompleted"
      PROVE  TaskMatched(lg, d.turn, FromModelCompleted(m))
    <2>1. d.pending = <<>>
        BY <1>1, DispatchPoint
    <2> DEFINE none == <<>>
    <2>2. Ids(none) = {}
        BY EmptyQueue
    <2>3. d.pending = none
        BY <2>1
    <2> HIDE DEF none
    <2>4. SettledBut(lg, d.turn, {})
        BY <1>1, <2>2, <2>3, RestartSettled
    <2> QED
        BY <2>4, BegunEmpty
<1>2. ASSUME d.point = "ResumeFromToolDispatching", NEW drift
      PROVE  TaskMatched(lg, d.turn, FromToolDispatching(m, d.pending, drift))
    <2> DEFINE pend == d.pending
    <2>1. SettledBut(lg, d.turn, Ids(pend)) /\ Increasing(pend)
        BY <1>2, RestartSettled
    <2>2. \E pc \in {"Failing", "ToolDispatching"} : FromToolDispatching(m, pend, drift) = Task(pc, m, pend)
        BY DEF FromToolDispatching
    <2> HIDE DEF pend
    <2>3. \A pc \in {"Failing", "ToolDispatching"} : TaskMatched(lg, d.turn, Task(pc, m, pend))
        BY <2>1, BegunTask
    <2> QED
        BY <2>2, <2>3 DEF pend
<1> QED
    BY <1>1, <1>2

LEMMA StartMatch == SessionInv /\ CallsInv /\ MatchInv /\ Start => MatchInv'
<1> SUFFICES ASSUME SessionInv, CallsInv, MatchInv, Start
             PROVE  MatchInv'
    OBVIOUS
<1> DEFINE d == Replay(log)
           t == d.turn
           m == CountModelCalls(log, t)
<1>1. NewActor
    BY DEF Start, StartIdle, StartFails, StartTurn, StartPaused, StartAfterJob
<1>2. results = <<>> /\ log \in Seq(Event) /\ t \in Nat
    BY <1>1, NewActorFinds
<1>3. /\ Held(log, drivers, results, inFlight) /\ CallsHeld(log, DOMAIN jobs, drivers, results, inFlight, mode)
      /\ MatchHeld(log, drivers, results) /\ MatchedLog(log)
      /\ LogOK(log) /\ OfStartedTurns(log) /\ EndsAreLast(log)
    BY DEF SessionInv, CallsInv, MatchInv, MatchHeld, CallsHeld, Held, HoldersStarted
<1>4. \A n \in DOMAIN results : results[n].turn # t /\ OutcomeMatched(log, results[n])
    BY <1>2
<1>5. d = Replay(log) /\ t = d.turn /\ m = CountModelCalls(log, t)
    OBVIOUS
<1> HIDE DEF d, t, m
<1>6. CASE StartIdle \/ StartFails \/ StartPaused
    BY <1>6, QuietMatch
<1>7. CASE StartTurn
    <2>1. \E x : Spawn(t, x) /\ TaskMatched(log, t, x)
        <3>1. CASE d.point = "ResumeFromModelCompleted" /\ Spawn(t, FromModelCompleted(m))
            BY <1>2, <1>3, <1>5, <3>1, TakenUpTask
        <3>2. CASE /\ d.point = "ResumeFromToolDispatching"
                   /\ \E drift : Spawn(t, FromToolDispatching(m, d.pending, drift))
            <4>1. PICK drift : Spawn(t, FromToolDispatching(m, d.pending, drift))
                BY <3>2
            <4>2. TaskMatched(log, t, FromToolDispatching(m, d.pending, drift))
                BY <1>2, <1>3, <1>5, <3>2, TakenUpTask
            <4> QED
                BY <4>1, <4>2
        <3> QED
            BY <1>5, <1>7, <3>1, <3>2 DEF StartTurn
    <2>2. PICK x : Spawn(t, x) /\ TaskMatched(log, t, x)
        BY <2>1
    <2>3. log' = log /\ results' = results
        BY <1>7 DEF StartTurn
    <2>4. ChangedAt(drivers, drivers', t) /\ drivers'[t] = x
        BY <2>2 DEF Spawn, ChangedAt
    <2>5. MatchHeld(log, drivers', results)
        BY <1>3, <1>4, <2>2, <2>4, MatchTasks
    <2> QED
        BY <2>3, <2>5 DEF MatchInv
<1>8. CASE StartAfterJob
    <2> DEFINE x == FromToolDispatching(m, <<>>, FALSE)
               c == d.call
               es == [u \in DOMAIN drivers \cup {t} |-> IF u = t THEN x ELSE drivers[u]]
    <2>1. /\ log' = IF c \in Answered(log) THEN log ELSE Append(log, ToolResult(t, c))
          /\ drivers' = es /\ results' = results /\ d.point = "ResumeAfterJobCompletion"
        BY <1>5, <1>8 DEF StartAfterJob, Spawn, Record
    <2>2. PICK p \in Pauses(log) : log[p] = TurnPaused(t, d.job) /\ c = LookupCallId(log, d.job) /\ Done(log, p)
        BY <1>2, <1>3, <1>5, <2>1, PausedPoints
    <2>3. SettledBut(log, t, {c})
        BY <1>3, <2>2, PausedSettled
    <2>4. x = FromToolDispatching(m, <<>>, FALSE)
        OBVIOUS
    <2>5. \A lg : SettledBut(lg, t, {}) => TaskMatched(lg, t, x)
        BY BegunEmpty
    <2> HIDE DEF x, c
    <2>6. ChangedAt(drivers, es, t) /\ es[t] = x
        BY DEF ChangedAt
    <2> HIDE DEF es
    <2>7. CASE c \in Answered(log)
        <3>1. SettledBut(log, t, {})
            BY <2>3, <2>7 DEF SettledBut, Settled
        <3>2. TaskMatched(log, t, es[t])
            BY <2>5, <2>6, <3>1
        <3>3. MatchHeld(log, es, results)
            BY <1>3, <1>4, <2>6, <3>2, MatchTasks
        <3> QED
            BY <2>1, <2>7, <3>3 DEF MatchInv
    <2>8. CASE c \notin Answered(log)
        <3>1. c \in Nat /\ Fits(log, ToolResult(t, c))
            BY <1>2, <1>3, <2>2, <2>8, CompletedFits
        <3>2. es[t] = FromToolDispatching(m, <<>>, FALSE)
            BY <2>4, <2>6, Zenon
        <3>3. MatchHeld(Append(log, ToolResult(t, c)), es, results)
            BY <1>2, <1>3, <1>4, <2>3, <2>6, <3>1, <3>2, MatchAnswer
        <3> QED
            BY <2>1, <2>8, <3>3 DEF MatchInv
    <2> QED
        BY <2>7, <2>8
<1> QED
    BY <1>6, <1>7, <1>8 DEF Start

-----------------------------------------------------------------------------
(* The theorem.                                                            *)

\* Every step keeps it.
LEMMA MatchStep == SessionInv /\ CallsInv /\ MatchInv /\ [Next]_vars => MatchInv'
<1>1. SessionInv /\ CallsInv /\ MatchInv /\ ActorStep => MatchInv'
    BY TakeOutcomeMatch, StartHeldInputMatch, JobCompletedMatch, QuietMatch, EndMatch DEF ActorStep
<1> QED
    BY <1>1, StartMatch, TurnStepMatch, QuietMatch, EndMatch DEF Next

\* The invariant holds throughout.
LEMMA MatchInvAlways == Spec => []MatchInv
BY MatchInit, MatchStep, SessionInvAlways, CallsInvAlways, PTL DEF Spec

\* Every tool call of a turn has its result before the turn's next model call, or is
\* dropped behind one that became a job: over cut streams, drift, failed validations,
\* crashes and restarts, which dispatch again what the log holds no result of.
THEOREM SessionMatchedUnlessBehindJob == Spec => []MatchedUnlessBehindJob
<1>1. SessionInv /\ MatchInv => MatchedUnlessBehindJob
    <2> SUFFICES ASSUME SessionInv, MatchInv
                 PROVE  MatchedUnlessBehindJob
        OBVIOUS
    <2>1. MatchedLog(log) /\ Len(log) \in Nat /\ DOMAIN log = 1..Len(log)
        BY DEF SessionInv, Held, Shaped, MatchInv, MatchHeld
    <2> SUFFICES ASSUME NEW m \in Openings(log), NEW u \in 1..(m - 1),
                        log[u].type = "ToolUseRecorded", log[u].turn = log[m].turn
                 PROVE  \/ \E r \in (u + 1)..(m - 1) : log[r] = ToolResult(log[u].turn, log[u].key)
                        \/ \E i \in Submissions(log), k \in 1..(u - 1) :
                              log[k].type = "ToolUseRecorded" /\ log[k].key = log[i].key
                              /\ log[k].turn = log[m].turn
        BY DEF MatchedUnlessBehindJob, Openings, Submissions
    <2>2. m \in 1..Len(log) /\ u \in Uses(log) /\ u < m /\ u \in 1..Len(log)
        BY <2>1 DEF Openings, Uses, Positions
    <2>3. AnsweredBetween(log, u, m) \/ Behind(log, u)
        BY <2>1, <2>2 DEF MatchedLog, Matched
    <2>4. CASE AnsweredBetween(log, u, m)
        <3>1. PICK r \in Answers(log) : u < r /\ r < m /\ log[r].turn = log[u].turn /\ log[r].key = log[u].key
            BY <2>4 DEF AnsweredBetween
        <3>2. r \in (u + 1)..(m - 1)
            BY <2>1, <2>2, <3>1 DEF Answers, Positions
        <3>3. log[r] = ToolResult(log[u].turn, log[u].key)
            BY <2>1, <3>1 DEF MatchedLog, AnswersPlain
        <3> QED
            BY <3>2, <3>3
    <2>5. CASE Behind(log, u)
        <3>1. PICK i \in Submissions(log), k \in Uses(log) :
                  k < u /\ log[k].key = log[i].key /\ log[k].turn = log[u].turn
            BY <2>5 DEF Behind
        <3>2. k \in 1..(u - 1) /\ log[k].type = "ToolUseRecorded"
            BY <2>1, <2>2, <3>1 DEF Uses, Positions
        <3> QED
            BY <3>1, <3>2
    <2> QED
        BY <2>3, <2>4, <2>5
<1> QED
    BY <1>1, SessionInvAlways, MatchInvAlways, PTL

-----------------------------------------------------------------------------
(* A log that can be taken up.                                             *)

\* The last turn has not ended.
TurnOpen(lg) == \E s \in Begins(lg) : \A k \in Ends(lg) : k < s

\* The response the model is streaming has made a call.
CallsLast(lg) == \E u \in Uses(lg) : \A m \in Openings(lg) : m < u

\* A model call that says it made calls did: they come after it was started.
SealsTell(lg) ==
    \A s \in Seals(lg) : lg[s].info = "ToolUse" =>
        \E u \in Uses(lg) : u < s /\ \A m \in Openings(lg) : m < s => m < u

\* Only an end closes a turn, and what is no start of a turn opens none.
LEMMA AppendOpen ==
    ASSUME NEW lg \in Seq(Event), NEW e \in Event, e.type # "TurnStarted"
    PROVE  /\ TurnOpen(Append(lg, e)) => TurnOpen(lg)
           /\ e.type \in {"TurnCompleted", "TurnFailed"} => ~TurnOpen(Append(lg, e))
<1> DEFINE kg == Append(lg, e)
<1>1. Begins(kg) = Begins(lg) /\ Begins(lg) \in SUBSET (1..Len(lg)) /\ Len(lg) \in Nat
    BY GrownBy, AppendEvents
<1>2. Ends(kg) = IF e.type \in {"TurnCompleted", "TurnFailed"} THEN Ends(lg) \cup {Len(lg) + 1} ELSE Ends(lg)
    BY GrownBy
<1> HIDE DEF kg
<1>3. TurnOpen(kg) => TurnOpen(lg)
    BY <1>1, <1>2 DEF TurnOpen
<1>4. ASSUME e.type \in {"TurnCompleted", "TurnFailed"}
      PROVE  ~TurnOpen(kg)
    <2>1. Len(lg) + 1 \in Ends(kg) /\ \A s \in Begins(kg) : ~(Len(lg) + 1 < s)
        BY <1>1, <1>2, <1>4
    <2> QED
        BY <2>1 DEF TurnOpen
<1> QED
    BY <1>3, <1>4 DEF kg

\* A turn that starts when the last has ended is not nested, nor is one nested by other events.
LEMMA AppendNested ==
    ASSUME NEW lg \in Seq(Event), NEW e \in Event, ~NestedTurnStarted(lg),
           e.type = "TurnStarted" => ~TurnOpen(lg)
    PROVE  ~NestedTurnStarted(Append(lg, e))
<1> DEFINE kg == Append(lg, e)
<1>1. /\ Begins(kg) = IF e.type = "TurnStarted" THEN Begins(lg) \cup {Len(lg) + 1} ELSE Begins(lg)
      /\ Begins(lg) \in SUBSET (1..Len(lg)) /\ Len(lg) \in Nat
    BY GrownBy, AppendEvents
<1>2. Ends(lg) \subseteq Ends(kg) /\ Ends(lg) \in SUBSET (1..Len(lg))
    BY GrownBy
<1>3. \A i, j \in Begins(lg) : i < j => \E k \in Ends(lg) : i <= k /\ k <= j
    <2>1. ~\E i, j \in Begins(lg) : i < j /\ \A k \in Ends(lg) : k < i \/ j < k
        BY DEF NestedTurnStarted, Begins, Ends
    <2>2. \A i \in Begins(lg), k \in Ends(lg) : i \in Nat /\ k \in Nat
        BY <1>1, <1>2
    <2> QED
        BY <2>1, <2>2
<1>4. e.type = "TurnStarted" => \A i \in Begins(lg) : \E k \in Ends(lg) : i <= k /\ k <= Len(lg) + 1
    BY <1>1, <1>2 DEF TurnOpen
<1> HIDE DEF kg
<1>5. \A i, j \in Begins(kg) : i < j => \E k \in Ends(kg) : i <= k /\ k <= j
    <2> SUFFICES ASSUME NEW i \in Begins(kg), NEW j \in Begins(kg), i < j
                 PROVE  \E k \in Ends(kg) : i <= k /\ k <= j
        OBVIOUS
    <2>1. CASE j \in Begins(lg)
        <3>1. i \in Begins(lg)
            BY <1>1, <2>1
        <3> QED
            BY <1>2, <1>3, <2>1, <3>1
    <2>2. CASE j \notin Begins(lg)
        <3>1. e.type = "TurnStarted" /\ j = Len(lg) + 1 /\ i \in Begins(lg)
            BY <1>1, <2>2
        <3> QED
            BY <1>2, <1>4, <3>1
    <2> QED
        BY <2>1, <2>2
<1>6. \A i \in Begins(kg), k \in Ends(kg) : i \in Nat /\ k \in Nat
    <2>1. Begins(kg) \subseteq Nat /\ Ends(kg) \subseteq Nat
        BY <1>1, <1>2, GrownBy DEF kg
    <2> QED
        BY <2>1
<1>7. ~NestedTurnStarted(kg)
    BY <1>5, <1>6 DEF NestedTurnStarted, Begins, Ends
<1> QED
    BY <1>7 DEF kg

\* The calls of the response that is streamed.
LEMMA AppendCalls ==
    ASSUME NEW lg \in Seq(Event), NEW e \in Event
    PROVE  /\ e.type = "ToolUseRecorded" => CallsLast(Append(lg, e))
           /\ e.type # "ModelCallStarted" /\ CallsLast(lg) => CallsLast(Append(lg, e))
<1> DEFINE kg == Append(lg, e)
<1>1. /\ Openings(kg) = IF e.type = "ModelCallStarted" THEN Openings(lg) \cup {Len(lg) + 1} ELSE Openings(lg)
      /\ Openings(lg) \in SUBSET (1..Len(lg)) /\ Len(lg) \in Nat
    BY GrownBy, AppendEvents
<1>2. Uses(kg) = IF e.type = "ToolUseRecorded" THEN Uses(lg) \cup {Len(lg) + 1} ELSE Uses(lg)
    BY GrownBy
<1> HIDE DEF kg
<1>3. e.type = "ToolUseRecorded" => CallsLast(kg)
    <2> SUFFICES ASSUME e.type = "ToolUseRecorded"
                 PROVE  CallsLast(kg)
        OBVIOUS
    <2>1. Len(lg) + 1 \in Uses(kg) /\ Openings(kg) = Openings(lg)
        BY <1>1, <1>2
    <2>2. \A m \in Openings(lg) : m < Len(lg) + 1
        BY <1>1
    <2> QED
        BY <2>1, <2>2 DEF CallsLast
<1>4. e.type # "ModelCallStarted" /\ CallsLast(lg) => CallsLast(kg)
    <2> SUFFICES ASSUME e.type # "ModelCallStarted", CallsLast(lg)
                 PROVE  CallsLast(kg)
        OBVIOUS
    <2>1. Uses(lg) \subseteq Uses(kg) /\ Openings(kg) = Openings(lg)
        BY <1>1, <1>2
    <2> QED
        BY <2>1 DEF CallsLast
<1> QED
    BY <1>3, <1>4 DEF kg

\* A model call may end with calls when its response has made some.
LEMMA AppendTell ==
    ASSUME NEW lg \in Seq(Event), NEW e \in Event, SealsTell(lg),
           e.type = "ModelCallCompleted" /\ e.info = "ToolUse" => CallsLast(lg)
    PROVE  SealsTell(Append(lg, e))
<1> DEFINE kg == Append(lg, e)
<1>1. /\ Openings(kg) \subseteq Openings(lg) \cup {Len(lg) + 1}
      /\ Openings(lg) \in SUBSET (1..Len(lg)) /\ Len(lg) \in Nat
    BY GrownBy, AppendEvents
<1>2. Uses(lg) \subseteq Uses(kg) /\ Uses(lg) \in SUBSET (1..Len(lg))
    BY GrownBy
<1>3. /\ Seals(kg) = IF e.type = "ModelCallCompleted" THEN Seals(lg) \cup {Len(lg) + 1} ELSE Seals(lg)
      /\ Seals(lg) \in SUBSET (1..Len(lg))
    BY GrownBy
<1>4. (\A i \in 1..Len(lg) : kg[i] = lg[i]) /\ kg[Len(lg) + 1] = e
    BY AppendEvents
<1> HIDE DEF kg
<1>5. ASSUME NEW s \in Seals(kg), kg[s].info = "ToolUse"
      PROVE  \E u \in Uses(kg) : u < s /\ \A m \in Openings(kg) : m < s => m < u
    <2>1. CASE s \in Seals(lg)
        <3>1. s \in 1..Len(lg) /\ lg[s].info = "ToolUse"
            BY <1>3, <1>4, <1>5, <2>1
        <3>2. PICK u \in Uses(lg) : u < s /\ \A m \in Openings(lg) : m < s => m < u
            BY <2>1, <3>1 DEF SealsTell
        <3> QED
            BY <1>1, <1>2, <3>1, <3>2
    <2>2. CASE s \notin Seals(lg)
        <3>1. s = Len(lg) + 1 /\ e.type = "ModelCallCompleted" /\ e.info = "ToolUse"
            BY <1>3, <1>4, <1>5, <2>2
        <3>2. PICK u \in Uses(lg) : \A m \in Openings(lg) : m < u
            BY <3>1 DEF CallsLast
        <3> QED
            BY <1>1, <1>2, <3>1, <3>2
    <2> QED
        BY <2>1, <2>2
<1>6. SealsTell(kg)
    BY <1>5 DEF SealsTell
<1> QED
    BY <1>6 DEF kg

\* The last boundary, and what the log is taken for by it.
LEMMA LastBoundaryIs ==
    ASSUME NEW lg \in Seq(Event)
    PROVE  LET b == LastBoundary(lg) IN
           /\ DOMAIN lg = 1..Len(lg) /\ Len(lg) \in Nat
           /\ \/ b = 0 /\ \A k \in DOMAIN lg : lg[k].type \notin Boundaries
              \/ /\ b \in DOMAIN lg /\ b # 0 /\ lg[b].type \in Boundaries
                 /\ \A k \in DOMAIN lg : lg[k].type \in Boundaries => k <= b
           /\ Replay(lg) = IF StrayJobCompletion(lg) \/ NestedTurnStarted(lg) THEN Malformed
                           ELSE IF b = 0 \/ lg[b].type \in {"TurnCompleted", "TurnFailed"} THEN Fresh
                           ELSE IF lg[b].type = "TurnPaused" THEN ResumeFromTurnPaused(lg, b)
                           ELSE ResumeFromTurnStarted(lg, b)
<1> DEFINE b == LastBoundary(lg)
<1>1. /\ Len(lg) \in Nat /\ DOMAIN lg = 1..Len(lg)
      /\ Positions(lg, Boundaries) \in SUBSET (1..Len(lg))
    BY DEF Positions
<1>2. \/ b = 0 /\ \A k \in DOMAIN lg : lg[k].type \notin Boundaries
      \/ /\ b \in DOMAIN lg /\ b # 0 /\ lg[b].type \in Boundaries
         /\ \A k \in DOMAIN lg : lg[k].type \in Boundaries => k <= b
    <2> DEFINE S == Positions(lg, Boundaries)
    <2>1. \A k : k \in S <=> k \in DOMAIN lg /\ lg[k].type \in Boundaries
        BY DEF Positions
    <2>2. b = Latest(S)
        BY DEF LastBoundary
    <2> HIDE DEF S, b
    <2>3. (S = {} => b = 0) /\ (S # {} => b \in S /\ \A k \in S : k <= b)
        BY <1>1, <2>2, LatestIsLast DEF S
    <2>4. S # {} => b # 0
        BY <1>1, <2>1, <2>3
    <2> QED
        BY <2>1, <2>3, <2>4
<1>3. Replay(lg) = IF StrayJobCompletion(lg) \/ NestedTurnStarted(lg) THEN Malformed
                   ELSE IF b = 0 \/ lg[b].type \in {"TurnCompleted", "TurnFailed"} THEN Fresh
                   ELSE IF lg[b].type = "TurnPaused" THEN ResumeFromTurnPaused(lg, b)
                   ELSE ResumeFromTurnStarted(lg, b)
    BY DEF Replay, LastBoundary
<1> HIDE DEF b
<1> QED
    BY <1>1, <1>2, <1>3 DEF b

\* The points a log with an open turn is taken for.
LEMMA OpenPoints ==
    ASSUME NEW lg, NEW b
    PROVE  /\ ResumeFromTurnPaused(lg, b).point # "FreshTurn"
           /\ ResumeFromTurnStarted(lg, b).point # "FreshTurn"
<1>1. \E t, p, j, c : ResumeFromTurnPaused(lg, b) \in
          {Malformed, Decision("ResumePausedJob", t, p, j, c), Decision("ResumeAfterJobCompletion", t, p, j, c)}
    BY Zenon DEF ResumeFromTurnPaused
<1>2. \E t, p : ResumeFromTurnStarted(lg, b) \in
          {Malformed, Decision("RestartCurrentTurn", t, <<>>, None, None),
           Decision("ResumeFromModelCompleted", t, <<>>, None, None),
           Decision("ResumeFromToolDispatching", t, p, None, None)}
    BY Zenon DEF ResumeFromTurnStarted
<1>3. Malformed.point # "FreshTurn"
    BY DEF Malformed, Decision
<1>4. \A t, p, j, c : /\ Decision("ResumePausedJob", t, p, j, c).point # "FreshTurn"
                      /\ Decision("ResumeAfterJobCompletion", t, p, j, c).point # "FreshTurn"
                      /\ Decision("RestartCurrentTurn", t, p, j, c).point # "FreshTurn"
                      /\ Decision("ResumeFromModelCompleted", t, p, j, c).point # "FreshTurn"
                      /\ Decision("ResumeFromToolDispatching", t, p, j, c).point # "FreshTurn"
    BY DEF Decision
<1> QED
    BY <1>1, <1>2, <1>3, <1>4

\* A log that needs nothing done has no open turn.
LEMMA FreshIsClosed ==
    ASSUME NEW lg \in Seq(Event), Replay(lg).point = "FreshTurn"
    PROVE  ~TurnOpen(lg)
<1> DEFINE b == LastBoundary(lg)
<1>1. Malformed.point # "FreshTurn"
    BY DEF Malformed, Decision
<1>2. b = 0 \/ lg[b].type \in {"TurnCompleted", "TurnFailed"}
    BY <1>1, LastBoundaryIs, OpenPoints
<1>3. CASE b = 0
    <2>1. \A k \in DOMAIN lg : lg[k].type # "TurnStarted"
        BY <1>3, LastBoundaryIs DEF Boundaries
    <2> QED
        BY <2>1 DEF TurnOpen, Begins, Positions
<1>4. CASE b # 0
    <2>1. b \in Ends(lg) /\ b \in DOMAIN lg /\ DOMAIN lg = 1..Len(lg) /\ Len(lg) \in Nat
        BY <1>2, <1>4, LastBoundaryIs DEF Ends, Positions
    <2>2. \A s \in Begins(lg) : s <= b /\ s \in 1..Len(lg)
        BY <1>4, <2>1, LastBoundaryIs DEF Begins, Positions, Boundaries
    <2> HIDE DEF b
    <2> QED
        BY <2>1, <2>2 DEF TurnOpen
<1> QED
    BY <1>3, <1>4

\* A job that is paused on has its call.
LEMMA PauseHasCall ==
    ASSUME NEW lg \in Seq(Event), UsesOK(lg), PausesOK(lg), NEW p \in Pauses(lg)
    PROVE  CallOf(lg, p) # None
<1>1. PICK u \in Uses(lg) : lg[u].key = CallOf(lg, p)
    BY DEF PausesOK, UsedBefore
<1> QED
    BY <1>1 DEF UsesOK, None

\* A log the session wrote can be taken up, if no turn was started inside another.
LEMMA CanBeTakenUp ==
    ASSUME NEW lg \in Seq(Event), LogOK(lg), SealsTell(lg), ~NestedTurnStarted(lg)
    PROVE  /\ Replay(lg).point # "Malformed"
           /\ Replay(lg).point = "ResumePausedJob" => Replay(lg).call # None
<1> DEFINE b == LastBoundary(lg)
           o == Latest({i \in Positions(lg, {"ModelCallStarted"}) : i > b})
           s == Latest({i \in Positions(lg, {"ModelCallCompleted"}) : i > b})
           answers == {lg[i].key : i \in {k \in Positions(lg, {"ToolResultRecorded"}) : k > s}}
           open == {i \in Positions(lg, {"ToolUseRecorded"}) : o < i /\ i < s /\ lg[i].key \notin answers}
<1>1. Fresh.point # "Malformed"
    BY DEF Fresh, Decision
<1>2. \A t, p, j, c : /\ Decision("ResumePausedJob", t, p, j, c).point # "Malformed"
                      /\ Decision("ResumeAfterJobCompletion", t, p, j, c).point # "Malformed"
                      /\ Decision("RestartCurrentTurn", t, p, j, c).point # "Malformed"
                      /\ Decision("ResumeFromModelCompleted", t, p, j, c).point # "Malformed"
                      /\ Decision("ResumeFromToolDispatching", t, p, j, c).point # "Malformed"
    BY DEF Decision
<1>3. DOMAIN lg = 1..Len(lg) /\ Len(lg) \in Nat
    BY LastBoundaryIs
<1>4. ~StrayJobCompletion(lg)
    <2> SUFFICES ASSUME StrayJobCompletion(lg)
                 PROVE  FALSE
        OBVIOUS
    <2>1. /\ lg # <<>> /\ lg[Len(lg)].type = "JobCompletedRecorded"
          /\ \A i \in Pauses(lg) : lg[i].job # lg[Len(lg)].job
        BY DEF StrayJobCompletion, Pauses
    <2>2. Len(lg) \in Completions(lg)
        BY <1>3, <2>1 DEF Completions, Positions
    <2>3. PICK p \in Pauses(lg) : lg[p] = TurnPaused(lg[Len(lg)].turn, lg[Len(lg)].job)
        BY <2>2 DEF LogOK, CompletionsOK
    <2>4. lg[p].job = lg[Len(lg)].job
        BY <2>3 DEF TurnPaused, Ev
    <2> QED
        BY <2>1, <2>4
<1>5. ASSUME b \in DOMAIN lg, lg[b].type = "TurnPaused"
      PROVE  /\ ResumeFromTurnPaused(lg, b).point # "Malformed"
             /\ ResumeFromTurnPaused(lg, b).call # None
    <2>1. b \in Pauses(lg)
        BY <1>5 DEF Pauses, Positions
    <2>2. LookupCallId(lg, lg[b].job) # None
        BY <2>1, PauseHasCall DEF LogOK, CallOf
    <2>3. ResumeFromTurnPaused(lg, b) \in
              {Decision("ResumePausedJob", lg[b].turn, <<>>, lg[b].job, LookupCallId(lg, lg[b].job)),
               Decision("ResumeAfterJobCompletion", lg[b].turn, <<>>, lg[b].job, LookupCallId(lg, lg[b].job))}
        BY <2>2 DEF ResumeFromTurnPaused
    <2>4. ResumeFromTurnPaused(lg, b).call = LookupCallId(lg, lg[b].job)
        BY <2>3 DEF Decision
    <2> QED
        BY <1>2, <2>2, <2>3, <2>4
<1>6. ASSUME b \in DOMAIN lg
      PROVE  ResumeFromTurnStarted(lg, b).point # "Malformed"
    <2> DEFINE f == InOrder(open)
               pend == [n \in DOMAIN f |-> [id |-> lg[f[n]].key, ok |-> lg[f[n]].info = "valid"]]
    <2>1. ResumeFromTurnStarted(lg, b) =
              IF o = 0 \/ o > s
              THEN Decision("RestartCurrentTurn", lg[b].turn, <<>>, None, None)
              ELSE IF pend = <<>> /\ answers = {}
              THEN IF lg[s].info = "ToolUse"
                   THEN Malformed
                   ELSE Decision("ResumeFromModelCompleted", lg[b].turn, <<>>, None, None)
              ELSE Decision("ResumeFromToolDispatching", lg[b].turn, pend, None, None)
        BY Zenon DEF ResumeFromTurnStarted
    <2>2. ~(~(o = 0 \/ o > s) /\ pend = <<>> /\ answers = {} /\ lg[s].info = "ToolUse")
        <3> SUFFICES ASSUME o # 0, ~(o > s), pend = <<>>, answers = {}, lg[s].info = "ToolUse"
                     PROVE  FALSE
            OBVIOUS
        <3> DEFINE O == {i \in Openings(lg) : i > b}
                   S == {i \in Seals(lg) : i > b}
        <3>1. o = Latest(O) /\ s = Latest(S)
            BY DEF Openings, Seals, Positions
        <3>2. O \in SUBSET (1..Len(lg)) /\ S \in SUBSET (1..Len(lg))
            BY <1>3 DEF Openings, Seals, Positions
        <3>3. (\A m \in Openings(lg) : m > b => m \in O) /\ O \subseteq Openings(lg) /\ S \subseteq Seals(lg)
            OBVIOUS
        <3>4. DOMAIN f = {} /\ f = InOrder(open) /\ Len(lg) \in Nat
            <4>1. DOMAIN pend = DOMAIN f
                OBVIOUS
            <4> HIDE DEF f, pend, answers, open, o, s, O, S
            <4>2. DOMAIN pend = {}
                OBVIOUS
            <4>3. f = InOrder(open)
                BY DEF f
            <4> QED
                BY <1>3, <4>1, <4>2, <4>3
        <3> HIDE DEF o, s, O, S, f, pend, answers
        <3>a. o \in O /\ (\A m \in O : m <= o) /\ o \in 1..Len(lg)
            <4>1. o \in O /\ \A m \in O : m <= o
                BY <3>1, <3>2, <3>4, LatestIsLast
            <4> QED
                BY <3>2, <4>1
        <3>b. s \in 0..Len(lg) /\ (s # 0 => s \in S)
            BY <3>1, <3>2, <3>4, LatestIsLast
        <3>c. s # 0
            BY <3>4, <3>a, <3>b
        <3>d. s \in S /\ s \in 1..Len(lg)
            BY <3>2, <3>b, <3>c
        <3>5. PICK u \in Uses(lg) : u < s /\ \A m \in Openings(lg) : m < s => m < u
            BY <3>3, <3>d DEF SealsTell
        <3>6. o # s
            BY <3>3, <3>a, <3>d DEF Openings, Seals, Positions
        <3>7. o < s /\ o < u
            <4>1. o < s
                BY <3>6, <3>a, <3>d
            <4> QED
                BY <3>3, <3>5, <3>a, <4>1
        <3>8. u \in open
            BY <3>5, <3>7 DEF Uses, answers
        <3>9. open \in SUBSET (1..Len(lg))
            BY <1>3 DEF Positions
        <3> HIDE DEF open
        <3>10. f \in [1..Cardinality(open) -> open] /\ \E k \in 1..Cardinality(open) : f[k] = u
            BY <3>4, <3>8, <3>9, InOrderAscends
        <3>11. DOMAIN f # {}
            BY <3>10
        <3> QED
            BY <3>4, <3>11
    <2> HIDE DEF pend, answers, o, s
    <2> QED
        BY <1>2, <2>1, <2>2
<1>7. /\ b = 0 \/ (b \in DOMAIN lg /\ lg[b].type \in Boundaries)
      /\ Replay(lg) = IF StrayJobCompletion(lg) \/ NestedTurnStarted(lg) THEN Malformed
                      ELSE IF b = 0 \/ lg[b].type \in {"TurnCompleted", "TurnFailed"} THEN Fresh
                      ELSE IF lg[b].type = "TurnPaused" THEN ResumeFromTurnPaused(lg, b)
                      ELSE ResumeFromTurnStarted(lg, b)
    BY LastBoundaryIs
<1>8. ResumeFromTurnStarted(lg, b).point # "ResumePausedJob"
    <2>1. \E t, p : ResumeFromTurnStarted(lg, b) \in
              {Malformed, Decision("RestartCurrentTurn", t, <<>>, None, None),
               Decision("ResumeFromModelCompleted", t, <<>>, None, None),
               Decision("ResumeFromToolDispatching", t, p, None, None)}
        BY Zenon DEF ResumeFromTurnStarted
    <2> QED
        BY <2>1 DEF Malformed, Decision
<1>9. Fresh.point # "ResumePausedJob"
    BY DEF Fresh, Decision
<1> HIDE DEF b
<1> QED
    BY <1>1, <1>4, <1>5, <1>6, <1>7, <1>8, <1>9

\* The invariant.  While no turn was given up, none was started inside another, and
\* the last is in some hand or has ended; there is one task.
Worked == DOMAIN drivers # {} \/ results # <<>> \/ is_paused

ReadableInv ==
    /\ mode = "failed" => abandoned # {}
    /\ SealsTell(log)
    /\ abandoned = {} => ~NestedTurnStarted(log)
    /\ abandoned = {} /\ mode \in Alive => Worked \/ ~TurnOpen(log)
    /\ \A t \in DOMAIN drivers :
        /\ drivers[t].pc \in {"Completed", "Failed"} => ~TurnOpen(log)
        /\ drivers[t].pc = "ModelCalling" /\ drivers[t].todo # <<>> => CallsLast(log)
        /\ \A u \in DOMAIN drivers : t = u
    /\ \A n \in DOMAIN results : results[n].outcome # "Paused" => ~TurnOpen(log)

\* A step of a task that neither posts nor reads the stream.
LEMMA TaskSilent ==
    ASSUME SessionInv, NEW t \in DOMAIN drivers, NEW listening \in BOOLEAN,
           DriverStep(t, incarnation, listening), ~PostOutcome(t, listening),
           ~OpenStream(t), ~DemuxToolUse(t), ~DemuxMessageCompleted(t)
    PROVE  /\ log' = log \/ \E f : log' = Append(log, f) /\ f.type # "ModelCallCompleted"
           /\ drivers'[t].pc # "ModelCalling"
<1>1. drivers \in [DOMAIN drivers -> Driver]
    BY InvTypes DEF SessionTypeOK, TurnTypeOK
<1>2. \A f \in {TurnFailed(t), ModelCallStarted(t), TurnCompleted(t)} : f.type # "ModelCallCompleted"
    BY DEF TurnFailed, ModelCallStarted, TurnCompleted, Ev
<1>3. \A c, j : ToolResult(t, c).type # "ModelCallCompleted" /\ JobSubmitted(t, c, j).type # "ModelCallCompleted"
    BY DEF ToolResult, JobSubmitted, Ev
<1>4. CASE RecordTurnFailed(t) \/ RecordModelCallStarted(t) \/ RecordTurnCompleted(t)
    <2>1. \E f \in {TurnFailed(t), ModelCallStarted(t), TurnCompleted(t)} : log' = Append(log, f)
        BY <1>4 DEF RecordTurnFailed, RecordModelCallStarted, RecordTurnCompleted, Record
    <2>2. drivers'[t].pc \in {"Failed", "Opening", "Completed"}
        BY <1>1, <1>4 DEF RecordTurnFailed, RecordModelCallStarted, RecordTurnCompleted, Goto, Driver
    <2> QED
        BY <1>2, <2>1, <2>2
<1>5. CASE InitTransit(t) \/ ContextManagedTransit(t) \/ DemuxEnd(t) \/ CountErrors(t) \/ DispatchDone(t)
    <2>1. log' = log
        BY <1>5 DEF InitTransit, ContextManagedTransit, DemuxEnd, CountErrors, DispatchDone
    <2>2. CASE InitTransit(t) \/ ContextManagedTransit(t) \/ DispatchDone(t)
        BY <1>1, <2>1, <2>2 DEF InitTransit, ContextManagedTransit, DispatchDone, Goto, Driver
    <2>3. CASE DemuxEnd(t)
        BY <1>1, <2>1, <2>3 DEF DemuxEnd, Goto, Driver
    <2>4. CASE CountErrors(t)
        BY <1>1, <2>1, <2>4 DEF CountErrors, Driver
    <2> QED
        BY <1>5, <2>2, <2>3, <2>4
<1>6. CASE Resolve(t)
    <2>1. drivers'[t].pc = "ModelCompleted"
        BY <1>1, <1>6 DEF Resolve, At, Driver
    <2>2. log' = log \/ \E c : log' = Append(log, ToolResult(t, c))
        BY <1>6 DEF Resolve, Record
    <2> QED
        BY <1>3, <2>1, <2>2
<1>7. CASE Invoke(t) \/ SubmitReturns(t) \/ PauseTurn(t) \/ RegisterSink(t, incarnation)
    <2>1. log' = log
        BY <1>7 DEF Invoke, SubmitReturns, PauseTurn, RegisterSink
    <2>2. CASE Invoke(t)
        <3>1. \/ drivers' = [drivers EXCEPT ![t].pc = "Invoked"]
              \/ \E j : drivers' = [drivers EXCEPT ![t].pc = "Submitting", ![t].job = j]
              \/ \E j : drivers' = [drivers EXCEPT ![t].pc = "Submitted", ![t].job = j]
            BY <2>2, Zenon DEF Invoke, Goto
        <3>a. drivers[t] \in Driver /\ t \in DOMAIN drivers
            BY <1>1
        <3>2. drivers'[t].pc \in {"Invoked", "Submitting", "Submitted"}
            <4>1. CASE drivers' = [drivers EXCEPT ![t].pc = "Invoked"]
                BY <3>a, <4>1 DEF Driver
            <4>2. CASE \E j : drivers' = [drivers EXCEPT ![t].pc = "Submitting", ![t].job = j]
                BY <3>a, <4>2 DEF Driver
            <4>3. CASE \E j : drivers' = [drivers EXCEPT ![t].pc = "Submitted", ![t].job = j]
                BY <3>a, <4>3 DEF Driver
            <4> QED
                BY <3>1, <4>1, <4>2, <4>3
        <3> QED
            BY <2>1, <3>2
    <2>3. CASE SubmitReturns(t) \/ PauseTurn(t)
        BY <1>1, <2>1, <2>3 DEF SubmitReturns, PauseTurn, Goto, Driver
    <2>4. CASE RegisterSink(t, incarnation)
        BY <1>1, <2>1, <2>4 DEF RegisterSink, Goto, Driver
    <2> QED
        BY <1>7, <2>2, <2>3, <2>4
<1>8. CASE RecordJobSubmitted(t) \/ RecordToolResult(t)
    <2>1. \E c, j : log' \in {Append(log, ToolResult(t, c)), Append(log, JobSubmitted(t, c, j))}
        BY <1>8 DEF RecordJobSubmitted, RecordToolResult, Record
    <2>2. drivers'[t].pc \in {"Registering", "ToolDispatching"}
        BY <1>1, <1>8 DEF RecordJobSubmitted, RecordToolResult, Goto, Driver
    <2> QED
        BY <1>3, <2>1, <2>2
<1> QED
    BY <1>4, <1>5, <1>6, <1>7, <1>8 DEF DriverStep

\* What a task writes of its calls is true, unless a model says it made calls that it
\* did not make.
LEMMA TaskTells ==
    ASSUME SessionInv, "stop" \notin Faults, NEW t \in DOMAIN drivers, NEW listening \in BOOLEAN,
           DriverStep(t, incarnation, listening), ~PostOutcome(t, listening), SealsTell(log),
           drivers[t].pc = "ModelCalling" /\ drivers[t].todo # <<>> => CallsLast(log)
    PROVE  /\ SealsTell(log')
           /\ drivers'[t].pc = "ModelCalling" /\ drivers'[t].todo # <<>> => CallsLast(log')
<1>1. drivers \in [DOMAIN drivers -> Driver] /\ log \in Seq(Event) /\ t \in Nat
    BY InvTypes DEF SessionTypeOK, TurnTypeOK
<1>2. ASSUME NEW f, log' = Append(log, f)
      PROVE  f \in Event
    <2>1. Silent(t) \/ Writes(t)
        BY InvTypes, TaskStep DEF SessionInv, Held
    <2>2. log' = log \/ \E e \in Event : log' = Append(log, e)
        BY <2>1 DEF Silent, Goes, Writes, Adds
    <2>3. Len(log) \in Nat /\ Len(Append(log, f)) = Len(log) + 1 /\ Append(log, f)[Len(log) + 1] = f
        BY <1>1
    <2>4. \A e \in Event : Append(log, e)[Len(log) + 1] = e
        BY <1>1
    <2> QED
        BY <1>2, <2>2, <2>3, <2>4
<1>3. CASE OpenStream(t)
    <2>1. log' = log /\ (drivers'[t].todo = <<>> \/ drivers'[t].pc = "Failing")
        BY <1>1, <1>3 DEF OpenStream, Goto, Driver
    <2> QED
        BY <2>1
<1>4. CASE DemuxToolUse(t)
    <2>1. PICK check \in Checks : log' = Append(log, ToolUse(t, FreshCall(log), check))
        BY <1>4 DEF DemuxToolUse
    <2> DEFINE e == ToolUse(t, FreshCall(log), check)
    <2>2. e \in Event /\ e.type = "ToolUseRecorded"
        BY <1>2, <2>1 DEF ToolUse, Ev
    <2> HIDE DEF e
    <2> QED
        BY <1>1, <2>1, <2>2, AppendCalls, AppendTell DEF e
<1>5. CASE DemuxMessageCompleted(t)
    <2>1. PICK stop \in StopReasons : /\ log' = Append(log, ModelCallCompleted(t, stop))
                                      /\ stop = "ToolUse" => drivers[t].todo # <<>>
        BY <1>5 DEF DemuxMessageCompleted
    <2>2. drivers[t].pc = "ModelCalling" /\ drivers'[t].pc = "Sealed"
        BY <1>1, <1>5 DEF DemuxMessageCompleted, At, Goto, Driver
    <2> DEFINE e == ModelCallCompleted(t, stop)
    <2>3. e \in Event /\ e.info = stop
        BY <1>2, <2>1 DEF ModelCallCompleted, Ev
    <2>4. log' = Append(log, e)
        BY <2>1
    <2> HIDE DEF e
    <2>5. SealsTell(Append(log, e))
        BY <1>1, <2>1, <2>2, <2>3, AppendTell
    <2> QED
        BY <2>2, <2>4, <2>5
<1>6. CASE ~OpenStream(t) /\ ~DemuxToolUse(t) /\ ~DemuxMessageCompleted(t)
    <2>1. /\ log' = log \/ \E f : log' = Append(log, f) /\ f.type # "ModelCallCompleted"
          /\ drivers'[t].pc # "ModelCalling"
        BY <1>6, TaskSilent
    <2>2. ASSUME NEW f, log' = Append(log, f), f.type # "ModelCallCompleted"
          PROVE  SealsTell(log')
        <3>1. f \in Event
            BY <1>2, <2>2
        <3> QED
            BY <1>1, <2>2, <3>1, AppendTell
    <2> QED
        BY <2>1, <2>2
<1> QED
    BY <1>3, <1>4, <1>5, <1>6

\* There is one task while the actor lives.
LEMMA OneTask == SessionInv /\ ControlInv /\ mode \in Alive => \A t, u \in DOMAIN drivers : t = u
BY OneHand DEF ControlInv

\* A task's step.
LEMMA TurnStepReadable == SessionInv /\ ReadableInv /\ "stop" \notin Faults /\ TurnStep => ReadableInv'
<1> SUFFICES ASSUME SessionInv, ReadableInv, "stop" \notin Faults, TurnStep
             PROVE  ReadableInv'
    OBVIOUS
<1>1. PICK t \in DOMAIN drivers : DriverStep(t, incarnation, mode \in Alive)
    BY DEF TurnStep
<1> DEFINE listening == mode \in Alive
<1>2. /\ mode' = mode /\ abandoned' = abandoned /\ (is_paused' <=> is_paused)
      /\ listening \in BOOLEAN /\ DriverStep(t, incarnation, listening)
      /\ listening <=> mode \in Alive
    BY <1>1 DEF TurnStep, sessionVars, actorVars, historyVars, is_paused
<1> HIDE DEF listening
<1>3. log \in Seq(Event) /\ results \in Seq(Result) /\ \A u \in DOMAIN drivers : u = t
    BY DEF SessionInv, Held, Shaped, ReadableInv
<1>4. CASE PostOutcome(t, listening)
    <2> DEFINE q == [turn |-> t, outcome |-> drivers[t].pc, job |-> drivers[t].job]
    <2>1. /\ log' = log /\ DOMAIN drivers' = {} /\ drivers[t].pc \in Outcomes
          /\ results' = IF listening THEN Append(results, q) ELSE results
        BY <1>3, <1>4 DEF PostOutcome
    <2>2. q.outcome # "Paused" => ~TurnOpen(log)
        BY <2>1 DEF ReadableInv, Outcomes
    <2>a. q \in Result
        BY <2>1 DEF SessionInv, Held, Shaped, TasksWellFormed, WellFormed, Driver, Result
    <2> HIDE DEF q
    <2>3. /\ mode \in Alive => results' # <<>>
          /\ \A n \in DOMAIN results' : results'[n] = q \/ (n \in DOMAIN results /\ results'[n] = results[n])
        <3>1. CASE listening
            <4>1. /\ Append(results, q) # <<>>
                  /\ \A n \in DOMAIN Append(results, q) :
                        Append(results, q)[n] = q \/ (n \in DOMAIN results /\ Append(results, q)[n] = results[n])
                BY <1>3, <2>a
            <4> QED
                BY <2>1, <3>1, <4>1
        <3>2. CASE ~listening
            BY <1>2, <2>1, <3>2
        <3> QED
            BY <3>1, <3>2
    <2>4. \A n \in DOMAIN results' : results'[n].outcome # "Paused" => ~TurnOpen(log)
        BY <2>2, <2>3 DEF ReadableInv
    <2>5. mode \in Alive => Worked'
        BY <2>3 DEF Worked
    <2> QED
        BY <1>2, <2>1, <2>4, <2>5 DEF ReadableInv
<1>5. CASE ~PostOutcome(t, listening)
    <2>1. /\ SealsTell(log')
          /\ drivers'[t].pc = "ModelCalling" /\ drivers'[t].todo # <<>> => CallsLast(log')
        BY <1>2, <1>5, TaskTells DEF ReadableInv
    <2>2. Silent(t) \/ Writes(t)
        BY <1>2, <1>5, InvTypes, TaskStep DEF SessionInv, Held
    <2>3. /\ DOMAIN drivers' = DOMAIN drivers /\ results' = results
          /\ TurnOpen(log') => TurnOpen(log)
          /\ drivers'[t].pc \in {"Completed", "Failed"} => ~TurnOpen(log')
          /\ abandoned = {} => ~NestedTurnStarted(log')
        <3>1. CASE Silent(t)
            <4>1. PICK d : Goes(t, d)
                BY <3>1 DEF Silent
            <4>2. DOMAIN drivers' = DOMAIN drivers /\ drivers'[t] = d
                BY <4>1 DEF Goes, SessionInv, Held, Shaped
            <4> QED
                BY <4>1, <4>2 DEF Goes, ReadableInv
        <3>2. CASE Writes(t)
            <4>1. PICK d, e : Adds(t, d, e)
                BY <3>2 DEF Writes
            <4>2. DOMAIN drivers' = DOMAIN drivers /\ drivers'[t] = d
                BY <4>1 DEF Adds, SessionInv, Held, Shaped
            <4>3. /\ e \in Event /\ log' = Append(log, e) /\ e.type # "TurnStarted" /\ results' = results
                  /\ d.pc \in {"Completed", "Failed"} => e.type \in {"TurnCompleted", "TurnFailed"}
                BY <4>1 DEF Adds
            <4> QED
                BY <1>3, <4>2, <4>3, AppendOpen, AppendNested DEF ReadableInv
        <3> QED
            BY <2>2, <3>1, <3>2
    <2>4. Worked'
        BY <1>1, <2>3 DEF Worked
    <2> QED
        BY <1>2, <1>3, <2>1, <2>3, <2>4 DEF ReadableInv
<1> QED
    BY <1>4, <1>5

\* A step that writes nothing and takes nothing up.
LEMMA QuietReadable ==
    ASSUME ReadableInv, UNCHANGED <<log, drivers, results, inFlight, abandoned>>,
           mode' = mode \/ (mode \in Alive /\ mode' \in Alive)
    PROVE  ReadableInv'
<1>1. (is_paused' <=> is_paused) /\ (Worked' <=> Worked)
    BY DEF is_paused, Worked
<1>2. mode' = "failed" => mode = "failed"
    BY DEF Alive, Handling
<1>3. mode' \in Alive => mode \in Alive
    OBVIOUS
<1> QED
    BY <1>1, <1>2, <1>3 DEF ReadableInv

\* A turn is given the one task there is.
LEMMA SpawnReadable ==
    ASSUME DOMAIN drivers = {}, DOMAIN results' = {}, NEW t, NEW d, Spawn(t, d),
           d.pc \notin {"Completed", "Failed", "ModelCalling"}, mode' # "failed",
           SealsTell(log'), abandoned' = {} => ~NestedTurnStarted(log')
    PROVE  ReadableInv'
<1>1. DOMAIN drivers' = {t} /\ drivers'[t] = d
    BY DEF Spawn
<1>2. Worked'
    BY <1>1 DEF Worked
<1> QED
    BY <1>1, <1>2 DEF ReadableInv

LEMMA TaskPcs ==
    /\ FreshLikeInit.pc = "Init"
    /\ \A n : FromModelCompleted(n).pc = "ModelCompleted"
    /\ \A n, pend, drift : FromToolDispatching(n, pend, drift).pc \in {"Failing", "ToolDispatching"}
<1>1. \A pc, n, pend : Task(pc, n, pend).pc = pc
    BY DEF Task
<1>2. \A n, pend, drift : FromToolDispatching(n, pend, drift) \in {Task("Failing", n, pend), Task("ToolDispatching", n, pend)}
    BY DEF FromToolDispatching
<1> QED
    BY <1>1, <1>2 DEF FreshLikeInit, FromModelCompleted

\* The events the actor and a restart write say nothing of a response.
LEMMA ActorEvents ==
    ASSUME NEW t \in Nat, NEW n \in Nat
    PROVE  /\ TurnPaused(t, n) \in Event /\ TurnFailed(t) \in Event /\ TurnStarted(t, n) \in Event
           /\ JobCompletedRecorded(t, n) \in Event /\ ToolResult(t, n) \in Event
           /\ TurnPaused(t, n).type = "TurnPaused" /\ TurnFailed(t).type = "TurnFailed"
           /\ TurnStarted(t, n).type = "TurnStarted"
           /\ JobCompletedRecorded(t, n).type = "JobCompletedRecorded"
           /\ ToolResult(t, n).type = "ToolResultRecorded"
<1>1. /\ TurnPaused(t, n) \in Event /\ TurnFailed(t) \in Event /\ TurnStarted(t, n) \in Event
      /\ JobCompletedRecorded(t, n) \in Event /\ ToolResult(t, n) \in Event
    BY EventTypesOK
<1> QED
    BY <1>1 DEF TurnPaused, TurnFailed, TurnStarted, JobCompletedRecorded, ToolResult, Ev

\* An event that starts no turn leaves the log readable.
LEMMA WrittenReadable ==
    ASSUME NEW lg \in Seq(Event), NEW e \in Event, e.type \notin {"ModelCallCompleted", "TurnStarted"},
           SealsTell(lg), abandoned = {} => ~NestedTurnStarted(lg)
    PROVE  /\ SealsTell(Append(lg, e)) /\ Append(lg, e) \in Seq(Event)
           /\ abandoned = {} => ~NestedTurnStarted(Append(lg, e))
<1>1. SealsTell(Append(lg, e))
    BY AppendTell
<1>2. abandoned = {} => ~NestedTurnStarted(Append(lg, e))
    BY AppendNested
<1> QED
    BY <1>1, <1>2, AppendEvents

\* A turn is started where none is open.
LEMMA BegunReadable ==
    ASSUME NEW lg \in Seq(Event), NEW n \in Nat, SealsTell(lg), NEW t, t \in Nat,
           abandoned = {} => ~NestedTurnStarted(lg) /\ ~TurnOpen(lg),
           DOMAIN drivers = {}, DOMAIN results' = {}, abandoned' = abandoned, mode' # "failed",
           log' = Append(lg, TurnStarted(t, n)), Spawn(t, FreshLikeInit)
    PROVE  ReadableInv'
<1> DEFINE e == TurnStarted(t, n)
<1>1. e \in Event /\ e.type = "TurnStarted"
    BY ActorEvents
<1> HIDE DEF e
<1>2. SealsTell(Append(lg, e)) /\ (abandoned = {} => ~NestedTurnStarted(Append(lg, e)))
    BY <1>1, AppendTell, AppendNested
<1>3. log' = Append(lg, e)
    BY DEF e
<1>4. FreshLikeInit.pc \notin {"Completed", "Failed", "ModelCalling"}
    BY TaskPcs
<1> QED
    BY <1>2, <1>3, <1>4, SpawnReadable

\* The input in hand is started.
LEMMA StartHeldInputReadable == SessionInv /\ ControlInv /\ ReadableInv /\ StartHeldInput => ReadableInv'
<1> SUFFICES ASSUME SessionInv, ControlInv, ReadableInv, StartHeldInput, NEW t, t = FreshTurn(log)
             PROVE  ReadableInv'
    OBVIOUS
<1>1. /\ mode = "starting" /\ mode' = "running" /\ log' = Append(log, TurnStarted(t, held))
      /\ Spawn(t, FreshLikeInit) /\ results' = results /\ abandoned' = abandoned
    BY DEF StartHeldInput, TryStartTurn, historyVars
<1>2. mode \in Alive /\ inFlight.kind = "None" /\ ~is_paused
    BY <1>1 DEF Alive, Handling, ControlInv, Flight, is_paused
<1>3. DOMAIN drivers = {} /\ DOMAIN results = {}
    BY <1>2, NoTurnRuns DEF ControlInv
<1>4. log \in Seq(Event) /\ held \in Nat /\ t \in Nat /\ results \in Seq(Result)
    <2>1. log \in Seq(Event) /\ held \in Nat /\ results \in Seq(Result)
        BY DEF SessionInv, Held, Shaped, AsideOK
    <2>2. TurnFailed(0) \in Event
        BY EventTypesOK
    <2> QED
        BY <2>1, <2>2, AppendStarted
<1>5. ~Worked
    BY <1>2, <1>3, <1>4 DEF Worked
<1>6. SealsTell(log) /\ (abandoned = {} => ~NestedTurnStarted(log) /\ ~TurnOpen(log))
    BY <1>2, <1>5 DEF ReadableInv
<1> QED
    BY <1>1, <1>3, <1>4, <1>6, BegunReadable

\* The completion is recorded, and the turn is given a task again.
LEMMA JobCompletedReadable ==
    SessionInv /\ ControlInv /\ ReadableInv /\ (RecordJobCompleted \/ FinishJobCompleted) => ReadableInv'
<1> SUFFICES ASSUME SessionInv, ControlInv, ReadableInv, RecordJobCompleted \/ FinishJobCompleted,
                    NEW t, t = inFlight.turn
             PROVE  ReadableInv'
    OBVIOUS
<1>1. mode \in Applying /\ mode \in Alive /\ mode' \in {"recording", "running"} /\ abandoned' = abandoned
    BY DEF RecordJobCompleted, FinishJobCompleted, Applying, Alive, Handling, historyVars
<1>2. is_paused
    BY <1>1 DEF ControlInv, Flight
<1>3. DOMAIN drivers = {} /\ DOMAIN results = {}
    BY <1>1, <1>2, NoTurnRuns DEF ControlInv, is_paused
<1>4. log \in Seq(Event) /\ t \in Nat /\ inFlight.job \in Nat /\ inFlight.call \in Nat
    BY DEF SessionInv, Held, Shaped, InFlight
<1>5. SealsTell(log) /\ (abandoned = {} => ~NestedTurnStarted(log))
    BY DEF ReadableInv
<1>6. CASE RecordJobCompleted
    <2> DEFINE e == JobCompletedRecorded(t, inFlight.job)
    <2>1. log' = Append(log, e) /\ mode' = "recording" /\ UNCHANGED <<drivers, results, inFlight>>
        BY <1>6 DEF RecordJobCompleted, Record
    <2>2. e \in Event /\ e.type = "JobCompletedRecorded"
        BY <1>4, ActorEvents
    <2> HIDE DEF e
    <2>3. SealsTell(log') /\ (abandoned = {} => ~NestedTurnStarted(log'))
        BY <1>4, <1>5, <2>1, <2>2, WrittenReadable
    <2>4. Worked'
        BY <1>2, <2>1 DEF Worked, is_paused
    <2> QED
        BY <1>1, <1>3, <2>1, <2>3, <2>4 DEF ReadableInv
<1>7. CASE FinishJobCompleted
    <2> DEFINE n == CountModelCalls(log, t)
               no == FALSE
               d == FromToolDispatching(n, <<>>, no)
               e == ToolResult(t, inFlight.call)
    <2>1. log' = Append(log, e) /\ Spawn(t, d) /\ mode' = "running" /\ results' = results
        BY <1>7 DEF FinishJobCompleted
    <2>2. e \in Event /\ e.type = "ToolResultRecorded"
        BY <1>4, ActorEvents
    <2>3. d.pc \notin {"Completed", "Failed", "ModelCalling"}
        BY TaskPcs
    <2> HIDE DEF e, d
    <2>4. SealsTell(log') /\ (abandoned = {} => ~NestedTurnStarted(log'))
        BY <1>4, <1>5, <2>1, <2>2, WrittenReadable
    <2> QED
        BY <1>1, <1>3, <2>1, <2>3, <2>4, SpawnReadable
<1> QED
    BY <1>6, <1>7

\* The actor takes the outcome of the turn: only a turn that has ended gives way to another.
LEMMA TakeOutcomeReadable == SessionInv /\ ControlInv /\ ReadableInv /\ TakeOutcome => ReadableInv'
<1> SUFFICES ASSUME SessionInv, ControlInv, ReadableInv, TakeOutcome, NEW r, r = Head(results),
                    NEW t, t = FreshTurn(log), NEW call, call = LookupCallId(log, r.job)
             PROVE  ReadableInv'
    OBVIOUS
<1> DEFINE base == IF r.outcome = "Paused" THEN Append(log, TurnFailed(r.turn)) ELSE log
<1>1. /\ mode \in {"running", "draining"} /\ mode' = mode /\ results # <<>> /\ results' = Tail(results)
      /\ abandoned' = abandoned
    BY DEF TakeOutcome, historyVars
<1>2. \/ /\ log' = Append(log, TurnPaused(r.turn, r.job))
         /\ inFlight' = PausedOnJob(r.turn, r.job, call) /\ drivers' = drivers
      \/ log' = base /\ drivers' = drivers
      \/ log' = Append(base, TurnStarted(t, pendingInput)) /\ Spawn(t, FreshLikeInit)
    <2>1. CASE r.outcome = "Paused" /\ call # None
        BY <2>1 DEF TakeOutcome, OnTurnComplete
    <2>2. CASE ~(r.outcome = "Paused" /\ call # None)
        BY <2>2 DEF TakeOutcome, OnTurnComplete, TryStartTurn
    <2> QED
        BY <2>1, <2>2
<1>3. /\ log \in Seq(Event) /\ results \in Seq(Result) /\ pendingInput \in Nat
      /\ mode \in Alive /\ mode' # "failed"
    BY <1>1 DEF SessionInv, Held, Shaped, AsideOK, Alive
<1>4. 1 \in DOMAIN results /\ r = results[1] /\ r \in Result
    BY <1>1, <1>3, TailOfResults
<1>5. DOMAIN drivers = {} /\ DOMAIN results' = {}
    <2>1. DOMAIN drivers = {} /\ \A n \in DOMAIN results : n = 1
        BY <1>3, <1>4, OneHand DEF ControlInv
    <2>2. \A n \in DOMAIN results' : n + 1 \in DOMAIN results /\ n + 1 # 1
        BY <1>1, <1>3, TailOfResults
    <2> QED
        BY <2>1, <2>2
<1>6. r.turn \in Nat /\ r.job \in Nat /\ t \in Nat
    <2>1. TurnFailed(0) \in Event
        BY EventTypesOK
    <2> QED
        BY <1>3, <1>4, <2>1, AppendStarted DEF Result
<1>7. SealsTell(log) /\ (abandoned = {} => ~NestedTurnStarted(log)) /\ (r.outcome # "Paused" => ~TurnOpen(log))
    BY <1>4 DEF ReadableInv
<1>8. base \in Seq(Event) /\ SealsTell(base) /\ (abandoned = {} => ~NestedTurnStarted(base)) /\ ~TurnOpen(base)
    <2>1. CASE r.outcome = "Paused"
        <3> DEFINE f == TurnFailed(r.turn)
        <3>1. f \in Event /\ f.type = "TurnFailed"
            BY <1>6, ActorEvents
        <3>2. base = Append(log, f)
            BY <2>1
        <3> HIDE DEF f, base
        <3> QED
            BY <1>3, <1>7, <3>1, <3>2, WrittenReadable, AppendOpen
    <2>2. CASE r.outcome # "Paused"
        BY <1>3, <1>7, <2>2
    <2> QED
        BY <2>1, <2>2
<1> HIDE DEF base
<1>9. CASE /\ log' = Append(log, TurnPaused(r.turn, r.job))
           /\ inFlight' = PausedOnJob(r.turn, r.job, call) /\ drivers' = drivers
    <2> DEFINE e == TurnPaused(r.turn, r.job)
    <2>1. e \in Event /\ e.type = "TurnPaused" /\ log' = Append(log, e)
        BY <1>6, <1>9, ActorEvents
    <2> HIDE DEF e
    <2>2. SealsTell(log') /\ (abandoned = {} => ~NestedTurnStarted(log'))
        BY <1>3, <1>7, <2>1, WrittenReadable
    <2>3. Worked'
        BY <1>9 DEF Worked, is_paused, PausedOnJob
    <2> QED
        BY <1>1, <1>3, <1>5, <1>9, <2>2, <2>3 DEF ReadableInv
<1>10. CASE log' = base /\ drivers' = drivers
    BY <1>1, <1>3, <1>5, <1>8, <1>10 DEF ReadableInv
<1>11. CASE log' = Append(base, TurnStarted(t, pendingInput)) /\ Spawn(t, FreshLikeInit)
    BY <1>1, <1>3, <1>5, <1>6, <1>8, <1>11, BegunReadable
<1> QED
    BY <1>2, <1>9, <1>10, <1>11

\* The steps that write nothing and take nothing up.
LEMMA QuietSteps ==
    SessionInv /\ ControlInv /\ ReadableInv
    /\ \/ HandleTrigger \/ HandleStrayCompletion \/ HandleJobCompleted \/ HandleProbe \/ HandleCancelJob
       \/ CancelReturns \/ HandleShutdown \/ TakeCompletion \/ ForwardCompletion
       \/ ClientStep \/ JobStep \/ UNCHANGED vars
    => ReadableInv'
<1> SUFFICES ASSUME SessionInv, ControlInv, ReadableInv,
                    \/ HandleTrigger \/ HandleStrayCompletion \/ HandleJobCompleted \/ HandleProbe
                    \/ HandleCancelJob \/ CancelReturns \/ HandleShutdown \/ TakeCompletion
                    \/ ForwardCompletion \/ ClientStep \/ JobStep \/ UNCHANGED vars
             PROVE  ReadableInv'
    OBVIOUS
<1> USE DEF turnVars, historyVars, Take, Arm2, Arm3, Alive, Handling
<1>1. CASE HandleTrigger
    BY <1>1, QuietReadable DEF HandleTrigger
<1>2. CASE HandleStrayCompletion
    BY <1>2, NoStrayCompletion
<1>3. CASE HandleJobCompleted
    BY <1>3, QuietReadable DEF HandleJobCompleted
<1>4. CASE HandleProbe
    BY <1>4, QuietReadable DEF HandleProbe
<1>5. CASE HandleCancelJob
    BY <1>5, QuietReadable DEF HandleCancelJob
<1>6. CASE CancelReturns
    BY <1>6, QuietReadable DEF CancelReturns
<1>7. CASE HandleShutdown
    BY <1>7, QuietReadable DEF HandleShutdown
<1>8. CASE TakeCompletion
    BY <1>8, QuietReadable DEF TakeCompletion
<1>9. CASE ForwardCompletion
    BY <1>9, QuietReadable DEF ForwardCompletion
<1>10. CASE ClientStep
    BY <1>10, QuietReadable DEF ClientStep, ClientSubmit, ClientCancel, ClientShutdown
<1>11. CASE JobStep
    BY <1>11, QuietReadable DEF JobStep, WorkerRuns, SendRuns, sessionVars, actorVars
<1>12. CASE UNCHANGED vars
    BY <1>12, QuietReadable DEF vars, sessionVars, actorVars
<1> QED
    BY <1>1, <1>2, <1>3, <1>4, <1>5, <1>6, <1>7, <1>8, <1>9, <1>10, <1>11, <1>12

\* The actor exits and its task runs on, or the process dies.
LEMMA EndReadable == ReadableInv /\ (Exit \/ Crash) => ReadableInv'
<1>1. ASSUME ReadableInv, Exit
      PROVE  ReadableInv'
    <2>1. mode' = "exited" /\ results' = <<>> /\ UNCHANGED <<log, drivers, abandoned>>
        BY <1>1 DEF Exit
    <2>2. mode' \notin Alive /\ mode' # "failed" /\ DOMAIN results' = {}
        BY <2>1 DEF Alive, Handling
    <2> QED
        BY <1>1, <2>1, <2>2 DEF ReadableInv
<1>2. ASSUME ReadableInv, Crash
      PROVE  ReadableInv'
    <2>1. mode' = "down" /\ results' = <<>> /\ drivers' = [t \in {} |-> {}] /\ UNCHANGED <<log, abandoned>>
        BY <1>2 DEF Crash
    <2>2. mode' \notin Alive /\ mode' # "failed" /\ DOMAIN results' = {} /\ DOMAIN drivers' = {}
        BY <2>1 DEF Alive, Handling
    <2> QED
        BY <1>2, <2>1, <2>2 DEF ReadableInv
<1> QED
    BY <1>1, <1>2

\* A new actor takes the turn up, or gives it up; it cannot read the log only if a turn
\* was given up before.
LEMMA StartReadable == SessionInv /\ CallsInv /\ ReadableInv /\ Start => ReadableInv'
<1> SUFFICES ASSUME SessionInv, CallsInv, ReadableInv, Start, NEW s, s = Replay(log)
             PROVE  ReadableInv'
    OBVIOUS
<1>1. /\ DOMAIN drivers = {} /\ results = <<>> /\ DOMAIN results = {}
      /\ log \in Seq(Event) /\ SealsTell(log) /\ (abandoned = {} => ~NestedTurnStarted(log))
    <2>1. NewActor
        BY DEF Start, StartIdle, StartFails, StartTurn, StartPaused, StartAfterJob
    <2>2. DOMAIN drivers = {} /\ results = <<>> /\ log \in Seq(Event)
        BY <2>1, NewActorFinds
    <2> QED
        BY <2>2 DEF ReadableInv
<1>2. CASE StartIdle
    <2>1. /\ mode' = "running" /\ UNCHANGED <<log, drivers, results>>
          /\ s.point \in {"FreshTurn", "RestartCurrentTurn"}
          /\ abandoned' = IF s.point = "RestartCurrentTurn" THEN abandoned \cup {s.turn} ELSE abandoned
        BY <1>2 DEF StartIdle, turnVars
    <2>2. CASE s.point = "FreshTurn"
        <3>1. ~TurnOpen(log) /\ abandoned' = abandoned
            BY <1>1, <2>1, <2>2, FreshIsClosed
        <3> QED
            BY <1>1, <2>1, <3>1 DEF ReadableInv
    <2>3. CASE s.point = "RestartCurrentTurn"
        BY <1>1, <2>1, <2>3 DEF ReadableInv
    <2> QED
        BY <2>1, <2>2, <2>3
<1>3. CASE StartFails
    <2>1. /\ mode' = "failed" /\ UNCHANGED <<log, drivers, results, abandoned>>
          /\ s.point = "Malformed" \/ (s.point = "ResumePausedJob" /\ s.call = None)
        BY <1>3 DEF StartFails, turnVars, historyVars
    <2>2. abandoned # {}
        BY <1>1, <2>1, CanBeTakenUp DEF CallsInv, CallsHeld
    <2>3. mode' \notin Alive
        BY <2>1 DEF Alive, Handling
    <2> QED
        BY <1>1, <2>1, <2>2, <2>3 DEF ReadableInv
<1>4. CASE StartPaused
    <2>1. mode' = "running" /\ UNCHANGED <<log, drivers, results, abandoned>> /\ is_paused'
        BY <1>4 DEF StartPaused, turnVars, historyVars, PausedOnJob, is_paused
    <2> QED
        BY <1>1, <2>1 DEF ReadableInv, Worked
<1>5. CASE StartTurn \/ StartAfterJob
    <2>1. mode' = "running" /\ UNCHANGED <<results, abandoned>>
        BY <1>5 DEF StartTurn, StartAfterJob, historyVars
    <2>2. \E d : Spawn(s.turn, d) /\ d.pc \notin {"Completed", "Failed", "ModelCalling"}
        <3>1. \E n, p, drift : \/ Spawn(s.turn, FromModelCompleted(n))
                               \/ Spawn(s.turn, FromToolDispatching(n, p, drift))
            BY <1>5, Zenon DEF StartTurn, StartAfterJob
        <3> QED
            BY <3>1, TaskPcs
    <2>3. log' = log \/ log' = Append(log, ToolResult(s.turn, s.call))
        BY <1>5 DEF StartTurn, StartAfterJob, Record
    <2>4. SealsTell(log') /\ (abandoned = {} => ~NestedTurnStarted(log'))
        <3> DEFINE e == ToolResult(s.turn, s.call)
        <3>1. e \in Event /\ e.type = "ToolResultRecorded"
            <4>1. s.turn \in Nat /\ s.call \in Nat
                BY <1>1, ReplayShape
            <4> QED
                BY <4>1, ActorEvents
        <3>2. log' = log \/ log' = Append(log, e)
            BY <2>3
        <3> HIDE DEF e
        <3> QED
            BY <1>1, <3>1, <3>2, WrittenReadable
    <2> QED
        BY <1>1, <2>1, <2>2, <2>4, SpawnReadable
<1> QED
    BY <1>2, <1>3, <1>4, <1>5 DEF Start

\* The log is readable at first, and stays so.
LEMMA ReadableInit == Init => ReadableInv
<1> SUFFICES ASSUME Init
             PROVE  ReadableInv
    OBVIOUS
<1>1. log = <<>> /\ DOMAIN drivers = {} /\ DOMAIN results = {} /\ mode = "down"
    BY DEF Init, TurnInit
<1>2. SealsTell(log) /\ ~NestedTurnStarted(log)
    BY <1>1 DEF SealsTell, Seals, NestedTurnStarted, Positions
<1> QED
    BY <1>1, <1>2 DEF ReadableInv, Alive, Handling

LEMMA ReadableStep ==
    SessionInv /\ CallsInv /\ ControlInv /\ ReadableInv /\ "stop" \notin Faults /\ [Next]_vars => ReadableInv'
<1> SUFFICES ASSUME SessionInv, CallsInv, ControlInv, ReadableInv, "stop" \notin Faults, [Next]_vars
             PROVE  ReadableInv'
    OBVIOUS
<1>1. CASE Start
    BY <1>1, StartReadable
<1>2. CASE ActorStep
    BY <1>2, TakeOutcomeReadable, StartHeldInputReadable, JobCompletedReadable, QuietSteps, EndReadable
       DEF ActorStep
<1>3. CASE TurnStep
    BY <1>3, TurnStepReadable
<1>4. CASE ClientStep \/ JobStep \/ UNCHANGED vars
    BY <1>4, QuietSteps
<1>5. CASE Crash
    BY <1>5, EndReadable
<1> QED
    BY <1>1, <1>2, <1>3, <1>4, <1>5 DEF Next

\* Startup fails only on the log of a session that has given up a turn: every other log
\* the system writes, cut by a crash at any point, H03 takes for one of its resume points,
\* so apply_resume_point never answers Malformed (resume.rs).  It holds where a job ends
\* only after its turn is parked, and where a model that stops for tools has called one.
THEOREM SessionUnresumableOnlyIfAbandoned ==
    ASSUME ~FastJobs, "stop" \notin Faults
    PROVE  Spec => []UnresumableOnlyIfAbandoned
<1>1. SessionInv /\ CallsInv /\ ControlInv /\ ReadableInv /\ [Next]_vars => ReadableInv'
    BY ReadableStep
<1>2. ReadableInv => UnresumableOnlyIfAbandoned
    BY DEF ReadableInv, UnresumableOnlyIfAbandoned
<1>3. Spec => []ControlInv
    BY ControlAlways
<1> QED
    BY <1>1, <1>2, <1>3, ReadableInit, SessionInvAlways, CallsInvAlways, PTL DEF Spec
=============================================================================
