---------------------------- MODULE SessionProofs ----------------------------
(***************************************************************************)
(* A session over any number of inputs, jobs, crashes and restarts, with    *)
(* every fault the constants allow: its state stays well formed and its     *)
(* channels within capacity, a turn keeps to its budget of model calls, and *)
(* nothing is written for a turn that has ended.  Where a job ends only      *)
(* after its turn is parked, one turn runs and no input is lost.            *)
(*                                                                         *)
(* The invariant follows a turn from hand to hand: it is held by its task,  *)
(* by an outcome on its way to the actor, or by the actor that is paused on *)
(* it, and never by two of these; a restart takes it from the log.          *)
(***************************************************************************)
EXTENDS Session, JobManagerProofs, EventLogProofs, SequenceTheorems

\* The places at which a task has a call in hand.
Busy == {"Invoked", "Submitting", "Submitted", "Registering", "Registered"}

\* A task's record: a task that is busy has a call, a registered job is one of the
\* manager's, and the budget was checked on the way to a model call.
WellFormed(d) ==
    /\ d \in Driver
    /\ d.pc \in Busy => d.pend # <<>>
    /\ d.pc \in {"Registered", "Paused"} => d.job \in JobIds
    /\ d.pc \in {"ContextManaged", "PromptBuilt"} => d.mcalls < MaxModelCalls

TasksWellFormed(ds) == \A t \in DOMAIN ds : WellFormed(ds[t])

\* The rest of the invariant is about a log lg, the tasks ds of the turns, the outcomes
\* rs on their way to the actor and the turn fl the actor has in hand.
Shaped(lg, ds, rs, fl) ==
    /\ lg \in Seq(Event)
    /\ DOMAIN ds \subseteq Nat /\ ds = [t \in DOMAIN ds |-> ds[t]]
    /\ rs \in Seq(Result)
    /\ fl \in InFlight

\* A turn pauses on jobs of the manager only.
PausedOnJobs(lg, rs) ==
    /\ \A i \in DOMAIN lg : lg[i].type = "TurnPaused" => lg[i].job \in JobIds
    /\ \A n \in DOMAIN rs : rs[n].outcome = "Paused" => rs[n].job \in JobIds

\* Whoever holds a turn holds one that was started.
HoldersStarted(lg, ds, rs, fl) ==
    /\ OfStartedTurns(lg)
    /\ DOMAIN ds \subseteq StartedIn(lg)
    /\ \A n \in DOMAIN rs : rs[n].turn \in StartedIn(lg)
    /\ fl.kind = "Paused" => fl.turn \in StartedIn(lg)

\* A task counts its model calls as the log does.
CountsAgree(lg, ds) == \A t \in DOMAIN ds : ds[t].mcalls = CountModelCalls(lg, t)

\* A turn is held by one of its task, an outcome and the paused actor.
OneHolder(ds, rs, fl) ==
    /\ \A n \in DOMAIN rs : rs[n].turn \notin DOMAIN ds
    /\ \A n, m \in DOMAIN rs : rs[n].turn = rs[m].turn => n = m
    /\ fl.kind = "Paused" => /\ fl.turn \notin DOMAIN ds
                             /\ \A n \in DOMAIN rs : rs[n].turn # fl.turn

\* Nobody who holds a turn that has ended will write for it.
EndedIsLeft(lg, ds, rs, fl) ==
    /\ \A t \in DOMAIN ds : t \in EndedIn(lg) => ds[t].pc \in {"Completed", "Failed"}
    /\ \A n \in DOMAIN rs : rs[n].turn \in EndedIn(lg) => rs[n].outcome # "Paused"
    /\ fl.kind = "Paused" => fl.turn \notin EndedIn(lg)

Held(lg, ds, rs, fl) ==
    /\ Shaped(lg, ds, rs, fl)
    /\ TasksWellFormed(ds)
    /\ PausedOnJobs(lg, rs)
    /\ HoldersStarted(lg, ds, rs, fl)
    /\ CountsAgree(lg, ds)
    /\ OneHolder(ds, rs, fl)
    /\ EndedIsLeft(lg, ds, rs, fl)
    /\ Within(lg, MaxModelCalls)
    /\ EndsAreLast(lg)

\* An actor that is not alive holds nothing; one that was started has a channel; a
\* job is completed for the turn the actor is paused on.
ActorHolds ==
    /\ mode = "down" => DOMAIN drivers = {}
    /\ mode \notin Alive => results = <<>> /\ inFlight = NoTurn
    /\ mode # "down" => incarnation \in Sinks
    /\ mode \in {"completing", "recording"} => is_paused

\* The shape of what no turn is in.
AsideOK ==
    /\ recorder \in {"free", "demux", "actor"}
    /\ mode \in Modes
    /\ pendingInput \in Nat
    /\ mailbox \in Seq(Command) /\ Len(mailbox) <= MailboxCap
    /\ held \in Nat
    /\ incarnation \in Sinks \cup {0}
    /\ asking \in Asking
    /\ inputs \in Nat /\ cancels \in Nat /\ shutdowns \in Nat /\ crashes \in Nat
    /\ abandoned \subseteq Nat
    /\ forgotten \in Nat

SessionInv ==
    /\ JobTypeOK
    /\ AsideOK
    /\ ActorHolds
    /\ Held(log, drivers, results, inFlight)

\* Every event the code writes is an event.
LEMMA EventTypesOK ==
    ASSUME NEW t \in Nat, NEW n \in Nat, NEW j \in Nat
    PROVE  /\ TurnStarted(t, n) \in Event /\ TurnCompleted(t) \in Event /\ TurnFailed(t) \in Event
           /\ TurnPaused(t, j) \in Event /\ ModelCallStarted(t) \in Event
           /\ \A stop \in StopReasons : ModelCallCompleted(t, stop) \in Event
           /\ \A check \in {"valid", "invalid"} : ToolUse(t, n, check) \in Event
           /\ ToolResult(t, n) \in Event /\ JobSubmitted(t, n, j) \in Event
           /\ JobCompletedRecorded(t, j) \in Event
BY DEF TurnStarted, TurnCompleted, TurnFailed, TurnPaused, ModelCallStarted, ModelCallCompleted,
       ToolUse, ToolResult, JobSubmitted, JobCompletedRecorded, Ev, Event, EventTypes, Infos,
       StopReasons, None

-----------------------------------------------------------------------------
(* What keeps every turn in one hand.                                      *)

\* The actor may let go of the turn it has in hand, or take one that is running.
LEMMA HeldLetGo ==
    ASSUME NEW lg, NEW ds, NEW rs, NEW fl, NEW gl \in InFlight,
           Held(lg, ds, rs, fl), gl.kind # "Paused" \/ gl = fl
    PROVE  Held(lg, ds, rs, gl)
BY DEF Held, Shaped, HoldersStarted, OneHolder, EndedIsLeft

\* Outcomes and tasks may be lost.
LEMMA HeldLost ==
    ASSUME NEW lg, NEW ds, NEW rs, NEW fl, Held(lg, ds, rs, fl)
    PROVE  Held(lg, ds, <<>>, NoTurn) /\ Held(lg, [t \in {} |-> {}], <<>>, NoTurn)
<1>1. NoTurn \in InFlight /\ NoTurn.kind = "None"
    BY DEF NoTurn, InFlight, None
<1>2. <<>> \in Seq(Result)
    OBVIOUS
<1> QED
    BY <1>1, <1>2 DEF Held, Shaped, TasksWellFormed, PausedOnJobs, HoldersStarted, CountsAgree,
       OneHolder, EndedIsLeft

\* A task goes on.
LEMMA HeldGoes ==
    ASSUME NEW lg, NEW ds, NEW rs, NEW fl, Held(lg, ds, rs, fl),
           NEW t \in DOMAIN ds, NEW d, WellFormed(d), d.mcalls = ds[t].mcalls,
           ds[t].pc \notin Outcomes
    PROVE  Held(lg, [ds EXCEPT ![t] = d], rs, fl)
<1> DEFINE es == [ds EXCEPT ![t] = d]
<1>1. DOMAIN es = DOMAIN ds /\ es[t] = d /\ \A u \in DOMAIN ds \ {t} : es[u] = ds[u]
    BY DEF Held, Shaped
<1>2. es = [u \in DOMAIN es |-> es[u]]
    OBVIOUS
<1> HIDE DEF es
<1>3. Shaped(lg, es, rs, fl)
    BY <1>1, <1>2 DEF Held, Shaped
<1>4. TasksWellFormed(es)
    BY <1>1 DEF Held, TasksWellFormed
<1>5. CountsAgree(lg, es)
    BY <1>1 DEF Held, CountsAgree
<1>6. HoldersStarted(lg, es, rs, fl) /\ OneHolder(es, rs, fl)
    BY <1>1 DEF Held, HoldersStarted, OneHolder
<1>7. EndedIsLeft(lg, es, rs, fl)
    BY <1>1 DEF Held, EndedIsLeft, Outcomes
<1>8. Held(lg, es, rs, fl)
    BY <1>3, <1>4, <1>5, <1>6, <1>7 DEF Held
<1> QED
    BY <1>8 DEF es

\* An event of a turn that has not ended, and that starts, pauses and ends none.
LEMMA HeldNotes ==
    ASSUME NEW lg, NEW ds, NEW rs, NEW fl, Held(lg, ds, rs, fl),
           NEW e \in Event, e.turn \in StartedIn(lg), e.turn \notin EndedIn(lg),
           e.type \notin {"TurnStarted", "TurnPaused", "TurnCompleted", "TurnFailed", "ModelCallStarted"}
    PROVE  Held(Append(lg, e), ds, rs, fl)
<1> DEFINE kg == Append(lg, e)
<1>0. lg \in Seq(Event) /\ OfStartedTurns(lg) /\ EndsAreLast(lg) /\ Within(lg, MaxModelCalls)
    BY DEF Held, Shaped, HoldersStarted
<1>1. /\ kg \in Seq(Event) /\ StartedIn(kg) = StartedIn(lg) /\ EndedIn(kg) = EndedIn(lg)
      /\ \A t : CountModelCalls(kg, t) = CountModelCalls(lg, t)
    <2>1. \A t : CountModelCalls(kg, t) = CountModelCalls(lg, t)
        <3> SUFFICES ASSUME NEW t
                     PROVE  CountModelCalls(kg, t) = CountModelCalls(lg, t)
            OBVIOUS
        <3> QED
            BY <1>0, AppendModelCalls
    <2> QED
        BY <1>0, <2>1, AppendEvents, AppendStarted, AppendEnded
<1>2. OfStartedTurns(kg) /\ EndsAreLast(kg) /\ Within(kg, MaxModelCalls)
    BY <1>0, AppendOfStarted, AppendEndsLast, AppendWithin, BudgetAssumption
<1>3. PausedOnJobs(kg, rs)
    <2>1. /\ DOMAIN kg = DOMAIN lg \cup {Len(lg) + 1}
          /\ \A i \in DOMAIN lg : kg[i] = lg[i]
          /\ kg[Len(lg) + 1] = e
        BY <1>0, AppendEvents
    <2> HIDE DEF kg
    <2> QED
        BY <2>1 DEF Held, PausedOnJobs
<1> HIDE DEF kg
<1>4. Shaped(kg, ds, rs, fl) /\ HoldersStarted(kg, ds, rs, fl)
    BY <1>1, <1>2 DEF Held, Shaped, HoldersStarted
<1>5. CountsAgree(kg, ds) /\ EndedIsLeft(kg, ds, rs, fl)
    BY <1>1 DEF Held, CountsAgree, EndedIsLeft
<1>6. Held(kg, ds, rs, fl)
    BY <1>2, <1>3, <1>4, <1>5 DEF Held
<1> QED
    BY <1>6 DEF kg

\* A task writes an event of its own and goes on; it has left the turn it ends.
LEMMA HeldAdds ==
    ASSUME NEW lg, NEW ds, NEW rs, NEW fl, Held(lg, ds, rs, fl),
           NEW t \in DOMAIN ds, NEW d, WellFormed(d), ds[t].pc \notin Outcomes,
           NEW e \in Event, e.turn = t, e.type \notin {"TurnStarted", "TurnPaused"},
           e.type \in {"TurnCompleted", "TurnFailed"} <=> d.pc \in {"Completed", "Failed"},
           e.type = "ModelCallStarted" => ds[t].pc = "PromptBuilt" /\ d.mcalls = ds[t].mcalls + 1,
           e.type # "ModelCallStarted" => d.mcalls = ds[t].mcalls
    PROVE  Held(Append(lg, e), [ds EXCEPT ![t] = d], rs, fl)
<1> DEFINE kg == Append(lg, e)
           es == [ds EXCEPT ![t] = d]
<1>0. /\ lg \in Seq(Event) /\ OfStartedTurns(lg) /\ EndsAreLast(lg) /\ Within(lg, MaxModelCalls)
      /\ t \in StartedIn(lg) /\ t \notin EndedIn(lg)
      /\ ds[t].mcalls = CountModelCalls(lg, t) /\ WellFormed(ds[t])
    BY DEF Held, Shaped, HoldersStarted, EndedIsLeft, CountsAgree, TasksWellFormed, Outcomes
<1>1. /\ kg \in Seq(Event) /\ StartedIn(kg) = StartedIn(lg)
      /\ EndedIn(kg) = IF e.type \in {"TurnCompleted", "TurnFailed"} THEN EndedIn(lg) \cup {t} ELSE EndedIn(lg)
    BY <1>0, AppendEvents, AppendStarted, AppendEnded
<1>2. /\ \A u : u # t => CountModelCalls(kg, u) = CountModelCalls(lg, u)
      /\ CountModelCalls(kg, t) = d.mcalls
    <2>1. ASSUME NEW u, u # t
          PROVE  CountModelCalls(kg, u) = CountModelCalls(lg, u)
        BY <1>0, <2>1, AppendModelCalls
    <2>2. /\ CountModelCalls(lg, t) \in Nat
          /\ CountModelCalls(kg, t) = CountModelCalls(lg, t)
                                      + (IF e.type = "ModelCallStarted" /\ e.turn = t THEN 1 ELSE 0)
        BY <1>0, AppendModelCalls
    <2>3. CountModelCalls(kg, t) = d.mcalls
        BY <1>0, <2>2
    <2> QED
        BY <2>1, <2>3
<1>3. OfStartedTurns(kg) /\ EndsAreLast(kg)
    BY <1>0, AppendOfStarted, AppendEndsLast
<1>4. Within(kg, MaxModelCalls)
    <2>1. e.type = "ModelCallStarted" => CountModelCalls(lg, e.turn) < MaxModelCalls
        BY <1>0 DEF WellFormed
    <2> QED
        BY <1>0, <2>1, AppendWithin, BudgetAssumption
<1>5. PausedOnJobs(kg, rs)
    <2>1. /\ DOMAIN kg = DOMAIN lg \cup {Len(lg) + 1}
          /\ \A i \in DOMAIN lg : kg[i] = lg[i]
          /\ kg[Len(lg) + 1] = e
        BY <1>0, AppendEvents
    <2> HIDE DEF kg
    <2> QED
        BY <2>1 DEF Held, PausedOnJobs
<1>6. /\ DOMAIN es = DOMAIN ds /\ es[t] = d /\ \A u \in DOMAIN ds \ {t} : es[u] = ds[u]
      /\ es = [u \in DOMAIN es |-> es[u]]
    BY DEF Held, Shaped
<1> HIDE DEF kg, es
<1>7. Shaped(kg, es, rs, fl)
    BY <1>1, <1>6 DEF Held, Shaped
<1>8. TasksWellFormed(es)
    BY <1>6 DEF Held, TasksWellFormed
<1>9. CountsAgree(kg, es)
    BY <1>2, <1>6 DEF Held, CountsAgree
<1>10. HoldersStarted(kg, es, rs, fl) /\ OneHolder(es, rs, fl)
    BY <1>1, <1>3, <1>6 DEF Held, HoldersStarted, OneHolder
<1>11. EndedIsLeft(kg, es, rs, fl)
    <2>1. /\ \A n \in DOMAIN rs : rs[n].turn # t
          /\ fl.kind = "Paused" => fl.turn # t
        BY DEF Held, OneHolder
    <2>2. ASSUME NEW u \in DOMAIN es, u \in EndedIn(kg)
          PROVE  es[u].pc \in {"Completed", "Failed"}
        <3>1. CASE u = t
            BY <1>0, <1>1, <1>6, <2>2, <3>1
        <3>2. CASE u # t
            BY <1>1, <1>6, <2>2, <3>2 DEF Held, EndedIsLeft
        <3> QED
            BY <3>1, <3>2
    <2>3. ASSUME NEW n \in DOMAIN rs, rs[n].turn \in EndedIn(kg)
          PROVE  rs[n].outcome # "Paused"
        BY <1>1, <2>1, <2>3 DEF Held, EndedIsLeft
    <2>4. fl.kind = "Paused" => fl.turn \notin EndedIn(kg)
        BY <1>1, <2>1 DEF Held, EndedIsLeft
    <2> QED
        BY <2>2, <2>3, <2>4 DEF EndedIsLeft
<1>12. Held(kg, es, rs, fl)
    BY <1>3, <1>4, <1>5, <1>7, <1>8, <1>9, <1>10, <1>11 DEF Held
<1> QED
    BY <1>12 DEF kg, es

\* A task whose turn is over posts its outcome and is gone; the outcome may be lost.
LEMMA HeldPost ==
    ASSUME NEW lg, NEW ds, NEW rs, NEW fl, Held(lg, ds, rs, fl),
           NEW t \in DOMAIN ds, ds[t].pc \in Outcomes,
           NEW qs \in {rs, Append(rs, [turn |-> t, outcome |-> ds[t].pc, job |-> ds[t].job])}
    PROVE  Held(lg, [u \in DOMAIN ds \ {t} |-> ds[u]], qs, fl)
<1> DEFINE es == [u \in DOMAIN ds \ {t} |-> ds[u]]
           r == [turn |-> t, outcome |-> ds[t].pc, job |-> ds[t].job]
<1>1. /\ DOMAIN es = DOMAIN ds \ {t} /\ \A u \in DOMAIN es : es[u] = ds[u]
      /\ es = [u \in DOMAIN es |-> es[u]]
    OBVIOUS
<1>2. /\ r \in Result /\ r.turn = t /\ r.outcome = ds[t].pc /\ r.job = ds[t].job
      /\ r.outcome = "Paused" => r.job \in JobIds
      /\ rs \in Seq(Result) /\ t \in StartedIn(lg) /\ t \in Nat
      /\ t \in EndedIn(lg) => r.outcome # "Paused"
    <2>1. /\ WellFormed(ds[t]) /\ t \in Nat /\ t \in StartedIn(lg) /\ rs \in Seq(Result)
          /\ t \in EndedIn(lg) => ds[t].pc \in {"Completed", "Failed"}
        BY DEF Held, Shaped, TasksWellFormed, HoldersStarted, EndedIsLeft
    <2>2. ds[t].job \in Nat /\ (ds[t].pc = "Paused" => ds[t].job \in JobIds)
        BY <2>1 DEF WellFormed, Driver
    <2> QED
        BY <2>1, <2>2 DEF Result
<1>3. /\ qs \in Seq(Result)
      /\ \A n \in DOMAIN qs : (n \in DOMAIN rs /\ qs[n] = rs[n]) \/ (n = Len(rs) + 1 /\ qs[n] = r)
    <2> HIDE DEF r
    <2>1. CASE qs = rs
        BY <1>2, <2>1
    <2>2. CASE qs = Append(rs, r)
        BY <1>2, <2>2
    <2> QED
        BY <2>1, <2>2 DEF r
<1> HIDE DEF es, r
<1>4. Shaped(lg, es, qs, fl) /\ TasksWellFormed(es) /\ CountsAgree(lg, es)
    BY <1>1, <1>3 DEF Held, Shaped, TasksWellFormed, CountsAgree
<1>5. PausedOnJobs(lg, qs)
    BY <1>2, <1>3 DEF Held, PausedOnJobs
<1>6. HoldersStarted(lg, es, qs, fl)
    BY <1>1, <1>2, <1>3 DEF Held, HoldersStarted
<1>7. OneHolder(es, qs, fl)
    <2>1. \A n \in DOMAIN qs : qs[n].turn \notin DOMAIN es
        BY <1>1, <1>2, <1>3 DEF Held, OneHolder
    <2>2. \A n, m \in DOMAIN qs : qs[n].turn = qs[m].turn => n = m
        BY <1>1, <1>2, <1>3 DEF Held, OneHolder
    <2>3. fl.kind = "Paused" => fl.turn \notin DOMAIN es /\ \A n \in DOMAIN qs : qs[n].turn # fl.turn
        BY <1>1, <1>2, <1>3 DEF Held, OneHolder
    <2> QED
        BY <2>1, <2>2, <2>3 DEF OneHolder
<1>8. EndedIsLeft(lg, es, qs, fl)
    BY <1>1, <1>2, <1>3 DEF Held, EndedIsLeft
<1>9. Held(lg, es, qs, fl)
    BY <1>4, <1>5, <1>6, <1>7, <1>8 DEF Held
<1> QED
    BY <1>9 DEF es

\* A turn that nobody holds and that has not ended is given a task, on a log that
\* counts as many model calls as the task does.
LEMMA HeldSpawn ==
    ASSUME NEW lg, NEW ds, NEW rs, NEW fl, Held(lg, ds, rs, fl),
           NEW t \in StartedIn(lg), t \notin EndedIn(lg), t \notin DOMAIN ds,
           \A n \in DOMAIN rs : rs[n].turn # t,
           NEW d, WellFormed(d), d.mcalls = CountModelCalls(lg, t)
    PROVE  Held(lg, [u \in DOMAIN ds \cup {t} |-> IF u = t THEN d ELSE ds[u]], rs, Active(t))
<1> DEFINE es == [u \in DOMAIN ds \cup {t} |-> IF u = t THEN d ELSE ds[u]]
<1>1. /\ DOMAIN es = DOMAIN ds \cup {t} /\ es[t] = d /\ \A u \in DOMAIN ds : es[u] = ds[u]
      /\ es = [u \in DOMAIN es |-> es[u]]
    OBVIOUS
<1>2. lg \in Seq(Event)
    BY DEF Held, Shaped
<1>3. t \in Nat
    BY DEF StartedIn
<1>4. Active(t) \in InFlight /\ Active(t).kind # "Paused"
    BY <1>3 DEF Active, InFlight, None
<1> HIDE DEF es
<1>5. Shaped(lg, es, rs, Active(t)) /\ TasksWellFormed(es) /\ CountsAgree(lg, es)
    BY <1>1, <1>3, <1>4 DEF Held, Shaped, TasksWellFormed, CountsAgree
<1>6. HoldersStarted(lg, es, rs, Active(t)) /\ OneHolder(es, rs, Active(t)) /\ EndedIsLeft(lg, es, rs, Active(t))
    BY <1>1, <1>4 DEF Held, HoldersStarted, OneHolder, EndedIsLeft
<1>7. Held(lg, es, rs, Active(t))
    BY <1>5, <1>6 DEF Held
<1> QED
    BY <1>7 DEF es

\* The outcomes behind the first.
LEMMA TailOfResults ==
    ASSUME NEW rs \in Seq(Result), rs # <<>>
    PROVE  /\ Head(rs) \in Result /\ 1 \in DOMAIN rs /\ rs[1] = Head(rs)
           /\ Tail(rs) \in Seq(Result)
           /\ \A n \in DOMAIN Tail(rs) : n + 1 \in DOMAIN rs /\ n + 1 # 1 /\ Tail(rs)[n] = rs[n + 1]
                                         /\ n \in Nat
OBVIOUS

\* The actor takes an outcome and holds nothing.
LEMMA HeldTakes ==
    ASSUME NEW lg, NEW ds, NEW rs, NEW fl, Held(lg, ds, rs, fl), rs # <<>>
    PROVE  Held(lg, ds, Tail(rs), NoTurn)
<1> DEFINE qs == Tail(rs)
<1>1. NoTurn \in InFlight /\ NoTurn.kind # "Paused"
    BY DEF NoTurn, InFlight, None
<1>2. /\ qs \in Seq(Result)
      /\ \A n \in DOMAIN qs : n + 1 \in DOMAIN rs /\ qs[n] = rs[n + 1] /\ n \in Nat
    BY TailOfResults DEF Held, Shaped
<1> HIDE DEF qs
<1>3. Shaped(lg, ds, qs, NoTurn) /\ PausedOnJobs(lg, qs)
    BY <1>1, <1>2 DEF Held, Shaped, PausedOnJobs
<1>4. HoldersStarted(lg, ds, qs, NoTurn) /\ EndedIsLeft(lg, ds, qs, NoTurn)
    BY <1>1, <1>2 DEF Held, HoldersStarted, EndedIsLeft
<1>5. OneHolder(ds, qs, NoTurn)
    <2>1. \A n \in DOMAIN qs : qs[n].turn \notin DOMAIN ds
        BY <1>2 DEF Held, OneHolder
    <2>2. ASSUME NEW n \in DOMAIN qs, NEW m \in DOMAIN qs, qs[n].turn = qs[m].turn
          PROVE  n = m
        <3>1. n + 1 = m + 1 /\ n \in Nat /\ m \in Nat
            BY <1>2, <2>2 DEF Held, OneHolder
        <3> QED
            BY <3>1
    <2> QED
        BY <1>1, <2>1, <2>2 DEF OneHolder
<1>6. Held(lg, ds, qs, NoTurn)
    BY <1>3, <1>4, <1>5 DEF Held
<1> QED
    BY <1>6 DEF qs

\* What is known of a turn whose outcome is taken.
LEMMA TakenOutcome ==
    ASSUME NEW lg, NEW ds, NEW rs, NEW fl, Held(lg, ds, rs, fl), rs # <<>>
    PROVE  /\ Head(rs) \in Result
           /\ Head(rs).turn \in StartedIn(lg) /\ Head(rs).turn \notin DOMAIN ds
           /\ \A n \in DOMAIN Tail(rs) : Tail(rs)[n].turn # Head(rs).turn
           /\ Head(rs).outcome = "Paused" => Head(rs).job \in JobIds /\ Head(rs).turn \notin EndedIn(lg)
<1>1. /\ Head(rs) \in Result /\ 1 \in DOMAIN rs /\ rs[1] = Head(rs)
      /\ \A n \in DOMAIN Tail(rs) : n + 1 \in DOMAIN rs /\ n + 1 # 1 /\ Tail(rs)[n] = rs[n + 1]
    BY TailOfResults DEF Held, Shaped
<1>2. Head(rs).turn \in StartedIn(lg) /\ Head(rs).turn \notin DOMAIN ds
    BY <1>1 DEF Held, HoldersStarted, OneHolder
<1>3. \A n \in DOMAIN Tail(rs) : Tail(rs)[n].turn # Head(rs).turn
    BY <1>1 DEF Held, OneHolder
<1>4. Head(rs).outcome = "Paused" => Head(rs).job \in JobIds /\ Head(rs).turn \notin EndedIn(lg)
    BY <1>1 DEF Held, PausedOnJobs, EndedIsLeft
<1> QED
    BY <1>1, <1>2, <1>3, <1>4

\* A turn that nobody holds is paused, in the log and by the actor.
LEMMA HeldParks ==
    ASSUME NEW lg, NEW ds, NEW rs, NEW fl, Held(lg, ds, rs, fl),
           NEW t \in StartedIn(lg), t \notin EndedIn(lg), t \notin DOMAIN ds,
           \A n \in DOMAIN rs : rs[n].turn # t,
           NEW j \in JobIds, NEW c \in Nat
    PROVE  /\ Held(lg, ds, rs, PausedOnJob(t, j, c))
           /\ Held(Append(lg, TurnPaused(t, j)), ds, rs, PausedOnJob(t, j, c))
<1> DEFINE e == TurnPaused(t, j)
           kg == Append(lg, e)
           gl == PausedOnJob(t, j, c)
<1>1. t \in Nat /\ j \in Nat
    BY JobIdsAssumption DEF StartedIn
<1>2. e \in Event /\ e.turn = t /\ e.type = "TurnPaused" /\ e.job = j
    BY <1>1, EventTypesOK DEF TurnPaused, Ev
<1>3. gl \in InFlight /\ gl.turn = t
    BY <1>1 DEF PausedOnJob, InFlight
<1>0. lg \in Seq(Event) /\ OfStartedTurns(lg) /\ EndsAreLast(lg) /\ Within(lg, MaxModelCalls)
    BY DEF Held, Shaped, HoldersStarted
<1> HIDE DEF e, gl
<1>4. Held(lg, ds, rs, gl)
    BY <1>3 DEF Held, Shaped, HoldersStarted, OneHolder, EndedIsLeft
<1>5. /\ kg \in Seq(Event) /\ StartedIn(kg) = StartedIn(lg) /\ EndedIn(kg) = EndedIn(lg)
      /\ \A u : CountModelCalls(kg, u) = CountModelCalls(lg, u)
    <2>1. ASSUME NEW u
          PROVE  CountModelCalls(kg, u) = CountModelCalls(lg, u)
        BY <1>0, <1>2, AppendModelCalls
    <2> QED
        BY <1>0, <1>2, <2>1, AppendEvents, AppendStarted, AppendEnded
<1>6. OfStartedTurns(kg) /\ EndsAreLast(kg) /\ Within(kg, MaxModelCalls)
    BY <1>0, <1>2, AppendOfStarted, AppendEndsLast, AppendWithin, BudgetAssumption
<1>7. PausedOnJobs(kg, rs)
    <2>1. /\ DOMAIN kg = DOMAIN lg \cup {Len(lg) + 1}
          /\ \A i \in DOMAIN lg : kg[i] = lg[i]
          /\ kg[Len(lg) + 1] = e
        BY <1>0, <1>2, AppendEvents
    <2> HIDE DEF kg
    <2> QED
        BY <1>2, <2>1 DEF Held, PausedOnJobs
<1> HIDE DEF kg
<1>8. Shaped(kg, ds, rs, gl) /\ HoldersStarted(kg, ds, rs, gl)
    BY <1>4, <1>5, <1>6 DEF Held, Shaped, HoldersStarted
<1>9. CountsAgree(kg, ds) /\ EndedIsLeft(kg, ds, rs, gl)
    BY <1>4, <1>5 DEF Held, CountsAgree, EndedIsLeft
<1>10. Held(kg, ds, rs, gl)
    BY <1>4, <1>6, <1>7, <1>8, <1>9 DEF Held
<1> QED
    BY <1>4, <1>10 DEF gl, kg, e

\* A turn that nobody holds is failed.
LEMMA HeldFails ==
    ASSUME NEW lg, NEW ds, NEW rs, Held(lg, ds, rs, NoTurn),
           NEW t \in StartedIn(lg), t \notin EndedIn(lg), t \notin DOMAIN ds,
           \A n \in DOMAIN rs : rs[n].turn # t
    PROVE  Held(Append(lg, TurnFailed(t)), ds, rs, NoTurn)
<1> DEFINE e == TurnFailed(t)
           kg == Append(lg, e)
<1>1. t \in Nat
    BY DEF StartedIn
<1>2. e \in Event /\ e.turn = t /\ e.type = "TurnFailed"
    BY <1>1, EventTypesOK DEF TurnFailed, Ev
<1>3. NoTurn.kind # "Paused"
    BY DEF NoTurn
<1>0. lg \in Seq(Event) /\ OfStartedTurns(lg) /\ EndsAreLast(lg) /\ Within(lg, MaxModelCalls)
    BY DEF Held, Shaped, HoldersStarted
<1> HIDE DEF e
<1>5. /\ kg \in Seq(Event) /\ StartedIn(kg) = StartedIn(lg) /\ EndedIn(kg) = EndedIn(lg) \cup {t}
      /\ \A u : CountModelCalls(kg, u) = CountModelCalls(lg, u)
    <2>1. ASSUME NEW u
          PROVE  CountModelCalls(kg, u) = CountModelCalls(lg, u)
        BY <1>0, <1>2, AppendModelCalls
    <2> QED
        BY <1>0, <1>2, <2>1, AppendEvents, AppendStarted, AppendEnded
<1>6. OfStartedTurns(kg) /\ EndsAreLast(kg) /\ Within(kg, MaxModelCalls)
    BY <1>0, <1>2, AppendOfStarted, AppendEndsLast, AppendWithin, BudgetAssumption
<1>7. PausedOnJobs(kg, rs)
    <2>1. /\ DOMAIN kg = DOMAIN lg \cup {Len(lg) + 1}
          /\ \A i \in DOMAIN lg : kg[i] = lg[i]
          /\ kg[Len(lg) + 1] = e
        BY <1>0, <1>2, AppendEvents
    <2> HIDE DEF kg
    <2> QED
        BY <1>2, <2>1 DEF Held, PausedOnJobs
<1> HIDE DEF kg
<1>8. Shaped(kg, ds, rs, NoTurn) /\ HoldersStarted(kg, ds, rs, NoTurn)
    BY <1>5, <1>6 DEF Held, Shaped, HoldersStarted
<1>9. CountsAgree(kg, ds) /\ EndedIsLeft(kg, ds, rs, NoTurn)
    BY <1>3, <1>5 DEF Held, CountsAgree, EndedIsLeft
<1>10. Held(kg, ds, rs, NoTurn)
    BY <1>6, <1>7, <1>8, <1>9 DEF Held
<1> QED
    BY <1>10 DEF kg, e

\* An input starts the next turn: TurnStarted is written and the turn gets its task.
LEMMA HeldStarts ==
    ASSUME NEW lg, NEW ds, NEW rs, NEW fl, Held(lg, ds, rs, fl), NEW n \in Nat
    PROVE  LET t == FreshTurn(lg) IN
           Held(Append(lg, TurnStarted(t, n)),
                [u \in DOMAIN ds \cup {t} |-> IF u = t THEN FreshLikeInit ELSE ds[u]], rs, Active(t))
<1> DEFINE t == FreshTurn(lg)
           e == TurnStarted(t, n)
           kg == Append(lg, e)
<1>0. lg \in Seq(Event) /\ OfStartedTurns(lg) /\ EndsAreLast(lg) /\ Within(lg, MaxModelCalls)
    BY DEF Held, Shaped, HoldersStarted
<1>1. t \in Nat /\ t \notin StartedIn(lg)
    <2>1. TurnFailed(0) \in Event
        BY EventTypesOK
    <2> QED
        BY <1>0, <2>1, AppendStarted
<1> HIDE DEF t
<1>2. e \in Event /\ e.turn = t /\ e.type = "TurnStarted"
    BY <1>1, EventTypesOK DEF TurnStarted, Ev
<1> HIDE DEF e
<1>3. t \notin EndedIn(lg) /\ CountModelCalls(lg, t) = 0
    <2>1. \A i \in DOMAIN lg : lg[i].turn # t
        BY <1>0, <1>1 DEF OfStartedTurns
    <2> QED
        BY <1>0, <2>1, NoModelCallYet DEF EndedIn, Positions
<1>4. /\ kg \in Seq(Event) /\ StartedIn(kg) = StartedIn(lg) \cup {t} /\ EndedIn(kg) = EndedIn(lg)
      /\ \A u : CountModelCalls(kg, u) = CountModelCalls(lg, u)
    <2>1. ASSUME NEW u
          PROVE  CountModelCalls(kg, u) = CountModelCalls(lg, u)
        BY <1>0, <1>2, AppendModelCalls
    <2> QED
        BY <1>0, <1>2, <2>1, AppendEvents, AppendStarted, AppendEnded DEF t
<1>5. OfStartedTurns(kg) /\ EndsAreLast(kg) /\ Within(kg, MaxModelCalls)
    BY <1>0, <1>2, <1>3, AppendOfStarted, AppendEndsLast, AppendWithin, BudgetAssumption DEF t
<1>6. PausedOnJobs(kg, rs)
    <2>1. /\ DOMAIN kg = DOMAIN lg \cup {Len(lg) + 1}
          /\ \A i \in DOMAIN lg : kg[i] = lg[i]
          /\ kg[Len(lg) + 1] = e
        BY <1>0, <1>2, AppendEvents
    <2> HIDE DEF kg
    <2> QED
        BY <1>2, <2>1 DEF Held, PausedOnJobs
<1> HIDE DEF kg
<1>7. Shaped(kg, ds, rs, fl) /\ HoldersStarted(kg, ds, rs, fl)
    BY <1>4, <1>5 DEF Held, Shaped, HoldersStarted
<1>8. CountsAgree(kg, ds) /\ EndedIsLeft(kg, ds, rs, fl)
    BY <1>4 DEF Held, CountsAgree, EndedIsLeft
<1>9. Held(kg, ds, rs, fl)
    BY <1>5, <1>6, <1>7, <1>8 DEF Held
<1>10. WellFormed(FreshLikeInit) /\ FreshLikeInit.mcalls = 0
    <2>1. <<>> \in Seq(Call)
        OBVIOUS
    <2> QED
        BY <2>1 DEF WellFormed, FreshLikeInit, Task, Driver, Pcs, Busy, None
<1>11. /\ t \in StartedIn(kg) /\ t \notin EndedIn(kg) /\ t \notin DOMAIN ds
       /\ \A m \in DOMAIN rs : rs[m].turn # t
       /\ CountModelCalls(kg, t) = 0
    BY <1>1, <1>3, <1>4 DEF Held, HoldersStarted
<1> HIDE DEF FreshLikeInit
<1>12. Held(kg, [u \in DOMAIN ds \cup {t} |-> IF u = t THEN FreshLikeInit ELSE ds[u]], rs, Active(t))
    BY <1>9, <1>10, <1>11, HeldSpawn
<1> QED
    BY <1>12 DEF kg, e, t

\* A turn that replay takes up was started and has not ended, and the job it is paused
\* on is one of the manager's.
LEMMA TakenUp ==
    ASSUME NEW lg, NEW ds, NEW rs, NEW fl, Held(lg, ds, rs, fl), Replay(lg).point \in Taken
    PROVE  /\ Replay(lg).turn \in StartedIn(lg) /\ Replay(lg).turn \notin EndedIn(lg)
           /\ Replay(lg).pending \in Seq(Call) /\ Replay(lg).call \in Nat
           /\ Replay(lg).point \in {"ResumePausedJob", "ResumeAfterJobCompletion"} =>
                  Replay(lg).job \in JobIds
<1>1. lg \in Seq(Event) /\ OfStartedTurns(lg) /\ EndsAreLast(lg) /\ PausedOnJobs(lg, rs)
    BY DEF Held, Shaped, HoldersStarted
<1>2. /\ Replay(lg).pending \in Seq(Call) /\ Replay(lg).call \in Nat
      /\ \E b \in DOMAIN lg :
             /\ lg[b].type \in {"TurnStarted", "TurnPaused"}
             /\ Replay(lg).turn = lg[b].turn
             /\ \A k \in DOMAIN lg : lg[k].type \in Boundaries => k <= b
             /\ Replay(lg).point \in {"ResumePausedJob", "ResumeAfterJobCompletion"} =>
                    lg[b].type = "TurnPaused" /\ Replay(lg).job = lg[b].job
    BY <1>1, ReplayShape DEF Call
<1>3. PICK b \in DOMAIN lg :
             /\ lg[b].type \in {"TurnStarted", "TurnPaused"}
             /\ Replay(lg).turn = lg[b].turn
             /\ \A k \in DOMAIN lg : lg[k].type \in Boundaries => k <= b
             /\ Replay(lg).point \in {"ResumePausedJob", "ResumeAfterJobCompletion"} =>
                    lg[b].type = "TurnPaused" /\ Replay(lg).job = lg[b].job
    BY <1>2
<1>4. Replay(lg).turn \notin EndedIn(lg)
    <2> SUFFICES ASSUME Replay(lg).turn \in EndedIn(lg)
                 PROVE  FALSE
        OBVIOUS
    <2>1. PICK i \in Positions(lg, {"TurnCompleted", "TurnFailed"}) : lg[i].turn = lg[b].turn
        BY <1>3 DEF EndedIn
    <2>2. i \in DOMAIN lg /\ i <= b /\ i # b /\ i \in Nat /\ b \in Nat
        BY <1>1, <1>3, <2>1 DEF Positions, Boundaries
    <2>3. b > i
        BY <2>2
    <2> QED
        BY <1>1, <2>1, <2>3 DEF EndsAreLast
<1> QED
    BY <1>1, <1>2, <1>3, <1>4 DEF OfStartedTurns, PausedOnJobs

-----------------------------------------------------------------------------
(* The kinds of step a turn sees.                                          *)

\* The places at which a task has a job.
WithJob == {"Submitting", "Submitted", "Registering", "Registered", "Paused"}

\* The task of turn t goes on, as d, without writing.
Goes(t, d) ==
    /\ WellFormed(d) /\ drivers' = [drivers EXCEPT ![t] = d]
    /\ drivers[t].pc \notin Outcomes /\ d.pc \notin {"Completed", "Failed"}
    /\ d.mcalls = drivers[t].mcalls
    /\ d.pc \in WithJob => drivers[t].pc \in WithJob \cup {"ToolDispatching"}
    /\ log' = log /\ results' = results

Silent(t) == \E d : Goes(t, d)

\* The task of turn t writes an event e of its own and goes on as d.
Adds(t, d, e) ==
    /\ WellFormed(d) /\ drivers' = [drivers EXCEPT ![t] = d]
    /\ e \in Event /\ log' = Append(log, e) /\ e.turn = t
    /\ e.type \notin {"TurnStarted", "TurnPaused"}
    /\ drivers[t].pc \notin Outcomes
    /\ e.type \in {"TurnCompleted", "TurnFailed"} <=> d.pc \in {"Completed", "Failed"}
    /\ e.type = "ModelCallStarted" => /\ drivers[t].pc = "PromptBuilt"
                                      /\ d.mcalls = drivers[t].mcalls + 1
    /\ e.type # "ModelCallStarted" => d.mcalls = drivers[t].mcalls
    /\ e.type = "JobSubmitted" \/ d.pc \in WithJob => drivers[t].pc = "Submitted"
    /\ results' = results

Writes(t) == \E d, e : Adds(t, d, e)

\* Every step of a task but its last is of one of these kinds.
LEMMA TaskStep ==
    ASSUME SessionTypeOK, TasksWellFormed(drivers), NEW t \in DOMAIN drivers, NEW listening \in BOOLEAN,
           DriverStep(t, incarnation, listening)
    PROVE  Silent(t) \/ Writes(t) \/ PostOutcome(t, listening)
<1> USE DEF At, Goto
<1>1. /\ drivers[t] \in Driver /\ WellFormed(drivers[t]) /\ t \in Nat
      /\ drivers \in [DOMAIN drivers -> Driver]
      /\ log \in Seq(Event)
    BY DEF SessionTypeOK, TurnTypeOK, TasksWellFormed
<1>0. <<>> \in Seq(Call)
    OBVIOUS
<1>2. CASE RecordTurnFailed(t)
    <2> DEFINE d == [drivers[t] EXCEPT !.pc = "Failed"]
               e == TurnFailed(t)
    <2>1. e \in Event /\ e.turn = t /\ e.type = "TurnFailed"
        BY <1>1, EventTypesOK DEF TurnFailed, Ev
    <2>2. WellFormed(d) /\ d.pc = "Failed" /\ d.mcalls = drivers[t].mcalls
        BY <1>1 DEF WellFormed, Driver, Pcs, Busy
    <2>3. /\ drivers' = [drivers EXCEPT ![t] = d] /\ log' = Append(log, e) /\ results' = results
          /\ drivers[t].pc = "Failing"
        BY <1>2 DEF RecordTurnFailed, Record
    <2> HIDE DEF d, e
    <2>4. Adds(t, d, e)
        BY <2>1, <2>2, <2>3 DEF Adds, Outcomes, WithJob
    <2> QED
        BY <2>4 DEF Writes
<1>3. CASE InitTransit(t)
    <2>0. PICK pc \in {"Failing", "ContextManaged"} :
              /\ drivers' = [drivers EXCEPT ![t].pc = pc]
              /\ pc = "ContextManaged" => drivers[t].mcalls < MaxModelCalls
        <3>1. drivers[t].mcalls \in Nat
            BY <1>1 DEF Driver
        <3>2. CASE drivers[t].mcalls >= MaxModelCalls
            BY <1>3, <3>2 DEF InitTransit
        <3>3. CASE ~(drivers[t].mcalls >= MaxModelCalls)
            <4>1. drivers[t].mcalls < MaxModelCalls
                BY <3>1, <3>3, BudgetAssumption
            <4> QED
                BY <1>3, <3>3, <4>1 DEF InitTransit
        <3> QED
            BY <3>2, <3>3
    <2> DEFINE d == [drivers[t] EXCEPT !.pc = pc]
    <2>1. drivers' = [drivers EXCEPT ![t] = d] /\ UNCHANGED <<log, results>> /\ drivers[t].pc = "Init"
        BY <1>3, <2>0 DEF InitTransit
    <2>2. WellFormed(d) /\ d.mcalls = drivers[t].mcalls /\ d.pc \in {"Failing", "ContextManaged"}
        BY <1>1, <2>0 DEF WellFormed, Driver, Pcs, Busy
    <2> HIDE DEF d
    <2>9. Goes(t, d)
        BY <2>1, <2>2 DEF Goes, Outcomes, WithJob
    <2> QED
        BY <2>9 DEF Silent
<1>4. CASE ContextManagedTransit(t)
    <2>1. PICK pc \in {"PromptBuilt", "Failing"} : drivers' = [drivers EXCEPT ![t].pc = pc]
        BY <1>4 DEF ContextManagedTransit
    <2> DEFINE d == [drivers[t] EXCEPT !.pc = pc]
    <2>2. drivers' = [drivers EXCEPT ![t] = d] /\ UNCHANGED <<log, results>>
          /\ drivers[t].pc = "ContextManaged"
        BY <1>4, <2>1 DEF ContextManagedTransit
    <2>3. WellFormed(d) /\ d.mcalls = drivers[t].mcalls /\ d.pc = pc
        BY <1>1, <2>2 DEF WellFormed, Driver, Pcs, Busy
    <2> HIDE DEF d
    <2>9. Goes(t, d)
        BY <2>2, <2>3 DEF Goes, Outcomes, WithJob
    <2> QED
        BY <2>9 DEF Silent
<1>5. CASE RecordModelCallStarted(t)
    <2> DEFINE d == [drivers[t] EXCEPT !.pc = "Opening", !.mcalls = drivers[t].mcalls + 1]
               e == ModelCallStarted(t)
    <2>1. e \in Event /\ e.turn = t /\ e.type = "ModelCallStarted"
        BY <1>1, EventTypesOK DEF ModelCallStarted, Ev
    <2>0. drivers[t].mcalls + 1 \in Nat
        BY <1>1 DEF Driver
    <2>2. WellFormed(d) /\ d.pc = "Opening" /\ d.mcalls = drivers[t].mcalls + 1
        <3> DEFINE n == drivers[t].mcalls + 1
        <3> HIDE DEF n
        <3>1. n \in Nat
            BY <2>0 DEF n
        <3>2. WellFormed([drivers[t] EXCEPT !.pc = "Opening", !.mcalls = n])
            BY <1>1, <3>1 DEF WellFormed, Driver, Pcs, Busy
        <3> QED
            BY <1>1, <3>2 DEF n, Driver
    <2>3. /\ drivers' = [drivers EXCEPT ![t] = d] /\ log' = Append(log, e) /\ results' = results
          /\ drivers[t].pc = "PromptBuilt"
        BY <1>5 DEF RecordModelCallStarted, Record
    <2> HIDE DEF d, e
    <2>4. Adds(t, d, e)
        BY <2>1, <2>2, <2>3 DEF Adds, Outcomes, WithJob
    <2> QED
        BY <2>4 DEF Writes
<1>6. CASE OpenStream(t)
    <2>1. PICK d \in {[drivers[t] EXCEPT !.pc = "ModelCalling", !.todo = <<>>],
                      [drivers[t] EXCEPT !.pc = "Failing"]} : drivers' = [drivers EXCEPT ![t] = d]
        BY <1>6 DEF OpenStream
    <2>2. UNCHANGED <<log, results>> /\ drivers[t].pc = "Opening"
        BY <1>6 DEF OpenStream
    <2>3. WellFormed(d) /\ d.mcalls = drivers[t].mcalls /\ d.pc \in {"ModelCalling", "Failing"}
        BY <1>0, <1>1, <2>1 DEF WellFormed, Driver, Pcs, Busy
    <2>9. Goes(t, d)
        BY <2>1, <2>2, <2>3 DEF Goes, Outcomes, WithJob
    <2> QED
        BY <2>9 DEF Silent
<1>7. CASE DemuxToolUse(t)
    <2>1. PICK check \in Checks :
              LET c == FreshCall(log) IN
              /\ log' = Append(log, ToolUse(t, c, check))
              /\ drivers' = [drivers EXCEPT ![t].todo = Append(@, [id |-> c, ok |-> check = "valid"])]
        BY <1>7 DEF DemuxToolUse
    <2> DEFINE c == FreshCall(log)
               q == Append(drivers[t].todo, [id |-> c, ok |-> check = "valid"])
               d == [drivers[t] EXCEPT !.todo = q]
               e == ToolUse(t, c, check)
    <2>2. c \in Nat
        BY <1>1, EventTypesOK, AppendPositions DEF FreshCall
    <2>3. drivers' = [drivers EXCEPT ![t] = d] /\ log' = Append(log, e) /\ results' = results
          /\ drivers[t].pc = "ModelCalling"
        BY <1>7, <2>1 DEF DemuxToolUse
    <2> HIDE DEF c
    <2>4. e \in Event /\ e.turn = t /\ e.type = "ToolUseRecorded"
        BY <1>1, <2>2, EventTypesOK, ChecksAssumption DEF ToolUse, Ev
    <2>5. q \in Seq(Call)
        BY <1>1, <2>2 DEF Driver, Call
    <2> HIDE DEF q
    <2>6. WellFormed(d) /\ d.pc = drivers[t].pc /\ d.mcalls = drivers[t].mcalls
        BY <1>1, <2>5 DEF WellFormed, Driver
    <2> HIDE DEF d, e
    <2>7. Adds(t, d, e)
        BY <2>3, <2>4, <2>6 DEF Adds, Outcomes, WithJob
    <2> QED
        BY <2>7 DEF Writes
<1>8. CASE DemuxMessageCompleted(t)
    <2>1. PICK stop \in StopReasons : log' = Append(log, ModelCallCompleted(t, stop))
        BY <1>8 DEF DemuxMessageCompleted
    <2> DEFINE d == [drivers[t] EXCEPT !.pc = "Sealed"]
               e == ModelCallCompleted(t, stop)
    <2>2. e \in Event /\ e.turn = t /\ e.type = "ModelCallCompleted"
        BY <1>1, EventTypesOK DEF ModelCallCompleted, Ev
    <2>3. WellFormed(d) /\ d.pc = "Sealed" /\ d.mcalls = drivers[t].mcalls
        BY <1>1 DEF WellFormed, Driver, Pcs, Busy
    <2>4. /\ drivers' = [drivers EXCEPT ![t] = d] /\ log' = Append(log, e) /\ results' = results
          /\ drivers[t].pc = "ModelCalling"
        BY <1>8, <2>1 DEF DemuxMessageCompleted
    <2> HIDE DEF d, e
    <2>5. Adds(t, d, e)
        BY <2>2, <2>3, <2>4 DEF Adds, Outcomes, WithJob
    <2> QED
        BY <2>5 DEF Writes
<1>9. CASE DemuxEnd(t)
    <2>1. PICK d \in {[drivers[t] EXCEPT !.pc = "ModelCompleted", !.bad = FALSE],
                      [drivers[t] EXCEPT !.pc = "Failing"]} : drivers' = [drivers EXCEPT ![t] = d]
        BY <1>9 DEF DemuxEnd
    <2>2. UNCHANGED <<log, results>> /\ drivers[t].pc \in {"Sealed", "ModelCalling"}
        BY <1>9 DEF DemuxEnd
    <2>3. WellFormed(d) /\ d.mcalls = drivers[t].mcalls /\ d.pc \in {"ModelCompleted", "Failing"}
        BY <1>1, <2>1 DEF WellFormed, Driver, Pcs, Busy
    <2>9. Goes(t, d)
        BY <2>1, <2>2, <2>3 DEF Goes, Outcomes, WithJob
    <2> QED
        BY <2>9 DEF Silent
<1>10. CASE Resolve(t)
    <2> DEFINE c == Head(drivers[t].todo)
               rest == Tail(drivers[t].todo)
    <2>1. /\ c \in Call /\ rest \in Seq(Call) /\ Append(drivers[t].pend, c) \in Seq(Call)
          /\ drivers[t].pc = "ModelCompleted" /\ results' = results
        <3>1. drivers[t].todo \in Seq(Call) /\ drivers[t].todo # <<>> /\ drivers[t].pend \in Seq(Call)
            BY <1>1, <1>10 DEF Resolve, Driver
        <3>2. c \in Call
            BY <3>1
        <3> QED
            BY <1>10, <3>1, <3>2 DEF Resolve
    <2>2. CASE c.ok
        <3> DEFINE p == Append(drivers[t].pend, c)
                   d == [drivers[t] EXCEPT !.todo = rest, !.pend = p]
        <3>1. drivers' = [drivers EXCEPT ![t] = d] /\ log' = log
            BY <1>10, <2>2 DEF Resolve
        <3> HIDE DEF p, rest
        <3>2. WellFormed(d) /\ d.pc = "ModelCompleted" /\ d.mcalls = drivers[t].mcalls
            BY <1>1, <2>1 DEF WellFormed, Driver, Pcs, Busy, p, rest
        <3> HIDE DEF d
        <3>9. Goes(t, d)
            BY <2>1, <3>1, <3>2 DEF Goes, Outcomes, WithJob
        <3> QED
            BY <3>9 DEF Silent
    <2>3. CASE ~c.ok
        <3> DEFINE d == [drivers[t] EXCEPT !.todo = rest, !.bad = TRUE]
                   e == ToolResult(t, c.id)
        <3>1. drivers' = [drivers EXCEPT ![t] = d] /\ log' = Append(log, e)
            BY <1>10, <2>3 DEF Resolve, Record
        <3>2. e \in Event /\ e.turn = t /\ e.type = "ToolResultRecorded"
            BY <1>1, <2>1, EventTypesOK DEF Call, ToolResult, Ev
        <3> HIDE DEF rest
        <3>3. WellFormed(d) /\ d.pc = "ModelCompleted" /\ d.mcalls = drivers[t].mcalls
            BY <1>1, <2>1 DEF WellFormed, Driver, Pcs, Busy, rest
        <3> HIDE DEF d, e
        <3>4. Adds(t, d, e)
            BY <2>1, <3>1, <3>2, <3>3 DEF Adds, Outcomes, WithJob
        <3> QED
            BY <3>4 DEF Writes
    <2> QED
        BY <2>2, <2>3
<1>11. CASE RecordTurnCompleted(t)
    <2> DEFINE d == [drivers[t] EXCEPT !.pc = "Completed"]
               e == TurnCompleted(t)
    <2>1. e \in Event /\ e.turn = t /\ e.type = "TurnCompleted"
        BY <1>1, EventTypesOK DEF TurnCompleted, Ev
    <2>2. WellFormed(d) /\ d.pc = "Completed" /\ d.mcalls = drivers[t].mcalls
        BY <1>1 DEF WellFormed, Driver, Pcs, Busy
    <2>3. /\ drivers' = [drivers EXCEPT ![t] = d] /\ log' = Append(log, e) /\ results' = results
          /\ drivers[t].pc = "ModelCompleted"
        BY <1>11 DEF RecordTurnCompleted, Record
    <2> HIDE DEF d, e
    <2>4. Adds(t, d, e)
        BY <2>1, <2>2, <2>3 DEF Adds, Outcomes, WithJob
    <2> QED
        BY <2>4 DEF Writes
<1>12. CASE CountErrors(t)
    <2>1. PICK streak \in Nat, pc \in {"Failing", "ToolDispatching"} :
              drivers' = [drivers EXCEPT ![t].streak = streak, ![t].pc = pc]
        <3> DEFINE streak == IF drivers[t].pend = <<>> THEN drivers[t].streak + 1 ELSE 0
                   pc == IF streak >= MAX_CONSECUTIVE_TOOL_ERRORS THEN "Failing" ELSE "ToolDispatching"
        <3>1. streak \in Nat
            BY <1>1 DEF Driver
        <3>2. drivers' = [drivers EXCEPT ![t].streak = streak, ![t].pc = pc]
            BY <1>12 DEF CountErrors
        <3> HIDE DEF streak
        <3>3. pc \in {"Failing", "ToolDispatching"}
            OBVIOUS
        <3> HIDE DEF pc
        <3> QED
            BY <3>1, <3>2, <3>3
    <2> DEFINE d == [drivers[t] EXCEPT !.streak = streak, !.pc = pc]
    <2>2. drivers' = [drivers EXCEPT ![t] = d] /\ UNCHANGED <<log, results>>
          /\ drivers[t].pc = "ModelCompleted"
        BY <1>12, <2>1 DEF CountErrors
    <2>3. WellFormed(d) /\ d.mcalls = drivers[t].mcalls /\ d.pc = pc
        BY <1>1 DEF WellFormed, Driver, Pcs, Busy
    <2> HIDE DEF d
    <2>9. Goes(t, d)
        BY <2>2, <2>3 DEF Goes, Outcomes, WithJob
    <2> QED
        BY <2>9 DEF Silent
<1>13. CASE DispatchDone(t)
    <2> DEFINE d == [drivers[t] EXCEPT !.pc = "Init"]
    <2>1. drivers' = [drivers EXCEPT ![t] = d] /\ UNCHANGED <<log, results>>
          /\ drivers[t].pc = "ToolDispatching"
        BY <1>13 DEF DispatchDone
    <2>2. WellFormed(d) /\ d.mcalls = drivers[t].mcalls /\ d.pc = "Init"
        BY <1>1 DEF WellFormed, Driver, Pcs, Busy
    <2> HIDE DEF d
    <2>9. Goes(t, d)
        BY <2>1, <2>2 DEF Goes, Outcomes, WithJob
    <2> QED
        BY <2>9 DEF Silent
<1>14. CASE Invoke(t)
    <2>1. UNCHANGED <<log, results>> /\ drivers[t].pc = "ToolDispatching" /\ drivers[t].pend # <<>>
        BY <1>14 DEF Invoke
    <2>2. PICK j \in JobIds \cup StrayJobs \cup {drivers[t].job}, pc \in {"Invoked", "Submitting", "Submitted"} :
              drivers' = [drivers EXCEPT ![t] = [drivers[t] EXCEPT !.pc = pc, !.job = j]]
        <3>1. CASE drivers' = [drivers EXCEPT ![t].pc = "Invoked"]
            <4>1. [drivers[t] EXCEPT !.pc = "Invoked"] =
                      [drivers[t] EXCEPT !.pc = "Invoked", !.job = drivers[t].job]
                BY <1>1 DEF Driver
            <4> QED
                BY <3>1, <4>1
        <3>2. CASE \E j \in JobIds \cup StrayJobs, pc \in {"Submitting", "Submitted"} :
                       drivers' = [drivers EXCEPT ![t].pc = pc, ![t].job = j]
            <4>1. PICK j \in JobIds \cup StrayJobs, pc \in {"Submitting", "Submitted"} :
                       drivers' = [drivers EXCEPT ![t].pc = pc, ![t].job = j]
                BY <3>2
            <4>2. drivers' = [drivers EXCEPT ![t] = [drivers[t] EXCEPT !.pc = pc, !.job = j]]
                BY <4>1
            <4> QED
                BY <4>2
        <3>3. \/ drivers' = [drivers EXCEPT ![t].pc = "Invoked"]
              \/ \E j \in JobIds : drivers' = [drivers EXCEPT ![t].pc = "Submitting", ![t].job = j]
              \/ \E j \in StrayJobs : drivers' = [drivers EXCEPT ![t].pc = "Submitted", ![t].job = j]
            BY <1>14 DEF Invoke, Goto
        <3> QED
            BY <3>1, <3>2, <3>3
    <2> DEFINE d == [drivers[t] EXCEPT !.pc = pc, !.job = j]
    <2>3. j \in Nat
        BY <1>1, JobIdsAssumption DEF Driver
    <2>4. WellFormed(d) /\ d.mcalls = drivers[t].mcalls /\ d.pc = pc
        BY <1>1, <2>1, <2>3 DEF WellFormed, Driver, Pcs, Busy
    <2> HIDE DEF d
    <2>9. Goes(t, d)
        BY <2>1, <2>2, <2>4 DEF Goes, Outcomes, WithJob, d
    <2> QED
        BY <2>9 DEF Silent
<1>15. CASE SubmitReturns(t)
    <2> DEFINE d == [drivers[t] EXCEPT !.pc = "Submitted"]
    <2>1. drivers' = [drivers EXCEPT ![t] = d] /\ UNCHANGED <<log, results>>
          /\ drivers[t].pc = "Submitting"
        BY <1>15 DEF SubmitReturns
    <2>2. WellFormed(d) /\ d.mcalls = drivers[t].mcalls /\ d.pc = "Submitted"
        BY <1>1, <2>1 DEF WellFormed, Driver, Pcs, Busy
    <2> HIDE DEF d
    <2>9. Goes(t, d)
        BY <2>1, <2>2 DEF Goes, Outcomes, WithJob
    <2> QED
        BY <2>9 DEF Silent
<1>16. CASE RecordJobSubmitted(t)
    <2> DEFINE d == [drivers[t] EXCEPT !.pc = "Registering"]
               c == Head(drivers[t].pend)
               e == JobSubmitted(t, c.id, drivers[t].job)
    <2>1. /\ drivers' = [drivers EXCEPT ![t] = d] /\ log' = Append(log, e) /\ results' = results
          /\ drivers[t].pc = "Submitted"
        BY <1>16 DEF RecordJobSubmitted, Record
    <2>2. c \in Call /\ drivers[t].job \in Nat
        BY <1>1, <2>1 DEF WellFormed, Driver, Busy
    <2>3. e \in Event /\ e.turn = t /\ e.type = "JobSubmitted"
        BY <1>1, <2>2, EventTypesOK DEF Call, JobSubmitted, Ev
    <2>4. WellFormed(d) /\ d.pc = "Registering" /\ d.mcalls = drivers[t].mcalls
        BY <1>1, <2>1 DEF WellFormed, Driver, Pcs, Busy
    <2> HIDE DEF d, e
    <2>5. Adds(t, d, e)
        BY <2>1, <2>3, <2>4 DEF Adds, Outcomes, WithJob
    <2> QED
        BY <2>5 DEF Writes
<1>17. CASE RegisterSink(t, incarnation)
    <2>1. /\ UNCHANGED <<log, results>> /\ drivers[t].pc = "Registering"
          /\ \/ drivers[t].job \in JobIds /\ drivers' = [drivers EXCEPT ![t].pc = "Registered"]
             \/ drivers' = [drivers EXCEPT ![t].pc = "Invoked"]
        BY <1>17 DEF RegisterSink, Known, SessionTypeOK, JobTypeOK
    <2>2. PICK pc \in {"Registered", "Invoked"} :
              /\ drivers' = [drivers EXCEPT ![t].pc = pc]
              /\ pc = "Registered" => drivers[t].job \in JobIds
        BY <2>1
    <2> DEFINE d == [drivers[t] EXCEPT !.pc = pc]
    <2>3. WellFormed(d) /\ d.mcalls = drivers[t].mcalls /\ d.pc = pc
        BY <1>1, <2>1, <2>2 DEF WellFormed, Driver, Pcs, Busy
    <2>4. drivers' = [drivers EXCEPT ![t] = d]
        BY <2>2
    <2> HIDE DEF d
    <2>9. Goes(t, d)
        BY <2>1, <2>3, <2>4 DEF Goes, Outcomes, WithJob
    <2> QED
        BY <2>9 DEF Silent
<1>18. CASE PauseTurn(t)
    <2> DEFINE d == [drivers[t] EXCEPT !.pc = "Paused", !.pend = <<>>]
    <2>1. drivers' = [drivers EXCEPT ![t] = d] /\ UNCHANGED <<log, results>>
          /\ drivers[t].pc = "Registered"
        BY <1>18 DEF PauseTurn
    <2>2. WellFormed(d) /\ d.mcalls = drivers[t].mcalls /\ d.pc = "Paused"
        BY <1>0, <1>1, <2>1 DEF WellFormed, Driver, Pcs, Busy
    <2> HIDE DEF d
    <2>9. Goes(t, d)
        BY <2>1, <2>2 DEF Goes, Outcomes, WithJob
    <2> QED
        BY <2>9 DEF Silent
<1>19. CASE RecordToolResult(t)
    <2> DEFINE c == Head(drivers[t].pend)
               rest == Tail(drivers[t].pend)
               d == [drivers[t] EXCEPT !.pc = "ToolDispatching", !.pend = rest, !.job = None]
               e == ToolResult(t, c.id)
    <2>1. /\ drivers' = [drivers EXCEPT ![t] = d] /\ log' = Append(log, e) /\ results' = results
          /\ drivers[t].pc = "Invoked"
        BY <1>19 DEF RecordToolResult, Record
    <2>2. c \in Call /\ rest \in Seq(Call)
        BY <1>1, <2>1 DEF WellFormed, Driver, Busy
    <2>3. e \in Event /\ e.turn = t /\ e.type = "ToolResultRecorded"
        BY <1>1, <2>2, EventTypesOK DEF Call, ToolResult, Ev
    <2> HIDE DEF rest
    <2>4. WellFormed(d) /\ d.pc = "ToolDispatching" /\ d.mcalls = drivers[t].mcalls
        BY <1>1, <2>2 DEF WellFormed, Driver, Pcs, Busy, None
    <2> HIDE DEF d, e
    <2>5. Adds(t, d, e)
        BY <2>1, <2>3, <2>4 DEF Adds, Outcomes, WithJob
    <2> QED
        BY <2>5 DEF Writes
<1> QED
    BY <1>2, <1>3, <1>4, <1>5, <1>6, <1>7, <1>8, <1>9, <1>10, <1>11, <1>12, <1>13, <1>14, <1>15,
       <1>16, <1>17, <1>18, <1>19 DEF DriverStep

\* A task's step calls the manager at most once, and takes or frees the recorder.
LEMMA TaskCalls ==
    ASSUME SessionTypeOK, TasksWellFormed(drivers), incarnation \in Sinks,
           NEW t \in DOMAIN drivers, NEW listening \in BOOLEAN,
           DriverStep(t, incarnation, listening)
    PROVE  JobTypeOK' /\ recorder' \in {"free", "demux", recorder}
<1> DEFINE Call1 == \E j \in JobIds : Submit(j) \/ PatchAbort(j) \/ \E s \in Sinks : OnComplete(j, s)
<1>1. /\ Call1 \/ UNCHANGED jobVars
      /\ recorder' \in {"free", "demux", recorder}
    <2>1. CASE Invoke(t)
        BY <2>1 DEF Invoke
    <2>2. CASE SubmitReturns(t)
        <3>1. PatchAbort(drivers[t].job) /\ recorder' = recorder
            BY <2>2 DEF SubmitReturns
        <3>2. drivers[t].job \in JobIds
            BY <3>1 DEF PatchAbort, SessionTypeOK, JobTypeOK
        <3> QED
            BY <3>1, <3>2
    <2>3. CASE RegisterSink(t, incarnation)
        <3>1. /\ OnComplete(drivers[t].job, incarnation) \/ UNCHANGED jobVars
              /\ recorder' = recorder
            BY <2>3 DEF RegisterSink
        <3>2. OnComplete(drivers[t].job, incarnation) => drivers[t].job \in JobIds
            BY DEF OnComplete, Known, SessionTypeOK, JobTypeOK
        <3> QED
            BY <3>1, <3>2
    <2>4. CASE OpenStream(t) \/ DemuxEnd(t)
        BY <2>4 DEF OpenStream, DemuxEnd
    <2>5. CASE \/ RecordTurnFailed(t) \/ InitTransit(t) \/ ContextManagedTransit(t)
               \/ RecordModelCallStarted(t) \/ DemuxToolUse(t) \/ DemuxMessageCompleted(t)
               \/ Resolve(t) \/ RecordTurnCompleted(t) \/ CountErrors(t)
        BY <2>5 DEF RecordTurnFailed, InitTransit, ContextManagedTransit, RecordModelCallStarted,
           DemuxToolUse, DemuxMessageCompleted, Resolve, RecordTurnCompleted, CountErrors
    <2>6. CASE \/ DispatchDone(t) \/ RecordJobSubmitted(t) \/ PauseTurn(t)
               \/ RecordToolResult(t) \/ PostOutcome(t, listening)
        BY <2>6 DEF DispatchDone, RecordJobSubmitted, PauseTurn, RecordToolResult, PostOutcome
    <2> QED
        BY <2>1, <2>2, <2>3, <2>4, <2>5, <2>6 DEF DriverStep
<1>2. JobTypeOK
    BY DEF SessionTypeOK
<1> QED
    BY <1>1, <1>2, CallType

-----------------------------------------------------------------------------
(* The invariant.                                                          *)

\* The invariant says what the type invariant does.
LEMMA InvTypes == SessionInv => SessionTypeOK
<1> SUFFICES ASSUME SessionInv
             PROVE  SessionTypeOK
    OBVIOUS
<1>1. /\ log \in Seq(Event) /\ results \in Seq(Result) /\ inFlight \in InFlight
      /\ DOMAIN drivers \subseteq Nat /\ drivers = [t \in DOMAIN drivers |-> drivers[t]]
      /\ \A t \in DOMAIN drivers : drivers[t] \in Driver
    BY DEF SessionInv, Held, Shaped, TasksWellFormed, WellFormed
<1>2. drivers \in [DOMAIN drivers -> Driver]
    BY <1>1
<1> QED
    BY <1>1, <1>2 DEF SessionInv, AsideOK, SessionTypeOK, TurnTypeOK

\* A session that was never opened.
LEMMA SessionInvInit == Init => SessionInv
<1> SUFFICES ASSUME Init
             PROVE  SessionInv
    OBVIOUS
<1>1. JobTypeOK
    BY DEF Init, JobInit, JobTypeOK
<1>2. AsideOK
    <2>1. <<>> \in Seq(Command) /\ Len(<<>>) = 0
        OBVIOUS
    <2> QED
        BY <2>1, MailboxAssumption DEF Init, TurnInit, AsideOK, Modes, Asking, Idle, None
<1>3. ActorHolds
    BY DEF Init, TurnInit, ActorHolds, NoTurn, Alive, Handling
<1>4. Held(log, drivers, results, inFlight)
    <2>1. /\ log = <<>> /\ drivers = [t \in {} |-> {}] /\ results = <<>> /\ inFlight = NoTurn
        BY DEF Init, TurnInit
    <2>2. NoTurn \in InFlight /\ NoTurn.kind # "Paused"
        BY DEF NoTurn, InFlight, None
    <2>3. /\ <<>> \in Seq(Event) /\ <<>> \in Seq(Result) /\ DOMAIN <<>> = {}
        OBVIOUS
    <2>4. OfStartedTurns(<<>>) /\ EndsAreLast(<<>>)
        BY DEF OfStartedTurns, EndsAreLast, Positions
    <2>5. Within(<<>>, MaxModelCalls)
        <3>1. Positions(<<>>, {"TurnStarted"}) = {} /\ Cardinality({}) = 0
            BY FS_EmptySet DEF Positions
        <3> QED
            BY <3>1 DEF Within, StartedIn
    <2> HIDE DEF NoTurn
    <2> QED
        BY <2>1, <2>2, <2>3, <2>4, <2>5 DEF Held, Shaped, TasksWellFormed, PausedOnJobs, HoldersStarted,
           CountsAgree, OneHolder, EndedIsLeft
<1> QED
    BY <1>1, <1>2, <1>3, <1>4 DEF SessionInv

\* A turn task's step.
LEMMA TurnStepInv == SessionInv /\ TurnStep => SessionInv'
<1> SUFFICES ASSUME SessionInv, TurnStep
             PROVE  SessionInv'
    OBVIOUS
<1>1. PICK t \in DOMAIN drivers : DriverStep(t, incarnation, mode \in Alive)
    BY DEF TurnStep
<1>2. /\ UNCHANGED <<mode, inFlight, pendingInput, mailbox, held, incarnation>>
      /\ UNCHANGED <<asking, inputs, cancels, shutdowns, crashes, abandoned, forgotten>>
    BY DEF TurnStep, sessionVars, actorVars, clientVars, historyVars
<1>3. /\ SessionTypeOK /\ TasksWellFormed(drivers) /\ mode # "down" /\ incarnation \in Sinks
      /\ (mode \in Alive) \in BOOLEAN
    BY InvTypes DEF SessionInv, Held, ActorHolds
<1>4. JobTypeOK' /\ recorder' \in {"free", "demux", recorder}
    BY <1>1, <1>3, TaskCalls
<1>5. AsideOK'
    BY <1>2, <1>4 DEF SessionInv, AsideOK
<1>6. /\ Held(log', drivers', results', inFlight)
      /\ mode \notin Alive => results' = results
    <2>1. Silent(t) \/ Writes(t) \/ PostOutcome(t, mode \in Alive)
        BY <1>1, <1>3, TaskStep
    <2>2. CASE Silent(t)
        <3>1. PICK d : Goes(t, d)
            BY <2>2 DEF Silent
        <3>2. Held(log, [drivers EXCEPT ![t] = d], results, inFlight)
            BY <3>1, HeldGoes DEF Goes, SessionInv
        <3> QED
            BY <3>1, <3>2 DEF Goes
    <2>3. CASE Writes(t)
        <3>1. PICK d, e : Adds(t, d, e)
            BY <2>3 DEF Writes
        <3>2. Held(Append(log, e), [drivers EXCEPT ![t] = d], results, inFlight)
            BY <3>1, HeldAdds DEF Adds, SessionInv
        <3> QED
            BY <3>1, <3>2 DEF Adds
    <2>4. CASE PostOutcome(t, mode \in Alive)
        <3> DEFINE q == Append(results, [turn |-> t, outcome |-> drivers[t].pc, job |-> drivers[t].job])
        <3>1. /\ log' = log /\ drivers' = [u \in DOMAIN drivers \ {t} |-> drivers[u]]
              /\ drivers[t].pc \in Outcomes
              /\ results' = IF mode \in Alive THEN q ELSE results
            BY <2>4 DEF PostOutcome
        <3>2. results' \in {results, q} /\ (mode \notin Alive => results' = results)
            BY <3>1
        <3>3. Held(log, [u \in DOMAIN drivers \ {t} |-> drivers[u]], results', inFlight)
            BY <3>1, <3>2, HeldPost DEF SessionInv
        <3> QED
            BY <3>1, <3>2, <3>3
    <2> QED
        BY <2>1, <2>2, <2>3, <2>4
<1>7. ActorHolds'
    BY <1>2, <1>3, <1>6 DEF SessionInv, ActorHolds, is_paused
<1>8. Held(log, drivers, results, inFlight)'
    BY <1>2, <1>6
<1> QED
    BY <1>4, <1>5, <1>7, <1>8 DEF SessionInv

\* A command is posted within the mailbox's capacity, or taken off it.
LEMMA MailboxType ==
    ASSUME AsideOK
    PROVE  /\ \A c \in Command : Len(mailbox) < MailboxCap /\ mailbox' = Append(mailbox, c) =>
                  mailbox' \in Seq(Command) /\ Len(mailbox') <= MailboxCap
           /\ Arm2 /\ mailbox' = Tail(mailbox) =>
                  /\ mailbox' \in Seq(Command) /\ Len(mailbox') <= MailboxCap
                  /\ Head(mailbox) \in Command /\ Head(mailbox).n \in Nat
                  /\ mode = "running"
<1>1. mailbox \in Seq(Command) /\ Len(mailbox) <= MailboxCap /\ MailboxCap \in Nat
    BY MailboxAssumption DEF AsideOK
<1>2. ASSUME NEW c \in Command, Len(mailbox) < MailboxCap, mailbox' = Append(mailbox, c)
      PROVE  mailbox' \in Seq(Command) /\ Len(mailbox') <= MailboxCap
    BY <1>1, <1>2
<1>3. ASSUME Arm2, mailbox' = Tail(mailbox)
      PROVE  /\ mailbox' \in Seq(Command) /\ Len(mailbox') <= MailboxCap
             /\ Head(mailbox) \in Command /\ Head(mailbox).n \in Nat
             /\ mode = "running"
    <2>1. mailbox # <<>> /\ mode = "running"
        BY <1>3 DEF Arm2
    <2>2. /\ mailbox' \in Seq(Command) /\ Len(mailbox') <= MailboxCap
          /\ Head(mailbox) \in Command
        BY <1>1, <1>3, <2>1
    <2> QED
        BY <2>1, <2>2 DEF Command
<1> QED
    BY <1>2, <1>3

\* A step that moves no turn: the actor lets go of its turn at most.
LEMMA QuietInv ==
    ASSUME SessionInv, JobTypeOK', AsideOK', ActorHolds', UNCHANGED <<log, drivers, results>>,
           inFlight' = inFlight \/ inFlight' = NoTurn
    PROVE  SessionInv'
<1>1. NoTurn \in InFlight /\ NoTurn.kind # "Paused"
    BY DEF NoTurn, InFlight, None
<1>2. Held(log, drivers, results, inFlight')
    BY <1>1, HeldLetGo DEF SessionInv
<1>3. Held(log, drivers, results, inFlight)'
    BY <1>2
<1> QED
    BY <1>3 DEF SessionInv

\* Clients post commands.
LEMMA ClientInv == SessionInv /\ ClientStep => SessionInv'
<1> SUFFICES ASSUME SessionInv, ClientStep
             PROVE  SessionInv'
    OBVIOUS
<1>0. /\ UNCHANGED <<jobVars, turnVars, mode, inFlight, pendingInput, held, incarnation, historyVars>>
      /\ \E c \in {"Trigger", "InternalCancel", "Snapshot", "CancelJob", "Shutdown"}, n \in Nat :
             Post(Cmd(c, n))
      /\ asking' \in Asking /\ inputs' \in Nat /\ cancels' \in Nat /\ shutdowns' \in Nat
    <2>1. CASE ClientSubmit
        BY <2>1 DEF ClientSubmit, SessionInv, AsideOK
    <2>2. CASE ClientCancel
        BY <2>2 DEF ClientCancel, SessionInv, AsideOK, Asking, Idle, None
    <2>3. CASE ClientShutdown
        BY <2>3 DEF ClientShutdown, SessionInv, AsideOK
    <2> QED
        BY <2>1, <2>2, <2>3 DEF ClientStep
<1>1. mailbox' \in Seq(Command) /\ Len(mailbox') <= MailboxCap
    <2>1. PICK c \in {"Trigger", "InternalCancel", "Snapshot", "CancelJob", "Shutdown"}, n \in Nat :
              Post(Cmd(c, n))
        BY <1>0
    <2>2. Cmd(c, n) \in Command
        BY DEF Cmd, Command
    <2> QED
        BY <2>1, <2>2, MailboxType DEF Post, SessionInv
<1>2. AsideOK'
    BY <1>0, <1>1 DEF SessionInv, AsideOK, turnVars, historyVars
<1>3. JobTypeOK'
    BY <1>0, CallType DEF SessionInv
<1>4. ActorHolds'
    BY <1>0 DEF SessionInv, ActorHolds, turnVars, is_paused
<1> QED
    BY <1>0, <1>2, <1>3, <1>4, QuietInv DEF turnVars

\* Jobs run, and their sends.
LEMMA JobStepInv == SessionInv /\ JobStep => SessionInv'
<1> SUFFICES ASSUME SessionInv, JobStep
             PROVE  SessionInv'
    OBVIOUS
<1>1. UNCHANGED <<turnVars, sessionVars>>
    BY DEF JobStep, WorkerRuns, SendRuns
<1>2. JobTypeOK'
    <2>1. CASE WorkerRuns
        <3>1. PICK j \in workers : Complete(j, "Completed") \/ WorkerAborts(j)
            BY <2>1 DEF WorkerRuns
        <3>2. j \in JobIds /\ WorkerStep(j)
            BY <3>1 DEF WorkerStep, Terminal, SessionInv, JobTypeOK
        <3> QED
            BY <3>2, CallType DEF SessionInv
    <2>2. CASE SendRuns
        BY <2>2, CallType DEF SendRuns, SessionInv
    <2> QED
        BY <2>1, <2>2 DEF JobStep
<1>3. AsideOK' /\ ActorHolds'
    BY <1>1 DEF SessionInv, AsideOK, ActorHolds, is_paused, turnVars, sessionVars, actorVars,
       clientVars, historyVars
<1> QED
    BY <1>1, <1>2, <1>3, QuietInv DEF turnVars, sessionVars, actorVars

\* The handlers that move no turn.
LEMMA HandlerInv ==
    SessionInv /\ (\/ HandleTrigger \/ HandleStrayCompletion \/ HandleJobCompleted \/ HandleProbe
                   \/ HandleCancelJob \/ CancelReturns \/ HandleShutdown
                   \/ TakeCompletion \/ ForwardCompletion)
    => SessionInv'
<1> USE DEF Take
<1>1. ASSUME SessionInv, HandleTrigger
      PROVE  SessionInv'
    <2>1. /\ UNCHANGED <<jobVars, turnVars, inFlight, incarnation, clientVars, historyVars>>
          /\ Arm2 /\ mailbox' = Tail(mailbox)
          /\ mode' \in {mode, "starting"} /\ held' \in {held, Head(mailbox).n}
          /\ pendingInput' \in {pendingInput, Head(mailbox).n}
        BY <1>1 DEF HandleTrigger
    <2>2. /\ mailbox' \in Seq(Command) /\ Len(mailbox') <= MailboxCap /\ Head(mailbox).n \in Nat
          /\ mode = "running"
        BY <1>1, <2>1, MailboxType DEF SessionInv
    <2>3. AsideOK'
        BY <1>1, <2>1, <2>2 DEF SessionInv, AsideOK, turnVars, clientVars, historyVars, Modes, Alive, Handling
    <2>4. ActorHolds'
        BY <1>1, <2>1, <2>2 DEF SessionInv, ActorHolds, turnVars, is_paused, Alive, Handling
    <2>5. JobTypeOK'
        BY <1>1, <2>1, CallType DEF SessionInv
    <2> QED
        BY <1>1, <2>1, <2>3, <2>4, <2>5, QuietInv DEF turnVars
<1>2. ASSUME SessionInv, HandleStrayCompletion
      PROVE  SessionInv'
    <2>1. /\ UNCHANGED <<jobVars, turnVars, mode, pendingInput, held, incarnation, clientVars, historyVars>>
          /\ Arm2 /\ mailbox' = Tail(mailbox)
          /\ inFlight' = inFlight \/ inFlight' = NoTurn
        BY <1>2 DEF HandleStrayCompletion
    <2>2. /\ mailbox' \in Seq(Command) /\ Len(mailbox') <= MailboxCap
          /\ mode = "running"
        BY <1>2, <2>1, MailboxType DEF SessionInv
    <2>3. AsideOK'
        BY <1>2, <2>1, <2>2 DEF SessionInv, AsideOK, turnVars, clientVars, historyVars
    <2>4. ActorHolds'
        BY <1>2, <2>1, <2>2 DEF SessionInv, ActorHolds, turnVars, Alive
    <2>5. JobTypeOK'
        BY <1>2, <2>1, CallType DEF SessionInv
    <2> QED
        BY <1>2, <2>1, <2>3, <2>4, <2>5, QuietInv DEF turnVars
<1>3. ASSUME SessionInv, HandleJobCompleted
      PROVE  SessionInv'
    <2>1. /\ UNCHANGED <<jobVars, turnVars, inFlight, pendingInput, held, incarnation, clientVars, historyVars>>
          /\ Arm2 /\ mailbox' = Tail(mailbox) /\ mode' = "completing" /\ is_paused
        BY <1>3 DEF HandleJobCompleted
    <2>2. /\ mailbox' \in Seq(Command) /\ Len(mailbox') <= MailboxCap
          /\ mode = "running"
        BY <1>3, <2>1, MailboxType DEF SessionInv
    <2>3. AsideOK'
        BY <1>3, <2>1, <2>2 DEF SessionInv, AsideOK, turnVars, clientVars, historyVars, Modes, Alive, Handling
    <2>4. ActorHolds'
        BY <1>3, <2>1, <2>2 DEF SessionInv, ActorHolds, turnVars, is_paused, Alive, Handling
    <2>5. JobTypeOK'
        BY <1>3, <2>1, CallType DEF SessionInv
    <2> QED
        BY <1>3, <2>1, <2>3, <2>4, <2>5, QuietInv DEF turnVars
<1>4. ASSUME SessionInv, HandleProbe
      PROVE  SessionInv'
    <2>1. /\ UNCHANGED <<jobVars, turnVars, mode, inFlight, pendingInput, held, incarnation,
                         inputs, cancels, shutdowns, historyVars>>
          /\ Arm2 /\ mailbox' = Tail(mailbox)
        BY <1>4 DEF HandleProbe
    <2>2. asking' \in Asking
        <3>1. inFlight.job \in Nat
            BY <1>4 DEF SessionInv, Held, Shaped, InFlight
        <3> QED
            BY <1>4, <3>1 DEF HandleProbe, Asking, Idle, None
    <2>3. /\ mailbox' \in Seq(Command) /\ Len(mailbox') <= MailboxCap
        BY <1>4, <2>1, MailboxType DEF SessionInv
    <2>4. AsideOK'
        BY <1>4, <2>1, <2>2, <2>3 DEF SessionInv, AsideOK, turnVars, historyVars
    <2>5. ActorHolds'
        BY <1>4, <2>1 DEF SessionInv, ActorHolds, turnVars, is_paused
    <2>6. JobTypeOK'
        BY <1>4, <2>1, CallType DEF SessionInv
    <2> QED
        BY <1>4, <2>1, <2>4, <2>5, <2>6, QuietInv DEF turnVars
<1>5. ASSUME SessionInv, HandleCancelJob
      PROVE  SessionInv'
    <2>1. /\ UNCHANGED <<turnVars, inFlight, pendingInput, held, incarnation, clientVars, historyVars>>
          /\ Arm2 /\ mailbox' = Tail(mailbox) /\ mode' = "cancelling"
          /\ Cancel(Head(mailbox).n) \/ UNCHANGED jobVars
        BY <1>5 DEF HandleCancelJob
    <2>2. /\ mailbox' \in Seq(Command) /\ Len(mailbox') <= MailboxCap
          /\ mode = "running"
        BY <1>5, <2>1, MailboxType DEF SessionInv
    <2>3. AsideOK'
        BY <1>5, <2>1, <2>2 DEF SessionInv, AsideOK, turnVars, clientVars, historyVars, Modes, Alive, Handling
    <2>4. ActorHolds'
        BY <1>5, <2>1, <2>2 DEF SessionInv, ActorHolds, turnVars, is_paused, Alive, Handling
    <2>5. JobTypeOK'
        <3>1. Cancel(Head(mailbox).n) => Head(mailbox).n \in JobIds
            BY <1>5 DEF Cancel, Known, SessionInv, JobTypeOK
        <3> QED
            BY <1>5, <2>1, <3>1, CallType DEF SessionInv
    <2> QED
        BY <1>5, <2>1, <2>3, <2>4, <2>5, QuietInv DEF turnVars
<1>6. ASSUME SessionInv, CancelReturns
      PROVE  SessionInv'
    <2>1. /\ UNCHANGED <<jobVars, turnVars, inFlight, pendingInput, mailbox, held, incarnation,
                         clientVars, historyVars>>
          /\ mode = "cancelling" /\ mode' = "running"
        BY <1>6 DEF CancelReturns
    <2>3. AsideOK'
        BY <1>6, <2>1 DEF SessionInv, AsideOK, turnVars, clientVars, historyVars, Modes, Alive
    <2>4. ActorHolds'
        BY <1>6, <2>1 DEF SessionInv, ActorHolds, turnVars, is_paused, Alive, Handling
    <2>5. JobTypeOK'
        BY <1>6, <2>1, CallType DEF SessionInv
    <2> QED
        BY <1>6, <2>1, <2>3, <2>4, <2>5, QuietInv DEF turnVars
<1>7. ASSUME SessionInv, HandleShutdown
      PROVE  SessionInv'
    <2>1. /\ UNCHANGED <<jobVars, turnVars, inFlight, pendingInput, held, incarnation, clientVars, historyVars>>
          /\ Arm2 /\ mailbox' = Tail(mailbox) /\ mode' = "draining"
        BY <1>7 DEF HandleShutdown
    <2>2. /\ mailbox' \in Seq(Command) /\ Len(mailbox') <= MailboxCap
          /\ mode = "running"
        BY <1>7, <2>1, MailboxType DEF SessionInv
    <2>3. AsideOK'
        BY <1>7, <2>1, <2>2 DEF SessionInv, AsideOK, turnVars, clientVars, historyVars, Modes, Alive
    <2>4. ActorHolds'
        BY <1>7, <2>1, <2>2 DEF SessionInv, ActorHolds, turnVars, is_paused, Alive
    <2>5. JobTypeOK'
        BY <1>7, <2>1, CallType DEF SessionInv
    <2> QED
        BY <1>7, <2>1, <2>3, <2>4, <2>5, QuietInv DEF turnVars
<1>8. ASSUME SessionInv, TakeCompletion
      PROVE  SessionInv'
    <2>1. /\ UNCHANGED <<turnVars, inFlight, pendingInput, mailbox, incarnation, clientVars, historyVars>>
          /\ mode = "running" /\ mode' = "forwarding" /\ Receive(incarnation)
          /\ sinkQ[incarnation] # <<>> /\ held' = Head(sinkQ[incarnation]).job
        BY <1>8 DEF TakeCompletion, Arm3
    <2>2. incarnation \in Sinks
        BY <1>8, <2>1 DEF SessionInv, ActorHolds
    <2>3. held' \in Nat
        <3>1. Head(sinkQ[incarnation]) \in Completion
            BY <1>8, <2>1, <2>2 DEF SessionInv, JobTypeOK
        <3> QED
            BY <2>1, <3>1, JobIdsAssumption DEF Completion
    <2>4. AsideOK'
        BY <1>8, <2>1, <2>3 DEF SessionInv, AsideOK, turnVars, clientVars, historyVars, Modes, Alive, Handling
    <2>5. ActorHolds'
        BY <1>8, <2>1 DEF SessionInv, ActorHolds, turnVars, is_paused, Alive, Handling
    <2>6. JobTypeOK'
        BY <1>8, <2>1, <2>2, CallType DEF SessionInv
    <2> QED
        BY <1>8, <2>1, <2>4, <2>5, <2>6, QuietInv DEF turnVars
<1>9. ASSUME SessionInv, ForwardCompletion
      PROVE  SessionInv'
    <2>1. /\ UNCHANGED <<jobVars, turnVars, inFlight, pendingInput, incarnation, clientVars, historyVars>>
          /\ mode = "forwarding" /\ mode' = "running" /\ held' = 0
          /\ Len(mailbox) < MailboxCap /\ mailbox' = Append(mailbox, Cmd("JobCompleted", held))
        BY <1>9 DEF ForwardCompletion, None
    <2>2. mailbox' \in Seq(Command) /\ Len(mailbox') <= MailboxCap
        <3>1. Cmd("JobCompleted", held) \in Command
            BY <1>9 DEF SessionInv, AsideOK, Cmd, Command
        <3> QED
            BY <1>9, <2>1, <3>1, MailboxType DEF SessionInv
    <2>3. AsideOK'
        BY <1>9, <2>1, <2>2 DEF SessionInv, AsideOK, turnVars, clientVars, historyVars, Modes, Alive
    <2>4. ActorHolds'
        BY <1>9, <2>1 DEF SessionInv, ActorHolds, turnVars, is_paused, Alive, Handling
    <2>5. JobTypeOK'
        BY <1>9, <2>1, CallType DEF SessionInv
    <2> QED
        BY <1>9, <2>1, <2>3, <2>4, <2>5, QuietInv DEF turnVars
<1> QED
    BY <1>1, <1>2, <1>3, <1>4, <1>5, <1>6, <1>7, <1>8, <1>9

\* The tasks turns are taken up with.
LEMMA ResumedTasks ==
    ASSUME NEW n \in Nat, NEW pend \in Seq(Call), NEW drift \in BOOLEAN
    PROVE  /\ WellFormed(FromModelCompleted(n)) /\ FromModelCompleted(n).mcalls = n
           /\ WellFormed(FromToolDispatching(n, pend, drift))
           /\ FromToolDispatching(n, pend, drift).mcalls = n
<1>1. <<>> \in Seq(Call)
    OBVIOUS
<1>2. WellFormed(FromModelCompleted(n)) /\ FromModelCompleted(n).mcalls = n
    BY <1>1 DEF WellFormed, FromModelCompleted, Task, Driver, Pcs, Busy, None
<1>3. FromToolDispatching(n, pend, drift) \in {Task("Failing", n, pend), Task("ToolDispatching", n, pend)}
    BY DEF FromToolDispatching
<1>4. \A pc \in {"Failing", "ToolDispatching"} :
          WellFormed(Task(pc, n, pend)) /\ Task(pc, n, pend).mcalls = n
    BY <1>1 DEF WellFormed, Task, Driver, Pcs, Busy, None
<1> QED
    BY <1>2, <1>3, <1>4

\* A turn in nobody's hand is given a task, with a result written for it or not.
LEMMA HeldResumes ==
    ASSUME NEW lg, NEW ds, NEW rs, NEW fl, Held(lg, ds, rs, fl),
           NEW t \in StartedIn(lg), t \notin EndedIn(lg), t \notin DOMAIN ds,
           \A n \in DOMAIN rs : rs[n].turn # t, NEW c \in Nat,
           NEW d, WellFormed(d), d.mcalls = CountModelCalls(lg, t)
    PROVE  LET es == [u \in DOMAIN ds \cup {t} |-> IF u = t THEN d ELSE ds[u]] IN
           Held(lg, es, rs, Active(t)) /\ Held(Append(lg, ToolResult(t, c)), es, rs, Active(t))
<1> DEFINE e == ToolResult(t, c)
           es == [u \in DOMAIN ds \cup {t} |-> IF u = t THEN d ELSE ds[u]]
<1>0. lg \in Seq(Event)
    BY DEF Held, Shaped
<1>1. e \in Event /\ e.turn = t /\ e.type = "ToolResultRecorded"
    <2>1. t \in Nat
        BY DEF StartedIn
    <2> QED
        BY <2>1, EventTypesOK DEF ToolResult, Ev
<1> HIDE DEF e
<1>2. Held(Append(lg, e), ds, rs, fl)
    BY <1>1, HeldNotes
<1>3. /\ StartedIn(Append(lg, e)) = StartedIn(lg) /\ EndedIn(Append(lg, e)) = EndedIn(lg)
      /\ CountModelCalls(Append(lg, e), t) = CountModelCalls(lg, t)
    BY <1>0, <1>1, AppendStarted, AppendEnded, AppendModelCalls
<1>4. Held(Append(lg, e), es, rs, Active(t))
    BY <1>2, <1>3, HeldSpawn
<1>5. Held(lg, es, rs, Active(t))
    BY HeldSpawn
<1> QED
    BY <1>4, <1>5 DEF e

\* A new actor finds nothing but the log.
LEMMA NewActorFinds ==
    ASSUME SessionInv, NewActor
    PROVE  /\ DOMAIN drivers = {} /\ results = <<>> /\ inFlight = NoTurn
           /\ incarnation' \in Sinks
           /\ log \in Seq(Event)
           /\ Replay(log).turn \in Nat
BY ReplayShape DEF SessionInv, ActorHolds, NewActor, Alive, Handling, Held, Shaped

\* The session is opened.
LEMMA StartInv == SessionInv /\ Start => SessionInv'
<1>1. ASSUME SessionInv, StartIdle \/ StartFails
      PROVE  SessionInv'
    <2>1. /\ NewActor /\ mode' \in {"running", "failed"}
          /\ UNCHANGED <<jobVars, turnVars, inFlight, pendingInput, mailbox, held, clientVars,
                         crashes, forgotten>>
          /\ abandoned' \in {abandoned, abandoned \cup {Replay(log).turn}}
        BY <1>1 DEF StartIdle, StartFails, historyVars
    <2>2. /\ results = <<>> /\ inFlight = NoTurn /\ incarnation' \in Sinks /\ Replay(log).turn \in Nat
        BY <1>1, <2>1, NewActorFinds
    <2>3. AsideOK'
        BY <1>1, <2>1, <2>2 DEF SessionInv, AsideOK, turnVars, clientVars, Modes, Alive
    <2>4. ActorHolds'
        BY <2>1, <2>2 DEF ActorHolds, turnVars
    <2>5. JobTypeOK'
        BY <1>1, <2>1, CallType DEF SessionInv
    <2> QED
        BY <1>1, <2>1, <2>3, <2>4, <2>5, QuietInv DEF turnVars
<1>2. ASSUME SessionInv, StartTurn \/ StartAfterJob
      PROVE  SessionInv'
    <2> DEFINE t == Replay(log).turn
               c == Replay(log).call
               n == CountModelCalls(log, t)
    <2>1. /\ NewActor /\ mode' = "running" /\ inFlight' = Active(t)
          /\ UNCHANGED <<jobVars, recorder, results, pendingInput, mailbox, held, clientVars, historyVars>>
          /\ Replay(log).point \in Taken
          /\ log' \in {log, Append(log, ToolResult(t, c))}
        BY <1>2 DEF StartTurn, StartAfterJob, Record, Taken
    <2>2. \/ Spawn(t, FromModelCompleted(n))
          \/ \E drift \in BOOLEAN, pend \in {<<>>, Replay(log).pending} :
                 Spawn(t, FromToolDispatching(n, pend, drift))
        <3>1. CASE StartTurn
            BY <3>1 DEF StartTurn
        <3>2. CASE StartAfterJob
            BY <3>2 DEF StartAfterJob
        <3> QED
            BY <1>2, <3>1, <3>2
    <2>3. /\ DOMAIN drivers = {} /\ results = <<>> /\ incarnation' \in Sinks /\ log \in Seq(Event)
        BY <1>2, <2>1, NewActorFinds
    <2>4. /\ t \in StartedIn(log) /\ t \notin EndedIn(log) /\ c \in Nat
          /\ Replay(log).pending \in Seq(Call) /\ <<>> \in Seq(Call)
        BY <1>2, <2>1, TakenUp DEF SessionInv
    <2>5. n \in Nat
        <3>1. TurnFailed(0) \in Event
            BY EventTypesOK
        <3> QED
            BY <2>3, <3>1, AppendModelCalls
    <2> HIDE DEF t, c, n
    <2>6. PICK d : WellFormed(d) /\ d.mcalls = n /\ Spawn(t, d)
        <3>1. CASE Spawn(t, FromModelCompleted(n))
            BY <2>4, <2>5, <3>1, ResumedTasks
        <3>2. CASE \E drift \in BOOLEAN, pend \in {<<>>, Replay(log).pending} :
                       Spawn(t, FromToolDispatching(n, pend, drift))
            <4>1. PICK drift \in BOOLEAN, pend \in {<<>>, Replay(log).pending} :
                       Spawn(t, FromToolDispatching(n, pend, drift))
                BY <3>2
            <4>2. pend \in Seq(Call)
                BY <2>4, <4>1
            <4> QED
                BY <2>5, <4>1, <4>2, ResumedTasks
        <3> QED
            BY <2>2, <3>1, <3>2
    <2> DEFINE es == [u \in DOMAIN drivers \cup {t} |-> IF u = t THEN d ELSE drivers[u]]
    <2>7. /\ Held(log, es, results, Active(t))
          /\ Held(Append(log, ToolResult(t, c)), es, results, Active(t))
        <3>1. Held(log, drivers, results, inFlight) /\ t \notin DOMAIN drivers
              /\ (\A m \in DOMAIN results : results[m].turn # t)
            BY <1>2, <2>3 DEF SessionInv
        <3>2. d.mcalls = CountModelCalls(log, t)
            BY <2>6 DEF n
        <3> QED
            BY <2>4, <2>6, <3>1, <3>2, HeldResumes
    <2>8. Held(log, drivers, results, inFlight)'
        <3>1. drivers' = es /\ inFlight' = Active(t) /\ results' = results
              /\ (log' = log \/ log' = Append(log, ToolResult(t, c)))
            BY <2>1, <2>6 DEF Spawn, t, c
        <3> HIDE DEF es
        <3> QED
            BY <2>7, <3>1
    <2>9. AsideOK'
        BY <1>2, <2>1, <2>3 DEF SessionInv, AsideOK, clientVars, historyVars, Modes, Alive
    <2>10. ActorHolds'
        BY <2>1, <2>3 DEF ActorHolds, Alive
    <2>11. JobTypeOK'
        BY <1>2, <2>1, CallType DEF SessionInv
    <2> QED
        BY <2>8, <2>9, <2>10, <2>11 DEF SessionInv
<1>3. ASSUME SessionInv, StartPaused
      PROVE  SessionInv'
    <2> DEFINE d == Replay(log)
    <2>1. /\ NewActor /\ mode' = "running" /\ inFlight' = PausedOnJob(d.turn, d.job, d.call)
          /\ UNCHANGED <<turnVars, pendingInput, mailbox, held, clientVars, historyVars>>
          /\ d.point = "ResumePausedJob"
        BY <1>3 DEF StartPaused
    <2>2. /\ DOMAIN drivers = {} /\ results = <<>> /\ incarnation' \in Sinks /\ log \in Seq(Event)
        BY <1>3, <2>1, NewActorFinds
    <2>3. /\ d.turn \in StartedIn(log) /\ d.turn \notin EndedIn(log) /\ d.call \in Nat
          /\ d.job \in JobIds
        BY <1>3, <2>1, TakenUp DEF SessionInv, Taken
    <2>4. Held(log, drivers, results, PausedOnJob(d.turn, d.job, d.call))
        <3>1. Held(log, drivers, results, inFlight) /\ d.turn \notin DOMAIN drivers
              /\ (\A m \in DOMAIN results : results[m].turn # d.turn)
            BY <1>3, <2>2 DEF SessionInv
        <3> HIDE DEF d
        <3> QED
            BY <2>3, <3>1, HeldParks
    <2>5. Held(log, drivers, results, inFlight)'
        BY <2>1, <2>4 DEF turnVars
    <2>6. AsideOK'
        BY <1>3, <2>1, <2>2 DEF SessionInv, AsideOK, turnVars, clientVars, historyVars, Modes, Alive
    <2>7. ActorHolds'
        BY <2>1, <2>2 DEF ActorHolds, Alive
    <2>8. JobTypeOK'
        <3>1. CASE OnComplete(d.job, incarnation')
            <4> HIDE DEF d
            <4>1. \E j \in JobIds : \E s \in Sinks : OnComplete(j, s)
                BY <2>2, <2>3, <3>1
            <4> QED
                BY <1>3, <4>1, CallType DEF SessionInv
        <3>2. CASE /\ sinkQ' = [sinkQ EXCEPT ![incarnation'] = Append(@, [job |-> d.job, outcome |-> "Failed"])]
                   /\ UNCHANGED <<jobs, submitting, workers, aborted, sends, closed,
                                  registered, replaced, delivered>>
            <4> HIDE DEF d
            <4>1. [job |-> d.job, outcome |-> "Failed"] \in Completion
                BY <2>3 DEF Completion, Terminal
            <4>2. sinkQ \in [Sinks -> Seq(Completion)]
                BY <1>3 DEF SessionInv, JobTypeOK
            <4>3. sinkQ' \in [Sinks -> Seq(Completion)]
                BY <2>2, <3>2, <4>1, <4>2
            <4> QED
                BY <1>3, <3>2, <4>3 DEF SessionInv, JobTypeOK
        <3> QED
            BY <1>3, <3>1, <3>2 DEF StartPaused
    <2> QED
        BY <2>5, <2>6, <2>7, <2>8 DEF SessionInv
<1> QED
    BY <1>1, <1>2, <1>3 DEF Start

\* The actor starts the input it waited with.
LEMMA StartHeldInputInv == SessionInv /\ StartHeldInput => SessionInv'
<1> SUFFICES ASSUME SessionInv, StartHeldInput
             PROVE  SessionInv'
    OBVIOUS
<1> DEFINE t == FreshTurn(log)
           es == [u \in DOMAIN drivers \cup {t} |-> IF u = t THEN FreshLikeInit ELSE drivers[u]]
<1>1. /\ mode = "starting" /\ mode' = "running" /\ held' = 0
      /\ log' = Append(log, TurnStarted(t, held)) /\ drivers' = es /\ inFlight' = Active(t)
      /\ UNCHANGED <<jobVars, recorder, results, pendingInput, mailbox, incarnation, clientVars, historyVars>>
    BY DEF StartHeldInput, TryStartTurn, Spawn, None
<1>2. Held(Append(log, TurnStarted(t, held)), es, results, Active(t))
    BY HeldStarts DEF SessionInv, AsideOK
<1>3. Held(log, drivers, results, inFlight)'
    <2> HIDE DEF t, es
    <2> QED
        BY <1>1, <1>2
<1>4. AsideOK'
    BY <1>1 DEF SessionInv, AsideOK, clientVars, historyVars, Modes, Alive
<1>5. ActorHolds'
    BY <1>1 DEF SessionInv, ActorHolds, Alive
<1>6. JobTypeOK'
    BY <1>1, CallType DEF SessionInv
<1> QED
    BY <1>3, <1>4, <1>5, <1>6 DEF SessionInv

\* The completion of a job is recorded for the turn the actor is paused on, and the
\* turn is taken up again.
LEMMA JobCompletedInv == SessionInv /\ (RecordJobCompleted \/ FinishJobCompleted) => SessionInv'
<1> SUFFICES ASSUME SessionInv, RecordJobCompleted \/ FinishJobCompleted
             PROVE  SessionInv'
    OBVIOUS
<1> DEFINE t == inFlight.turn
<1>1. mode \in {"completing", "recording"} /\ is_paused /\ incarnation \in Sinks
    BY DEF RecordJobCompleted, FinishJobCompleted, SessionInv, ActorHolds
<1>2. /\ t \in StartedIn(log) /\ t \notin EndedIn(log) /\ t \notin DOMAIN drivers
      /\ (\A n \in DOMAIN results : results[n].turn # t)
      /\ inFlight.job \in Nat /\ inFlight.call \in Nat /\ t \in Nat
      /\ log \in Seq(Event) /\ Held(log, drivers, results, inFlight)
    BY <1>1 DEF SessionInv, Held, Shaped, HoldersStarted, OneHolder, EndedIsLeft, is_paused, InFlight
<1>3. CASE RecordJobCompleted
    <2> DEFINE e == JobCompletedRecorded(t, inFlight.job)
    <2>1. /\ log' = Append(log, e) /\ recorder' = "actor" /\ mode' = "recording"
          /\ UNCHANGED <<jobVars, drivers, results, inFlight, pendingInput, mailbox, held,
                         incarnation, clientVars, historyVars>>
        BY <1>3 DEF RecordJobCompleted, Record
    <2>2. e \in Event /\ e.turn = t /\ e.type = "JobCompletedRecorded"
        BY <1>2, EventTypesOK DEF JobCompletedRecorded, Ev
    <2> HIDE DEF e
    <2>3. Held(Append(log, e), drivers, results, inFlight)
        BY <1>2, <2>2, HeldNotes
    <2>4. Held(log, drivers, results, inFlight)'
        BY <2>1, <2>3
    <2>5. AsideOK'
        BY <2>1 DEF SessionInv, AsideOK, clientVars, historyVars, Modes, Alive, Handling
    <2>6. ActorHolds'
        BY <1>1, <2>1 DEF SessionInv, ActorHolds, Alive, Handling, is_paused
    <2>7. JobTypeOK'
        BY <2>1, CallType DEF SessionInv
    <2> QED
        BY <2>4, <2>5, <2>6, <2>7 DEF SessionInv
<1>4. CASE FinishJobCompleted
    <2> DEFINE n == CountModelCalls(log, t)
               d == FromToolDispatching(n, <<>>, FALSE)
               c == inFlight.call
               es == [u \in DOMAIN drivers \cup {t} |-> IF u = t THEN d ELSE drivers[u]]
    <2>1. /\ log' = Append(log, ToolResult(t, c)) /\ drivers' = es /\ inFlight' = Active(t)
          /\ recorder' = "free" /\ mode' = "running"
          /\ UNCHANGED <<jobVars, results, pendingInput, mailbox, held, incarnation, clientVars, historyVars>>
        BY <1>4 DEF FinishJobCompleted, Spawn
    <2>2. n \in Nat
        <3>1. TurnFailed(0) \in Event
            BY EventTypesOK
        <3> QED
            BY <1>2, <3>1, AppendModelCalls
    <2> HIDE DEF n
    <2>3. WellFormed(d) /\ d.mcalls = n
        <3>1. <<>> \in Seq(Call) /\ FALSE \in BOOLEAN
            OBVIOUS
        <3> QED
            BY <2>2, <3>1, ResumedTasks
    <2> HIDE DEF d
    <2>4. Held(Append(log, ToolResult(t, c)), es, results, Active(t))
        BY <1>2, <2>3, HeldResumes DEF n
    <2> HIDE DEF es
    <2>5. Held(log, drivers, results, inFlight)'
        BY <2>1, <2>4
    <2>6. AsideOK'
        BY <2>1 DEF SessionInv, AsideOK, clientVars, historyVars, Modes, Alive, Handling
    <2>7. ActorHolds'
        BY <1>1, <2>1 DEF SessionInv, ActorHolds, Alive, Handling
    <2>8. JobTypeOK'
        BY <2>1, CallType DEF SessionInv
    <2> QED
        BY <2>5, <2>6, <2>7, <2>8 DEF SessionInv
<1> QED
    BY <1>3, <1>4

\* The actor takes an outcome: the turn is parked, failed or done with, and an input
\* held back is started.
LEMMA TakeOutcomeInv == SessionInv /\ TakeOutcome => SessionInv'
<1> SUFFICES ASSUME SessionInv, TakeOutcome
             PROVE  SessionInv'
    OBVIOUS
<1> DEFINE r == Head(results)
           qs == Tail(results)
           call == LookupCallId(log, r.job)
           parks == r.outcome = "Paused" /\ call # None
           base == IF r.outcome = "Paused" THEN Append(log, TurnFailed(r.turn)) ELSE log
           t == FreshTurn(log)
           es == [u \in DOMAIN drivers \cup {t} |-> IF u = t THEN FreshLikeInit ELSE drivers[u]]
<1>1. /\ mode \in {"running", "draining"} /\ results # <<>> /\ results' = qs
      /\ UNCHANGED <<jobVars, recorder, mode, mailbox, held, incarnation, clientVars, historyVars>>
    BY DEF TakeOutcome
<1>2. \/ /\ r.outcome = "Paused" /\ log' = Append(log, TurnPaused(r.turn, r.job))
         /\ inFlight' = PausedOnJob(r.turn, r.job, call)
         /\ UNCHANGED <<drivers, pendingInput>>
      \/ /\ log' = base /\ inFlight' = NoTurn /\ UNCHANGED <<drivers, pendingInput>>
      \/ /\ log' = Append(base, TurnStarted(t, pendingInput)) /\ drivers' = es
         /\ inFlight' = Active(t) /\ pendingInput' = 0
    <2>1. CASE parks
        BY <2>1 DEF TakeOutcome, OnTurnComplete
    <2>2. CASE ~parks
        BY <2>2 DEF TakeOutcome, OnTurnComplete, TryStartTurn, Spawn, None
    <2> QED
        BY <2>1, <2>2
<1>3. Held(log, drivers, results, inFlight) /\ log \in Seq(Event)
    BY DEF SessionInv, Held, Shaped
<1>4. /\ r \in Result /\ r.turn \in StartedIn(log) /\ r.turn \notin DOMAIN drivers
      /\ \A n \in DOMAIN qs : qs[n].turn # r.turn
      /\ r.outcome = "Paused" => r.job \in JobIds /\ r.turn \notin EndedIn(log)
      /\ Held(log, drivers, qs, NoTurn)
    BY <1>1, <1>3, TakenOutcome, HeldTakes
<1>5. call \in Nat
    BY <1>3, LookupCallType
<1> HIDE DEF call, qs, r
<1>6. r.outcome = "Paused" => Held(Append(log, TurnPaused(r.turn, r.job)), drivers, qs,
                                   PausedOnJob(r.turn, r.job, call))
    BY <1>4, <1>5, HeldParks
<1>7. Held(base, drivers, qs, NoTurn) /\ FreshTurn(base) = t
    <2>1. CASE r.outcome = "Paused"
        <3>1. Held(Append(log, TurnFailed(r.turn)), drivers, qs, NoTurn)
            BY <1>4, <2>1, HeldFails
        <3>2. TurnFailed(r.turn) \in Event /\ TurnFailed(r.turn).type # "TurnStarted"
            <4>1. r.turn \in Nat
                BY <1>4 DEF Result
            <4> QED
                BY <4>1, EventTypesOK DEF TurnFailed, Ev
        <3>3. FreshTurn(Append(log, TurnFailed(r.turn))) = FreshTurn(log)
            BY <1>3, <3>2, AppendStarted
        <3> QED
            BY <2>1, <3>1, <3>3
    <2>2. CASE r.outcome # "Paused"
        BY <1>4, <2>2
    <2> QED
        BY <2>1, <2>2
<1> HIDE DEF base
<1>8. Held(Append(base, TurnStarted(t, pendingInput)), es, qs, Active(t))
    <2>1. pendingInput \in Nat
        BY DEF SessionInv, AsideOK
    <2> HIDE DEF t
    <2> QED
        BY <1>7, <2>1, HeldStarts
<1> HIDE DEF t, es
<1>9. Held(log, drivers, results, inFlight)'
    BY <1>1, <1>2, <1>6, <1>7, <1>8
<1>10. AsideOK'
    <2>1. pendingInput' \in Nat
        BY <1>2 DEF SessionInv, AsideOK
    <2> QED
        BY <1>1, <2>1 DEF SessionInv, AsideOK, clientVars, historyVars
<1>11. ActorHolds'
    BY <1>1 DEF SessionInv, ActorHolds, Alive
<1>12. JobTypeOK'
    BY <1>1, CallType DEF SessionInv
<1> QED
    BY <1>9, <1>10, <1>11, <1>12 DEF SessionInv

\* The actor exits, or the process dies.
LEMMA EndInv == SessionInv /\ (Exit \/ Crash) => SessionInv'
<1>1. ASSUME SessionInv, Exit
      PROVE  SessionInv'
    <2>1. /\ mode = "draining" /\ mode' = "exited" /\ inFlight' = NoTurn /\ results' = <<>>
          /\ CloseSink(incarnation) /\ UNCHANGED <<log, recorder, drivers, held, incarnation, inputs,
                                                   cancels, shutdowns, crashes, abandoned>>
          /\ pendingInput' = 0 /\ mailbox' = <<>> /\ asking' = Idle /\ forgotten' = inputs
        BY <1>1 DEF Exit, None
    <2>2. incarnation \in Sinks
        BY <1>1, <2>1 DEF SessionInv, ActorHolds
    <2>3. Held(log, drivers, <<>>, NoTurn)
        BY <1>1, HeldLost DEF SessionInv
    <2>4. Held(log, drivers, results, inFlight)'
        BY <2>1, <2>3
    <2>5. AsideOK'
        <3>1. mailbox' \in Seq(Command) /\ Len(mailbox') = 0
            BY <2>1
        <3> QED
            BY <1>1, <2>1, <3>1, MailboxAssumption DEF SessionInv, AsideOK, Modes, Asking, Idle, None
    <2>6. ActorHolds'
        BY <2>1, <2>2 DEF ActorHolds
    <2>7. JobTypeOK'
        BY <1>1, <2>1, <2>2, CallType DEF SessionInv
    <2> QED
        BY <2>4, <2>5, <2>6, <2>7 DEF SessionInv
<1>2. ASSUME SessionInv, Crash
      PROVE  SessionInv'
    <2>1. /\ mode' = "down" /\ inFlight' = NoTurn /\ results' = <<>> /\ drivers' = [t \in {} |-> {}]
          /\ UNCHANGED <<log, incarnation, inputs, cancels, shutdowns, abandoned>>
          /\ pendingInput' = 0 /\ mailbox' = <<>> /\ held' = 0 /\ asking' = Idle
          /\ forgotten' = inputs /\ crashes' = crashes + 1 /\ recorder' = "free"
        BY <1>2 DEF Crash, None
    <2>2. Held(log, [t \in {} |-> {}], <<>>, NoTurn)
        BY <1>2, HeldLost DEF SessionInv
    <2>3. Held(log, drivers, results, inFlight)'
        BY <2>1, <2>2
    <2>4. AsideOK'
        <3>1. mailbox' \in Seq(Command) /\ Len(mailbox') = 0
            BY <2>1
        <3> QED
            BY <1>2, <2>1, <3>1, MailboxAssumption DEF SessionInv, AsideOK, Modes, Asking, Idle, None
    <2>5. ActorHolds'
        BY <2>1 DEF ActorHolds, is_paused, NoTurn
    <2>6. JobTypeOK'
        BY <1>2 DEF Crash, JobTypeOK
    <2> QED
        BY <2>3, <2>4, <2>5, <2>6 DEF SessionInv
<1> QED
    BY <1>1, <1>2

\* Every step keeps the invariant.
LEMMA SessionInvStep == SessionInv /\ [Next]_vars => SessionInv'
<1> SUFFICES ASSUME SessionInv, [Next]_vars
             PROVE  SessionInv'
    OBVIOUS
<1>1. CASE UNCHANGED vars
    <2>1. JobTypeOK'
        BY <1>1, CallType DEF SessionInv, vars
    <2>2. AsideOK' /\ ActorHolds'
        BY <1>1 DEF SessionInv, AsideOK, ActorHolds, is_paused, vars, turnVars, sessionVars, actorVars,
           clientVars, historyVars
    <2> QED
        BY <1>1, <2>1, <2>2, QuietInv DEF vars, turnVars, sessionVars, actorVars
<1>2. CASE Next
    <2>1. CASE ActorStep
        BY <2>1, HandlerInv, StartHeldInputInv, JobCompletedInv, TakeOutcomeInv, EndInv DEF ActorStep
    <2> QED
        BY <1>2, <2>1, StartInv, ClientInv, TurnStepInv, JobStepInv, EndInv DEF Next
<1> QED
    BY <1>1, <1>2

\* The invariant holds throughout.
LEMMA SessionInvAlways == Spec => []SessionInv
BY SessionInvInit, SessionInvStep, PTL DEF Spec

\* Over any number of inputs, jobs, cancels, restarts and crashes, the session's state
\* stays well formed: every call names a job of the manager, every task has the call it
\* works on, and the mailbox keeps to its capacity.
THEOREM SessionTypeCorrect == Spec => []SessionTypeOK
BY SessionInvAlways, InvTypes, PTL

\* A turn never makes more than max_turns model calls, however often it is paused,
\* crashed and resumed.
THEOREM SessionBudget == Spec => []BudgetHonored
<1>1. SessionInv => BudgetHonored
    BY DEF SessionInv, Held, Within, StartedIn, BudgetHonored, Turns
<1> QED
    BY <1>1, SessionInvAlways, PTL

\* No task, handler or restart writes for a turn that has completed or failed, though
\* a second turn may be started beside one whose completion came too early.
THEOREM SessionNothingAfterTerminal == Spec => []NothingAfterTerminal
<1>1. SessionInv => NothingAfterTerminal
    BY DEF SessionInv, Held, EndsAreLast, NothingAfterTerminal
<1> QED
    BY <1>1, SessionInvAlways, PTL
-----------------------------------------------------------------------------
(* The actor of a session, its tasks and its jobs, where a job ends only    *)
(* after its turn is parked (~FastJobs): one turn is in flight, a paused     *)
(* turn has a completion to come, and inputs are started in order and none  *)
(* is lost; for any number of inputs, cancels, shutdowns and crashes.       *)
(*                                                                         *)
(* The invariant follows a completion from the manager to the actor: at     *)
(* most one is on its way, in one place, and it is the one the actor waits  *)
(* for.  So a completion never finds the actor busy with a turn, which is   *)
(* what would let a second turn start beside it.                            *)

Applying == {"completing", "recording"}

\* The manager will not say anything of job j any more, or has it running.
Final(j) == j \in DOMAIN jobs => jobs[j].status \in Terminal
Going(j) == j \in DOMAIN jobs /\ jobs[j].status = "Running"

\* A job whose submission is in the log: no other gets its id.
Named(j) == j \in JobIds /\ LookupCallId(log, j) # None

\* A running job has its task, and only what is cancelled is aborted.
Manager ==
    /\ \A j \in DOMAIN jobs : jobs[j].status = "Running" => j \in workers
    /\ \A j \in aborted : jobs[j].status \in Terminal

\* A submit that has not returned has a task that waits for it.
Submitters ==
    \A j \in submitting : \E t \in DOMAIN drivers : drivers[t].pc = "Submitting" /\ drivers[t].job = j

\* Nothing is sent to an actor that is not there yet; the channel of one that lives is open.
Channels ==
    /\ \A x \in sends : x.sink <= incarnation
    /\ \A j \in DOMAIN jobs : jobs[j].sink <= incarnation
    /\ \A s \in Sinks : s > incarnation => sinkQ[s] = <<>> /\ s \notin closed
    /\ mode \in Alive => incarnation \notin closed

\* Without an actor nobody waits for an answer.
AtRest == mode \notin Alive => mailbox = <<>> /\ asking = Idle /\ pendingInput = None

\* A task or an outcome is that of the turn in hand; a turn is started when there is none,
\* and a completion applied when its job is final.
Flight ==
    mode \in Alive =>
        /\ \A t \in DOMAIN drivers : inFlight = Active(t)
        /\ \A n \in DOMAIN results : inFlight = Active(results[n].turn)
        /\ mode = "starting" => inFlight.kind = "None"
        /\ mode \in Applying => is_paused /\ Final(inFlight.job)
        /\ is_paused => Named(inFlight.job)

\* The job j will tell this actor.
Tells(j) == Going(j) /\ jobs[j].sink = incarnation

\* A task's job runs until its turn is parked.
JobsOfTasks ==
    mode \in Alive =>
        /\ \A t \in DOMAIN drivers :
            /\ drivers[t].pc \in {"Submitting", "Submitted", "Registering"} =>
                   drivers[t].job \in StrayJobs \/ Going(drivers[t].job)
            /\ drivers[t].pc \in {"Registered", "Paused"} => Tells(drivers[t].job)
        /\ \A n \in DOMAIN results : results[n].outcome = "Paused" => Tells(results[n].job)

\* The actor waits for the completion of job j, and there will be no other.
Waits(j) == is_paused /\ inFlight.job = j /\ mode \notin Applying /\ Final(j)

NoMail == \A n \in DOMAIN mailbox : mailbox[n].cmd # "JobCompleted"

\* A completion is in one place at a time on its way to the actor.
Pipe ==
    mode \in Alive =>
        /\ \A x \in sends : x.sink = incarnation =>
               /\ Waits(x.job)
               /\ \A y \in sends : y.sink = incarnation => y = x
               /\ sinkQ[incarnation] = <<>> /\ mode # "forwarding" /\ NoMail
        /\ sinkQ[incarnation] # <<>> =>
               /\ Waits(sinkQ[incarnation][1].job) /\ Len(sinkQ[incarnation]) = 1
               /\ mode # "forwarding" /\ NoMail
        /\ mode = "forwarding" => Waits(held) /\ NoMail
        /\ \A n \in DOMAIN mailbox : mailbox[n].cmd = "JobCompleted" =>
               /\ Waits(mailbox[n].n)
               /\ \A m \in DOMAIN mailbox : mailbox[m].cmd = "JobCompleted" => m = n

NothingOnItsWay ==
    /\ \A x \in sends : x.sink # incarnation
    /\ sinkQ[incarnation] = <<>>
    /\ mode # "forwarding"
    /\ NoMail

\* A client cancels a job that was paused on: it is so still, or the job is final.
Asked(j) == Named(j) /\ ((is_paused /\ inFlight.job = j) \/ Final(j))

Asks ==
    mode \in Alive =>
        /\ asking.step = "found" => Asked(asking.job)
        /\ \A n \in DOMAIN mailbox : mailbox[n].cmd = "CancelJob" => Asked(mailbox[n].n)

\* What a paused actor waits for is still to come.
Comes(j) ==
    \/ Tells(j)
    \/ \E x \in sends : x.job = j /\ x.sink = incarnation
    \/ sinkQ[incarnation] # <<>> /\ sinkQ[incarnation][1].job = j
    \/ mode = "forwarding" /\ held = j
    \/ \E n \in DOMAIN mailbox : mailbox[n] = Cmd("JobCompleted", j)

Coming == (mode \in Alive \ Applying /\ is_paused) => Comes(inFlight.job)

ControlInv == Manager /\ Submitters /\ Channels /\ AtRest /\ Flight /\ JobsOfTasks /\ Pipe /\ Asks /\ Coming

-----------------------------------------------------------------------------
(* Channels and mailbox.                                                   *)

\* Channels are numbered from 1.
LEMMA SinksAreNumbers == (\A s \in Sinks : s \in Int /\ s # 0) /\ NoSink = 0
BY IncarnationsAssumption

\* A command is posted.
LEMMA Posted ==
    ASSUME mailbox \in Seq(Command), NEW c \in Command, mailbox' = Append(mailbox, c)
    PROVE  /\ DOMAIN mailbox' = DOMAIN mailbox \cup {Len(mailbox) + 1} /\ Len(mailbox) \in Nat
           /\ \A n \in DOMAIN mailbox : mailbox'[n] = mailbox[n] /\ n \in Nat
           /\ mailbox'[Len(mailbox) + 1] = c /\ Len(mailbox) + 1 \notin DOMAIN mailbox
OBVIOUS

\* The first command is taken.
LEMMA Taking ==
    ASSUME mailbox \in Seq(Command), mailbox # <<>>, mailbox' = Tail(mailbox)
    PROVE  /\ 1 \in DOMAIN mailbox /\ Head(mailbox) = mailbox[1] /\ mailbox[1] \in Command
           /\ \A n \in DOMAIN mailbox' : n \in Nat /\ n + 1 \in DOMAIN mailbox /\ mailbox'[n] = mailbox[n + 1]
           /\ \A n \in DOMAIN mailbox : n \in Nat /\ (n = 1 \/ (n - 1 \in DOMAIN mailbox' /\ mailbox'[n - 1] = mailbox[n]))
OBVIOUS

\* A channel that holds one completion is empty when it is taken.
LEMMA TakingTheOnly ==
    ASSUME NEW S, NEW q \in Seq(S), Len(q) = 1
    PROVE  q # <<>> /\ Tail(q) = <<>> /\ Head(q) = q[1] /\ DOMAIN q = {1} /\ q[1] \in S
<1>1. q # <<>> /\ Head(q) = q[1] /\ DOMAIN q = {1} /\ q[1] \in S
    OBVIOUS
<1>2. Tail(q) \in Seq(S) /\ Len(Tail(q)) = 0
    BY <1>1
<1>3. Tail(q) = <<>>
    BY <1>2, EmptySeq
<1> QED
    BY <1>1, <1>3

\* The completions in the mailbox stay, d places further.
SameMail(d) ==
    /\ \A n \in DOMAIN mailbox' : mailbox'[n].cmd = "JobCompleted" =>
           n \in Nat /\ n + d \in DOMAIN mailbox /\ mailbox'[n] = mailbox[n + d]
    /\ \A n \in DOMAIN mailbox : mailbox[n].cmd = "JobCompleted" =>
           n - d \in DOMAIN mailbox' /\ mailbox'[n - d] = mailbox[n]

\* Posting and taking another command leaves them.
LEMMA MailStays ==
    ASSUME mailbox \in Seq(Command)
    PROVE  /\ \A c \in Command : mailbox' = Append(mailbox, c) /\ c.cmd # "JobCompleted" => SameMail(0)
           /\ mailbox # <<>> /\ mailbox' = Tail(mailbox) /\ Head(mailbox).cmd # "JobCompleted" => SameMail(1)
           /\ mailbox' = mailbox => SameMail(0)
<1>1. ASSUME NEW c \in Command, mailbox' = Append(mailbox, c), c.cmd # "JobCompleted"
      PROVE  SameMail(0)
    BY <1>1, Posted DEF SameMail
<1>2. ASSUME mailbox # <<>>, mailbox' = Tail(mailbox), Head(mailbox).cmd # "JobCompleted"
      PROVE  SameMail(1)
    <2>1. /\ 1 \in DOMAIN mailbox /\ Head(mailbox) = mailbox[1]
          /\ \A n \in DOMAIN mailbox' : n \in Nat /\ n + 1 \in DOMAIN mailbox /\ mailbox'[n] = mailbox[n + 1]
          /\ \A n \in DOMAIN mailbox : n \in Nat /\ (n = 1 \/ (n - 1 \in DOMAIN mailbox' /\ mailbox'[n - 1] = mailbox[n]))
        BY <1>2, Taking
    <2> QED
        BY <1>2, <2>1 DEF SameMail
<1>3. ASSUME mailbox' = mailbox
      PROVE  SameMail(0)
    <2>1. \A n \in DOMAIN mailbox : n \in Nat
        OBVIOUS
    <2> QED
        BY <1>3, <2>1 DEF SameMail
<1> QED
    BY <1>1, <1>2, <1>3

\* Where the actor waits for no completion, none is on its way.
LEMMA PipeEmpty ==
    ASSUME Pipe, mode \in Alive, ~is_paused \/ mode \in Applying
    PROVE  NothingOnItsWay
<1>1. \A j : ~Waits(j)
    BY DEF Waits
<1>2. \A x \in sends : x.sink # incarnation
    BY <1>1 DEF Pipe
<1>3. sinkQ[incarnation] = <<>> /\ mode # "forwarding"
    BY <1>1 DEF Pipe
<1>4. NoMail
    BY <1>1 DEF Pipe, NoMail
<1> QED
    BY <1>2, <1>3, <1>4 DEF NothingOnItsWay

\* And where nothing is on its way, nothing is amiss.
LEMMA EmptyPipe == NothingOnItsWay => Pipe
BY DEF NothingOnItsWay, Pipe, NoMail

\* Where no turn is active, there is no task and no outcome.
LEMMA NoTurnRuns ==
    ASSUME Flight, mode \in Alive, inFlight.kind # "Active"
    PROVE  DOMAIN drivers = {} /\ DOMAIN results = {}
<1>1. \A t : inFlight # Active(t)
    BY DEF Active
<1> QED
    BY <1>1 DEF Flight

\* A turn that is active is in one hand, that of its task or of its outcome.
LEMMA OneHand ==
    ASSUME SessionInv, Flight, mode \in Alive
    PROVE  /\ \A t, u \in DOMAIN drivers : t = u
           /\ \A n, m \in DOMAIN results : n = m
           /\ DOMAIN drivers # {} => DOMAIN results = {}
<1>0. \A t : Active(t).turn = t
    BY DEF Active
<1>1. \A t, u : Active(t) = Active(u) => t = u
    BY <1>0
<1>2. \A n \in DOMAIN results : results[n].turn \notin DOMAIN drivers
    BY DEF SessionInv, Held, OneHolder
<1>3. \A n, m \in DOMAIN results : results[n].turn = results[m].turn => n = m
    BY DEF SessionInv, Held, OneHolder
<1>4. /\ \A t \in DOMAIN drivers : inFlight = Active(t)
      /\ \A n \in DOMAIN results : inFlight = Active(results[n].turn)
    BY DEF Flight
<1>5. \A t, u \in DOMAIN drivers : t = u
    BY <1>1, <1>4
<1>6. \A n, m \in DOMAIN results : n = m
    <2>1. \A n, m \in DOMAIN results : results[n].turn = results[m].turn
        BY <1>0, <1>4
    <2> QED
        BY <1>3, <2>1
<1>7. \A t \in DOMAIN drivers, n \in DOMAIN results : t = results[n].turn
    BY <1>0, <1>4
<1>8. ASSUME DOMAIN drivers # {}
      PROVE  DOMAIN results = {}
    BY <1>2, <1>7, <1>8
<1> QED
    BY <1>5, <1>6, <1>8

-----------------------------------------------------------------------------
(* Steps that move no turn and no completion.                              *)

\* The actor, the clients or nobody does something that concerns no turn and no
\* entry of a job.
LEMMA CalmControl ==
    ASSUME ControlInv, UNCHANGED <<jobs, submitting, sends, sinkQ, closed>>, Manager',
           UNCHANGED <<turnVars, inFlight, incarnation>>, mode \in Alive, mode' \in Alive,
           \/ mode' = mode /\ held' = held
           \/ mode \notin Applying \cup {"forwarding"} /\ mode' \notin Applying \cup {"forwarding"},
           mode' = "starting" => inFlight.kind = "None",
           NEW d \in {0, 1}, SameMail(d),
           asking'.step = "found" => Asked(asking'.job),
           \A n \in DOMAIN mailbox' : mailbox'[n].cmd = "CancelJob" => Asked(mailbox'[n].n)
    PROVE  ControlInv'
<1>0. /\ jobs' = jobs /\ submitting' = submitting
      /\ sends' = sends /\ sinkQ' = sinkQ /\ closed' = closed /\ log' = log /\ drivers' = drivers
      /\ results' = results /\ inFlight' = inFlight /\ incarnation' = incarnation
    BY DEF turnVars
<1>1. /\ \A j : Final(j)' <=> Final(j)
      /\ \A j : Going(j)' <=> Going(j)
      /\ \A j : Named(j)' <=> Named(j)
      /\ \A j : Tells(j)' <=> Tells(j)
      /\ is_paused' <=> is_paused
    BY <1>0 DEF Final, Going, Named, Tells, is_paused
<1>2. \A j : Waits(j) => Waits(j)'
    BY <1>0, <1>1 DEF Waits, Applying
<1>3. Manager' /\ Submitters' /\ Channels' /\ AtRest'
    BY <1>0 DEF ControlInv, Manager, Submitters, Channels, AtRest
<1>4. Flight'
    <2>1. mode' \in Applying => mode \in Applying
        BY DEF Applying
    <2> QED
        BY <1>0, <1>1, <2>1 DEF ControlInv, Flight
<1>5. JobsOfTasks'
    BY <1>0, <1>1 DEF ControlInv, JobsOfTasks
<1>6. Pipe'
    <2>1. NoMail => NoMail'
        BY DEF SameMail, NoMail
    <2>2. mode' = "forwarding" => mode = "forwarding" /\ held' = held
        OBVIOUS
    <2>3. mode # "forwarding" => mode' # "forwarding"
        OBVIOUS
    <2>4. ASSUME NEW x \in sends, x.sink = incarnation
          PROVE  /\ Waits(x.job)' /\ \A y \in sends : y.sink = incarnation => y = x
                 /\ sinkQ[incarnation] = <<>> /\ mode' # "forwarding" /\ NoMail'
        BY <1>2, <2>1, <2>3, <2>4 DEF ControlInv, Pipe
    <2>5. ASSUME sinkQ[incarnation] # <<>>
          PROVE  /\ Waits(sinkQ[incarnation][1].job)' /\ Len(sinkQ[incarnation]) = 1
                 /\ mode' # "forwarding" /\ NoMail'
        <3>1. /\ Waits(sinkQ[incarnation][1].job) /\ Len(sinkQ[incarnation]) = 1
              /\ mode # "forwarding" /\ NoMail
            BY <2>5 DEF ControlInv, Pipe
        <3> QED
            BY <1>0, <1>2, <2>1, <2>3, <3>1 DEF Waits, Final
    <2>6. mode' = "forwarding" => Waits(held)' /\ NoMail'
        <3> SUFFICES ASSUME mode' = "forwarding"
                     PROVE  Waits(held)' /\ NoMail'
            OBVIOUS
        <3>1. mode = "forwarding" /\ held' = held /\ Waits(held) /\ NoMail
            BY <2>2 DEF ControlInv, Pipe
        <3> QED
            BY <1>0, <1>1, <2>1, <3>1 DEF Waits, Final, Applying
    <2>7. ASSUME NEW n \in DOMAIN mailbox', mailbox'[n].cmd = "JobCompleted"
          PROVE  /\ Waits(mailbox[n + d].n) /\ mailbox'[n] = mailbox[n + d]
                 /\ \A m \in DOMAIN mailbox' : mailbox'[m].cmd = "JobCompleted" => m = n
        <3>1. n \in Nat /\ n + d \in DOMAIN mailbox /\ mailbox'[n] = mailbox[n + d]
            BY <2>7 DEF SameMail
        <3>2. /\ Waits(mailbox[n + d].n)
              /\ \A m \in DOMAIN mailbox : mailbox[m].cmd = "JobCompleted" => m = n + d
            BY <2>7, <3>1 DEF ControlInv, Pipe
        <3>3. ASSUME NEW m \in DOMAIN mailbox', mailbox'[m].cmd = "JobCompleted"
              PROVE  m = n
            <4>1. m \in Nat /\ m + d \in DOMAIN mailbox /\ mailbox'[m] = mailbox[m + d]
                BY <3>3 DEF SameMail
            <4>2. m + d = n + d
                BY <3>2, <3>3, <4>1
            <4> QED
                BY <3>1, <4>1, <4>2
        <3> QED
            BY <3>1, <3>2, <3>3
    <2>8. ASSUME NEW n \in DOMAIN mailbox', mailbox'[n].cmd = "JobCompleted"
          PROVE  Waits(mailbox[n].n)'
        <3>1. Waits(mailbox[n + d].n) /\ mailbox'[n] = mailbox[n + d]
            BY <2>7, <2>8
        <3>2. is_paused /\ inFlight.job = mailbox'[n].n /\ mode \notin Applying /\ Final(mailbox'[n].n)
            BY <3>1 DEF Waits
        <3>3. Final(mailbox[n].n)'
            BY <1>0, <3>2 DEF Final
        <3> QED
            BY <1>0, <1>1, <3>2, <3>3 DEF Waits, Applying
    <2> QED
        BY <1>0, <2>4, <2>5, <2>6, <2>7, <2>8 DEF Pipe
<1>7. Asks'
    BY <1>0, <1>1 DEF Asks, Asked, Final, Named
<1>8. Coming'
    <2> SUFFICES ASSUME mode' \notin Applying, is_paused, NEW j, j = inFlight.job
                 PROVE  Comes(j)'
        BY <1>0, <1>1 DEF Coming, Comes, Tells, Going
    <2>1. Comes(j)
        BY DEF ControlInv, Coming, Applying
    <2>2. mode = "forwarding" /\ held = j => mode' = "forwarding" /\ held' = j
        OBVIOUS
    <2>3. (\E n \in DOMAIN mailbox : mailbox[n] = Cmd("JobCompleted", j)) =>
              \E n \in DOMAIN mailbox' : mailbox'[n] = Cmd("JobCompleted", j)
        BY DEF SameMail, Cmd
    <2> QED
        BY <1>0, <1>1, <2>1, <2>2, <2>3 DEF Comes, Tells, Going
<1> QED
    BY <1>3, <1>4, <1>5, <1>6, <1>7, <1>8 DEF ControlInv

\* The actor, the clients or nobody does something that leaves the manager alone too.
LEMMA QuietControl ==
    ASSUME ControlInv, UNCHANGED <<jobVars, turnVars, inFlight, incarnation>>,
           mode \in Alive, mode' \in Alive,
           \/ mode' = mode /\ held' = held
           \/ mode \notin Applying \cup {"forwarding"} /\ mode' \notin Applying \cup {"forwarding"},
           mode' = "starting" => inFlight.kind = "None",
           NEW d \in {0, 1}, SameMail(d),
           asking'.step = "found" => Asked(asking'.job),
           \A n \in DOMAIN mailbox' : mailbox'[n].cmd = "CancelJob" => Asked(mailbox'[n].n)
    PROVE  ControlInv'
<1>1. UNCHANGED <<jobs, submitting, sends, sinkQ, closed, workers, aborted>>
    BY DEF jobVars
<1>2. Manager'
    BY <1>1 DEF ControlInv, Manager
<1> QED
    BY <1>1, <1>2, CalmControl

\* Clients post commands; a cancel is posted for the job that was found.
LEMMA ClientControl == SessionInv /\ ControlInv /\ ClientStep => ControlInv'
<1> SUFFICES ASSUME SessionInv, ControlInv, ClientStep
             PROVE  ControlInv'
    OBVIOUS
<1>1. mailbox \in Seq(Command) /\ asking \in Asking /\ inputs \in Nat
    BY DEF SessionInv, AsideOK
<1>2. /\ UNCHANGED <<jobVars, turnVars, inFlight, incarnation, mode, held>>
      /\ mode \in Alive /\ mode' \in Alive
      /\ \E c \in Command : /\ mailbox' = Append(mailbox, c) /\ c.cmd # "JobCompleted"
                            /\ c.cmd = "CancelJob" => asking.step = "found" /\ c.n = asking.job
      /\ asking'.step = "found" => asking' = asking
    <2>1. CASE ClientSubmit
        <3>1. Cmd("Trigger", inputs + 1) \in Command
            BY <1>1 DEF Cmd, Command
        <3> QED
            BY <2>1, <3>1 DEF ClientSubmit, Post, Cmd
    <2>2. CASE ClientCancel
        <3>1. Cmd("InternalCancel", 0) \in Command /\ Cmd("Snapshot", 0) \in Command
              /\ Cmd("CancelJob", asking.job) \in Command
            BY <1>1 DEF Cmd, Command, Asking
        <3> QED
            BY <2>2, <3>1 DEF ClientCancel, Post, Cmd, Idle
    <2>3. CASE ClientShutdown
        <3>1. Cmd("Shutdown", 0) \in Command
            BY DEF Cmd, Command
        <3> QED
            BY <2>3, <3>1 DEF ClientShutdown, Post, Cmd
    <2> QED
        BY <2>1, <2>2, <2>3 DEF ClientStep
<1>3. PICK c \in Command : /\ mailbox' = Append(mailbox, c) /\ c.cmd # "JobCompleted"
                           /\ c.cmd = "CancelJob" => asking.step = "found" /\ c.n = asking.job
    BY <1>2
<1>4. SameMail(0)
    BY <1>1, <1>3, MailStays
<1>5. \A n \in DOMAIN mailbox' : mailbox'[n].cmd = "CancelJob" => Asked(mailbox'[n].n)
    <2>1. /\ DOMAIN mailbox' = DOMAIN mailbox \cup {Len(mailbox) + 1}
          /\ \A n \in DOMAIN mailbox : mailbox'[n] = mailbox[n]
          /\ mailbox'[Len(mailbox) + 1] = c
        BY <1>1, <1>3, Posted
    <2> QED
        BY <1>2, <1>3, <2>1 DEF ControlInv, Asks
<1>6. asking'.step = "found" => Asked(asking'.job)
    BY <1>2 DEF ControlInv, Asks
<1>7. mode' = "starting" => inFlight.kind = "None"
    BY <1>2 DEF ControlInv, Flight
<1> QED
    BY <1>2, <1>4, <1>5, <1>6, <1>7, QuietControl

\* A handler that takes a command other than a completion off the mailbox keeps the
\* cancels behind it.
LEMMA TakenAsks ==
    ASSUME SessionInv, Asks, Arm2, mailbox' = Tail(mailbox)
    PROVE  /\ mailbox \in Seq(Command) /\ mailbox # <<>> /\ mode = "running" /\ mode \in Alive
           /\ results = <<>> /\ Head(mailbox) = mailbox[1] /\ 1 \in DOMAIN mailbox
           /\ \A n \in DOMAIN mailbox' : mailbox'[n].cmd = "CancelJob" => Asked(mailbox'[n].n)
           /\ asking.step = "found" => Asked(asking.job)
<1>1. mailbox \in Seq(Command) /\ mailbox # <<>> /\ mode = "running" /\ mode \in Alive /\ results = <<>>
    BY DEF SessionInv, AsideOK, Arm2, Alive
<1>2. /\ \A n \in DOMAIN mailbox' : n + 1 \in DOMAIN mailbox /\ mailbox'[n] = mailbox[n + 1]
      /\ Head(mailbox) = mailbox[1] /\ 1 \in DOMAIN mailbox
    BY <1>1, Taking
<1> QED
    BY <1>1, <1>2 DEF Asks

\* The handlers that move neither a turn nor a completion.
LEMMA HandlerControl ==
    SessionInv /\ ControlInv /\ (HandleTrigger \/ HandleProbe \/ CancelReturns \/ HandleShutdown)
    => ControlInv'
<1> SUFFICES ASSUME SessionInv, ControlInv, HandleTrigger \/ HandleProbe \/ CancelReturns \/ HandleShutdown
             PROVE  ControlInv'
    OBVIOUS
<1>0. mailbox \in Seq(Command) /\ inFlight \in InFlight
    BY DEF SessionInv, AsideOK, Held, Shaped
<1>1. CASE HandleTrigger
    <2>1. /\ UNCHANGED <<jobVars, turnVars, inFlight, incarnation>> /\ asking' = asking
          /\ Arm2 /\ mailbox' = Tail(mailbox) /\ Head(mailbox).cmd = "Trigger"
          /\ mode' = mode \/ (mode' = "starting" /\ ~has_active_turn /\ ~is_paused)
        BY <1>1 DEF HandleTrigger, Take, clientVars
    <2>2. /\ mailbox # <<>> /\ mode = "running"
          /\ \A n \in DOMAIN mailbox' : mailbox'[n].cmd = "CancelJob" => Asked(mailbox'[n].n)
          /\ asking.step = "found" => Asked(asking.job)
        BY <2>1, TakenAsks DEF ControlInv
    <2>3. SameMail(1)
        BY <1>0, <2>1, <2>2, MailStays
    <2>4. /\ mode \in Alive /\ mode' \in Alive
          /\ mode \notin Applying \cup {"forwarding"} /\ mode' \notin Applying \cup {"forwarding"}
        BY <2>1, <2>2 DEF Alive, Handling, Applying
    <2>5. mode' = "starting" => inFlight.kind = "None"
        BY <1>0, <2>1, <2>2 DEF has_active_turn, is_paused, InFlight
    <2> QED
        BY <2>1, <2>2, <2>3, <2>4, <2>5, QuietControl
<1>2. CASE HandleProbe
    <2>1. /\ UNCHANGED <<jobVars, turnVars, inFlight, incarnation, mode, held>>
          /\ Arm2 /\ mailbox' = Tail(mailbox) /\ Head(mailbox).cmd \in {"InternalCancel", "Snapshot"}
          /\ asking'.step = "found" => is_paused /\ asking'.job = inFlight.job
        BY <1>2 DEF HandleProbe, Take, Idle
    <2>2. /\ mailbox # <<>> /\ mode = "running" /\ mode \in Alive
          /\ \A n \in DOMAIN mailbox' : mailbox'[n].cmd = "CancelJob" => Asked(mailbox'[n].n)
        BY <2>1, TakenAsks DEF ControlInv
    <2>3. SameMail(1)
        BY <1>0, <2>1, <2>2, MailStays
    <2>4. asking'.step = "found" => Asked(asking'.job)
        BY <2>1, <2>2 DEF ControlInv, Flight, Asked
    <2>5. mode' \in Alive /\ mode' # "starting"
        BY <2>1, <2>2
    <2> QED
        BY <2>1, <2>2, <2>3, <2>4, <2>5, QuietControl
<1>3. CASE CancelReturns
    <2>1. /\ UNCHANGED <<jobVars, turnVars, inFlight, incarnation>> /\ asking' = asking
          /\ mailbox' = mailbox /\ mode = "cancelling" /\ mode' = "running"
        BY <1>3 DEF CancelReturns, clientVars
    <2>2. SameMail(0)
        BY <1>0, <2>1, MailStays
    <2>3. /\ mode \in Alive /\ mode' \in Alive /\ mode' # "starting"
          /\ mode \notin Applying \cup {"forwarding"} /\ mode' \notin Applying \cup {"forwarding"}
        BY <2>1 DEF Alive, Handling, Applying
    <2>4. /\ \A n \in DOMAIN mailbox' : mailbox'[n].cmd = "CancelJob" => Asked(mailbox'[n].n)
          /\ asking'.step = "found" => Asked(asking'.job)
        BY <2>1, <2>3 DEF ControlInv, Asks
    <2> QED
        BY <2>1, <2>2, <2>3, <2>4, QuietControl
<1>4. CASE HandleShutdown
    <2>1. /\ UNCHANGED <<jobVars, turnVars, inFlight, incarnation>> /\ asking' = asking
          /\ Arm2 /\ mailbox' = Tail(mailbox) /\ Head(mailbox).cmd = "Shutdown" /\ mode' = "draining"
        BY <1>4 DEF HandleShutdown, Take, clientVars
    <2>2. /\ mailbox # <<>> /\ mode = "running"
          /\ \A n \in DOMAIN mailbox' : mailbox'[n].cmd = "CancelJob" => Asked(mailbox'[n].n)
          /\ asking.step = "found" => Asked(asking.job)
        BY <2>1, TakenAsks DEF ControlInv
    <2>3. SameMail(1)
        BY <1>0, <2>1, <2>2, MailStays
    <2>4. /\ mode \in Alive /\ mode' \in Alive /\ mode' # "starting"
          /\ mode \notin Applying \cup {"forwarding"} /\ mode' \notin Applying \cup {"forwarding"}
        BY <2>1, <2>2 DEF Alive, Handling, Applying
    <2> QED
        BY <2>1, <2>2, <2>3, <2>4, QuietControl
<1> QED
    BY <1>1, <1>2, <1>3, <1>4

-----------------------------------------------------------------------------
(* A completion on its way to the actor.                                   *)

\* A completion never finds the actor waiting for another one, or for none.
LEMMA NoStrayCompletion == SessionInv /\ ControlInv => ~HandleStrayCompletion
<1> SUFFICES ASSUME SessionInv, ControlInv, HandleStrayCompletion
             PROVE  FALSE
    OBVIOUS
<1>1. /\ Arm2 /\ mailbox' = Tail(mailbox) /\ Head(mailbox).cmd = "JobCompleted"
      /\ ~is_paused \/ inFlight.job # Head(mailbox).n
    BY DEF HandleStrayCompletion, Take
<1>2. mode \in Alive /\ 1 \in DOMAIN mailbox /\ Head(mailbox) = mailbox[1]
    BY <1>1, TakenAsks DEF ControlInv
<1>3. Waits(mailbox[1].n)
    BY <1>1, <1>2 DEF ControlInv, Pipe
<1> QED
    BY <1>1, <1>2, <1>3 DEF Waits

\* The completion is in the actor's hand.
LEMMA HandleJobCompletedControl == SessionInv /\ ControlInv /\ HandleJobCompleted => ControlInv'
<1> SUFFICES ASSUME SessionInv, ControlInv, HandleJobCompleted
             PROVE  ControlInv'
    OBVIOUS
<1>1. /\ UNCHANGED <<jobVars, turnVars, inFlight, incarnation>> /\ asking' = asking
      /\ Arm2 /\ mailbox' = Tail(mailbox) /\ Head(mailbox).cmd = "JobCompleted" /\ mode' = "completing"
      /\ is_paused /\ inFlight.job = Head(mailbox).n
    BY DEF HandleJobCompleted, Take, clientVars
<1>2. /\ mailbox \in Seq(Command) /\ mailbox # <<>>
      /\ mode = "running" /\ mode \in Alive /\ 1 \in DOMAIN mailbox /\ Head(mailbox) = mailbox[1]
      /\ \A n \in DOMAIN mailbox' : mailbox'[n].cmd = "CancelJob" => Asked(mailbox'[n].n)
      /\ asking.step = "found" => Asked(asking.job)
    BY <1>1, TakenAsks DEF ControlInv
<1>3. /\ jobs' = jobs /\ submitting' = submitting /\ workers' = workers /\ aborted' = aborted
      /\ sends' = sends /\ sinkQ' = sinkQ /\ closed' = closed /\ log' = log /\ drivers' = drivers
      /\ results' = results /\ inFlight' = inFlight /\ incarnation' = incarnation
    BY <1>1 DEF jobVars, turnVars
<1>4. mode' \in Alive /\ mode' \in Applying /\ mode' # "starting" /\ mode' # "forwarding"
    BY <1>1 DEF Alive, Handling, Applying
<1>5. /\ Waits(mailbox[1].n) /\ \A m \in DOMAIN mailbox : mailbox[m].cmd = "JobCompleted" => m = 1
      /\ ~NoMail
    BY <1>1, <1>2 DEF ControlInv, Pipe, NoMail
<1>6. Manager' /\ Submitters' /\ Channels' /\ AtRest'
    BY <1>2, <1>3, <1>4 DEF ControlInv, Manager, Submitters, Channels, AtRest
<1>7. Flight'
    <2>1. Final(inFlight.job) /\ Named(inFlight.job)
        BY <1>1, <1>2, <1>5 DEF Waits, ControlInv, Flight
    <2>2. Final(inFlight.job)' /\ Named(inFlight.job)' /\ is_paused'
        BY <1>1, <1>3, <2>1 DEF Final, Named, is_paused
    <2> QED
        BY <1>2, <1>3, <1>4, <2>2 DEF ControlInv, Flight
<1>8. JobsOfTasks'
    BY <1>2, <1>3 DEF ControlInv, JobsOfTasks, Going, Tells
<1>9. Pipe'
    <2>1. (\A x \in sends : x.sink # incarnation) /\ sinkQ[incarnation] = <<>>
        BY <1>2, <1>5 DEF ControlInv, Pipe
    <2>2. NoMail'
        <3>1. \A n \in DOMAIN mailbox' : n \in Nat /\ n + 1 \in DOMAIN mailbox /\ mailbox'[n] = mailbox[n + 1]
            BY <1>1, <1>2, Taking
        <3>2. \A n \in DOMAIN mailbox' : n + 1 # 1
            BY <1>1, <1>2
        <3> QED
            BY <1>5, <3>1, <3>2 DEF NoMail
    <2>3. NothingOnItsWay'
        BY <1>3, <1>4, <2>1, <2>2 DEF NothingOnItsWay
    <2> QED
        BY <2>3, EmptyPipe, PTL
<1>10. Asks'
    BY <1>1, <1>2, <1>3 DEF Asks, Asked, Final, Named, is_paused
<1>11. Coming'
    BY <1>4 DEF Coming
<1> QED
    BY <1>6, <1>7, <1>8, <1>9, <1>10, <1>11 DEF ControlInv

\* The completion is taken off the channel, where it was alone.
LEMMA TakeCompletionControl == SessionInv /\ ControlInv /\ TakeCompletion => ControlInv'
<1> SUFFICES ASSUME SessionInv, ControlInv, TakeCompletion
             PROVE  ControlInv'
    OBVIOUS
<1> DEFINE q == sinkQ[incarnation]
<1>1. /\ UNCHANGED <<turnVars, inFlight, incarnation>> /\ asking' = asking /\ mailbox' = mailbox
      /\ mode = "running" /\ mailbox = <<>> /\ q # <<>>
      /\ held' = Head(q).job /\ mode' = "forwarding" /\ Receive(incarnation)
    BY DEF TakeCompletion, Arm3, clientVars
<1>2. /\ mode \in Alive /\ mode' \in Alive /\ mode' # "starting" /\ mode' \notin Applying /\ mode \notin Applying
    BY <1>1 DEF Alive, Handling, Applying
<1>3. /\ jobs' = jobs /\ submitting' = submitting /\ workers' = workers /\ aborted' = aborted
      /\ sends' = sends /\ closed' = closed /\ log' = log /\ drivers' = drivers
      /\ results' = results /\ inFlight' = inFlight /\ incarnation' = incarnation
      /\ sinkQ' = [sinkQ EXCEPT ![incarnation] = Tail(q)]
    BY <1>1 DEF Receive, turnVars
<1>4. incarnation \in Sinks /\ sinkQ \in [Sinks -> Seq(Completion)] /\ q \in Seq(Completion)
    BY <1>2, <1>1 DEF SessionInv, ActorHolds, JobTypeOK
<1>5. Waits(q[1].job) /\ Len(q) = 1 /\ \A x \in sends : x.sink # incarnation
    BY <1>1, <1>2 DEF ControlInv, Pipe
<1>6. /\ sinkQ'[incarnation] = <<>> /\ Head(q) = q[1] /\ \A s \in Sinks \ {incarnation} : sinkQ'[s] = sinkQ[s]
    <2>1. Tail(q) = <<>> /\ Head(q) = q[1]
        <3> HIDE DEF q
        <3> QED
            BY <1>4, <1>5, TakingTheOnly
    <2> QED
        BY <1>3, <1>4, <2>1
<1> HIDE DEF q
<1>7. Manager' /\ Submitters' /\ AtRest'
    BY <1>2, <1>3 DEF ControlInv, Manager, Submitters, AtRest
<1>8. Channels'
    BY <1>2, <1>3, <1>4, <1>6, SinksAreNumbers DEF ControlInv, Channels
<1>9. Flight'
    BY <1>2, <1>3 DEF ControlInv, Flight, is_paused, Named
<1>10. JobsOfTasks'
    BY <1>2, <1>3 DEF ControlInv, JobsOfTasks, Going, Tells
<1>11. NoMail' /\ DOMAIN mailbox' = {}
    BY <1>1 DEF NoMail
<1>12. Waits(held)'
    BY <1>1, <1>2, <1>3, <1>5, <1>6 DEF Waits, Final, is_paused
<1>13. Pipe'
    BY <1>2, <1>3, <1>5, <1>6, <1>11, <1>12 DEF Pipe
<1>14. Asks'
    BY <1>1, <1>2, <1>3 DEF ControlInv, Asks, Asked, Final, Named, is_paused
<1>15. Coming'
    BY <1>1, <1>12 DEF Coming, Comes, Waits
<1> QED
    BY <1>7, <1>8, <1>9, <1>10, <1>13, <1>14, <1>15 DEF ControlInv

\* The completion is put into the mailbox.
LEMMA ForwardControl == SessionInv /\ ControlInv /\ ForwardCompletion => ControlInv'
<1> SUFFICES ASSUME SessionInv, ControlInv, ForwardCompletion
             PROVE  ControlInv'
    OBVIOUS
<1> DEFINE c == Cmd("JobCompleted", held)
           l == Len(mailbox)
<1>1. /\ UNCHANGED <<jobVars, turnVars, inFlight, incarnation>> /\ asking' = asking
      /\ mode = "forwarding" /\ mode' = "running" /\ mailbox' = Append(mailbox, c)
    BY DEF ForwardCompletion, clientVars
<1>2. /\ mode \in Alive /\ mode' \in Alive /\ mode' # "starting" /\ mode' \notin Applying /\ mode \notin Applying
      /\ mode' # "forwarding"
    BY <1>1 DEF Alive, Handling, Applying
<1>3. /\ jobs' = jobs /\ submitting' = submitting /\ workers' = workers /\ aborted' = aborted
      /\ sends' = sends /\ closed' = closed /\ log' = log /\ drivers' = drivers /\ sinkQ' = sinkQ
      /\ results' = results /\ inFlight' = inFlight /\ incarnation' = incarnation
    BY <1>1 DEF jobVars, turnVars
<1>4. mailbox \in Seq(Command) /\ c \in Command /\ c.cmd = "JobCompleted" /\ c.n = held
    BY DEF SessionInv, AsideOK, Cmd, Command
<1>5. /\ DOMAIN mailbox' = DOMAIN mailbox \cup {l + 1} /\ mailbox'[l + 1] = c
      /\ \A n \in DOMAIN mailbox : mailbox'[n] = mailbox[n]
    BY <1>1, <1>4, Posted
<1>6. /\ Waits(held) /\ NoMail /\ (\A x \in sends : x.sink # incarnation) /\ sinkQ[incarnation] = <<>>
    BY <1>1, <1>2 DEF ControlInv, Pipe
<1>7. Manager' /\ Submitters' /\ Channels' /\ AtRest'
    BY <1>2, <1>3 DEF ControlInv, Manager, Submitters, Channels, AtRest
<1>8. Flight'
    BY <1>2, <1>3 DEF ControlInv, Flight, is_paused, Named
<1>9. JobsOfTasks'
    BY <1>2, <1>3 DEF ControlInv, JobsOfTasks, Going, Tells
<1>10. ASSUME NEW n \in DOMAIN mailbox', mailbox'[n].cmd = "JobCompleted"
       PROVE  n = l + 1 /\ Waits(mailbox[n].n)'
    <2>1. n = l + 1 /\ mailbox'[n].n = held
        BY <1>4, <1>5, <1>6, <1>10 DEF NoMail
    <2> QED
        BY <1>2, <1>3, <1>6, <2>1 DEF Waits, Final, is_paused
<1>11. Pipe'
    BY <1>2, <1>3, <1>6, <1>10 DEF Pipe
<1>12. Asks'
    <2>1. \A n \in DOMAIN mailbox' : mailbox'[n].cmd = "CancelJob" => n \in DOMAIN mailbox /\ mailbox'[n] = mailbox[n]
        BY <1>4, <1>5
    <2> QED
        BY <1>1, <1>2, <1>3, <2>1 DEF ControlInv, Asks, Asked, Final, Named, is_paused
<1>13. Coming'
    <2>1. inFlight.job = held /\ mailbox'[l + 1] = Cmd("JobCompleted", held) /\ l + 1 \in DOMAIN mailbox'
        BY <1>5, <1>6 DEF Waits
    <2> QED
        BY <1>3, <2>1 DEF Coming, Comes
<1> QED
    BY <1>7, <1>8, <1>9, <1>11, <1>12, <1>13 DEF ControlInv

-----------------------------------------------------------------------------
(* A job is decided.                                                       *)

\* The entry of a job that completes or is cancelled.
LEMMA Decided ==
    ASSUME JobTypeOK, NEW j \in DOMAIN jobs, NEW o \in Terminal,
           jobs' = [jobs EXCEPT ![j] = [status |-> o, sink |-> NoSink, abort |-> FALSE]]
    PROVE  /\ DOMAIN jobs' = DOMAIN jobs /\ jobs'[j].status = o /\ jobs'[j].sink = NoSink
           /\ \A k \in DOMAIN jobs \ {j} : jobs'[k] = jobs[k]
<1> DEFINE no == FALSE
           d == [status |-> o, sink |-> NoSink, abort |-> no]
<1>1. d.status = o /\ d.sink = NoSink
    BY DEF d
<1>2. jobs' = [jobs EXCEPT ![j] = d]
    OBVIOUS
<1> HIDE DEF d
<1>3. DOMAIN jobs' = DOMAIN jobs /\ jobs'[j] = d /\ \A k \in DOMAIN jobs \ {j} : jobs'[k] = jobs[k]
    BY <1>2
<1> QED
    BY <1>1, <1>3

\* The job the actor is paused on is decided, by its task or by a cancel: its sink is
\* the actor's, and this is the one completion there will be.
LEMMA DecidedControl ==
    ASSUME SessionInv, ControlInv, mode \in Alive, mode' \in {mode, "cancelling"},
           is_paused, NEW j, inFlight.job = j, j \in DOMAIN jobs, jobs[j].status = "Running",
           NEW o \in Terminal, NEW who,
           jobs' = [jobs EXCEPT ![j] = [status |-> o, sink |-> NoSink, abort |-> FALSE]],
           sends' = sends \cup Firing(j, jobs[j].sink, o, who),
           workers' \in {workers, workers \ {j}}, aborted' \subseteq aborted \cup {j},
           UNCHANGED <<submitting, sinkQ, closed, turnVars, inFlight, incarnation, asking>>,
           NoMail => NoMail',
           \A n \in DOMAIN mailbox' : mailbox'[n].cmd = "CancelJob" => Asked(mailbox'[n].n)
    PROVE  ControlInv'
<1>0. /\ log' = log /\ drivers' = drivers /\ results' = results /\ sinkQ' = sinkQ /\ closed' = closed
      /\ inFlight' = inFlight /\ incarnation' = incarnation /\ submitting' = submitting /\ asking' = asking
    BY DEF turnVars
<1>1. /\ DOMAIN jobs' = DOMAIN jobs /\ jobs'[j].status = o /\ jobs'[j].sink = NoSink
      /\ \A k \in DOMAIN jobs \ {j} : jobs'[k] = jobs[k]
    BY Decided DEF SessionInv
<1>2. "Running" \notin Terminal /\ incarnation \in Sinks
    BY DEF Terminal, SessionInv, ActorHolds, Alive, Handling
<1>3. ~Final(j) /\ \A k : ~Waits(k)
    BY <1>2 DEF Final, Waits
<1>4. mode \notin Applying /\ mode # "forwarding" /\ mode # "starting"
    BY <1>3 DEF ControlInv, Flight, Pipe, is_paused
<1>5. mode' \in Alive /\ mode' \notin Applying /\ mode' # "forwarding" /\ mode' # "starting"
    BY <1>4 DEF Alive, Handling, Applying
<1>6. (\A x \in sends : x.sink # incarnation) /\ sinkQ[incarnation] = <<>> /\ NoMail
    BY <1>3 DEF ControlInv, Pipe, NoMail
<1>7. jobs[j].sink = incarnation
    <2>1. Comes(j)
        BY <1>4 DEF ControlInv, Coming, Applying
    <2> QED
        BY <1>4, <1>6, <2>1 DEF Comes, Tells, NoMail, Cmd
<1> DEFINE x == [job |-> j, sink |-> incarnation, outcome |-> o, by |-> who]
<1>8. sends' = sends \cup {x} /\ x.sink = incarnation /\ x.job = j
    BY <1>2, <1>7, SinksAssumption DEF Firing
<1> HIDE DEF x
<1>9. DOMAIN drivers = {} /\ DOMAIN results = {}
    BY NoTurnRuns DEF ControlInv, is_paused
<1>10. \A k : Final(k) => Final(k)'
    BY <1>1 DEF Final
<1>11. Final(j)' /\ is_paused' /\ \A k : Named(k) => Named(k)'
    BY <1>0, <1>1 DEF Final, is_paused, Named
<1>12. Waits(j)'
    BY <1>0, <1>5, <1>11 DEF Waits
<1>13. Manager'
    BY <1>1, <1>2 DEF ControlInv, Manager
<1>14. Submitters' /\ AtRest'
    BY <1>0, <1>5 DEF ControlInv, Submitters, AtRest
<1>15. Channels'
    <2>1. 0 <= incarnation /\ incarnation <= incarnation /\ NoSink = 0
        BY <1>2, IncarnationsAssumption
    <2> QED
        BY <1>0, <1>1, <1>8, <2>1 DEF ControlInv, Channels
<1>16. Flight'
    BY <1>0, <1>5, <1>9, <1>11 DEF ControlInv, Flight
<1>17. JobsOfTasks'
    BY <1>0, <1>9 DEF JobsOfTasks
<1>18. Pipe'
    BY <1>0, <1>5, <1>6, <1>8, <1>12 DEF Pipe, NoMail
<1>19. Asks'
    BY <1>0, <1>10, <1>11 DEF ControlInv, Asks, Asked, is_paused
<1>20. Coming'
    BY <1>0, <1>8 DEF Coming, Comes
<1> QED
    BY <1>13, <1>14, <1>15, <1>16, <1>17, <1>18, <1>19, <1>20 DEF ControlInv

\* A cancel decides the job the turn is paused on, or finds it decided.
LEMMA HandleCancelJobControl == SessionInv /\ ControlInv /\ HandleCancelJob => ControlInv'
<1> SUFFICES ASSUME SessionInv, ControlInv, HandleCancelJob, NEW j, j = Head(mailbox).n
             PROVE  ControlInv'
    OBVIOUS
<1>1. /\ Arm2 /\ mailbox' = Tail(mailbox) /\ Head(mailbox).cmd = "CancelJob" /\ mode' = "cancelling"
      /\ UNCHANGED <<turnVars, inFlight, incarnation, asking>>
      /\ IF Known(j) THEN Cancel(j) ELSE UNCHANGED jobVars
    BY DEF HandleCancelJob, Take, clientVars
<1>2. /\ mailbox \in Seq(Command) /\ mailbox # <<>>
      /\ mode = "running" /\ mode \in Alive /\ 1 \in DOMAIN mailbox /\ Head(mailbox) = mailbox[1]
      /\ \A n \in DOMAIN mailbox' : mailbox'[n].cmd = "CancelJob" => Asked(mailbox'[n].n)
      /\ asking.step = "found" => Asked(asking.job)
    BY <1>1, TakenAsks DEF ControlInv
<1>3. Asked(j)
    BY <1>1, <1>2 DEF ControlInv, Asks
<1>4. SameMail(1)
    BY <1>1, <1>2, MailStays
<1>5. CASE UNCHANGED jobVars
    <2>1. /\ mode' \in Alive /\ mode' # "starting"
          /\ mode \notin Applying \cup {"forwarding"} /\ mode' \notin Applying \cup {"forwarding"}
        BY <1>1, <1>2 DEF Alive, Handling, Applying
    <2> QED
        BY <1>1, <1>2, <1>4, <1>5, <2>1, QuietControl
<1>6. CASE Known(j) /\ jobs[j].status \notin Terminal
    <2>1. j \in DOMAIN jobs /\ jobs[j].status = "Running" /\ jobs[j] \in Lifecycle
        BY <1>6 DEF Known, SessionInv, JobTypeOK, Lifecycle, Statuses
    <2>2. is_paused /\ inFlight.job = j
        BY <1>3, <2>1 DEF Asked, Final, Terminal
    <2>3. /\ jobs' = [jobs EXCEPT ![j] = [status |-> "Cancelled", sink |-> NoSink, abort |-> FALSE]]
          /\ aborted' \subseteq aborted \cup {j}
          /\ sends' = sends \cup Firing(j, jobs[j].sink, "Cancelled", "canceller")
          /\ UNCHANGED <<submitting, workers, sinkQ, closed>>
        BY <1>1, <1>6 DEF Cancel
    <2>4. NoMail => NoMail'
        BY <1>4 DEF SameMail, NoMail
    <2>5. "Cancelled" \in Terminal
        BY DEF Terminal
    <2> QED
        BY <1>1, <1>2, <2>1, <2>2, <2>3, <2>4, <2>5, DecidedControl
<1>7. Known(j) /\ jobs[j].status \in Terminal => UNCHANGED jobVars
    BY <1>1 DEF Cancel, jobVars
<1> QED
    BY <1>1, <1>5, <1>6, <1>7

\* Where there is no actor, the manager and its channels are all there is to keep.
LEMMA NoActorControl ==
    ASSUME mode' \notin Alive, Manager', Submitters', Channels', AtRest'
    PROVE  ControlInv'
BY DEF ControlInv, Flight, JobsOfTasks, Pipe, Asks, Coming

\* A job's task ends.
LEMMA WorkerControl == SessionInv /\ ControlInv /\ ~FastJobs /\ WorkerRuns => ControlInv'
<1> SUFFICES ASSUME SessionInv, ControlInv, ~FastJobs, WorkerRuns
             PROVE  ControlInv'
    OBVIOUS
<1>1. PICK j \in workers :
          /\ (is_paused /\ inFlight.job = j) \/ j \in aborted
          /\ Complete(j, "Completed") \/ WorkerAborts(j)
    BY DEF WorkerRuns
<1>2. /\ UNCHANGED <<turnVars, mode, inFlight, held, incarnation, asking, mailbox, pendingInput>>
      /\ workers' = workers \ {j} /\ aborted' = aborted \ {j}
      /\ UNCHANGED <<submitting, sinkQ, closed>>
    BY <1>1 DEF WorkerRuns, Complete, WorkerAborts, sessionVars, actorVars, clientVars
<1>3. j \in DOMAIN jobs /\ jobs[j].status \in {"Running"} \cup Terminal
    BY DEF SessionInv, JobTypeOK, Lifecycle, Statuses
<1>4. CASE jobs[j].status \in Terminal
    <2>1. jobs' = jobs /\ sends' = sends
        BY <1>1, <1>4 DEF Complete, WorkerAborts
    <2>2. Manager'
        BY <1>2, <1>4, <2>1 DEF ControlInv, Manager, Terminal
    <2>3. CASE mode \in Alive
        <3>1. /\ \A n \in DOMAIN mailbox' : mailbox'[n].cmd = "CancelJob" => Asked(mailbox'[n].n)
              /\ asking'.step = "found" => Asked(asking'.job)
              /\ mode' = "starting" => inFlight.kind = "None"
            BY <1>2, <2>3 DEF ControlInv, Asks, Flight
        <3>2. SameMail(0)
            BY <1>2, MailStays DEF SessionInv, AsideOK
        <3> QED
            BY <1>2, <2>1, <2>2, <2>3, <3>1, <3>2, CalmControl
    <2>4. CASE mode \notin Alive
        <3>1. Submitters' /\ Channels' /\ AtRest'
            BY <1>2, <2>1, <2>4 DEF ControlInv, Submitters, Channels, AtRest, turnVars
        <3> QED
            BY <1>2, <2>2, <2>4, <3>1, NoActorControl
    <2> QED
        BY <2>3, <2>4
<1>5. CASE jobs[j].status \notin Terminal
    <2>1. j \notin aborted /\ jobs[j].status = "Running"
        BY <1>3, <1>5 DEF ControlInv, Manager
    <2>2. is_paused /\ inFlight.job = j /\ Complete(j, "Completed")
        BY <1>1, <2>1 DEF WorkerAborts
    <2>3. mode \in Alive
        BY <2>2 DEF SessionInv, ActorHolds, is_paused, NoTurn
    <2>4. /\ jobs' = [jobs EXCEPT ![j] = [status |-> "Completed", sink |-> NoSink, abort |-> FALSE]]
          /\ sends' = sends \cup Firing(j, jobs[j].sink, "Completed", "worker")
        BY <1>5, <2>2 DEF Complete
    <2>5. "Completed" \in Terminal
        BY DEF Terminal
    <2>6. /\ NoMail => NoMail'
          /\ \A n \in DOMAIN mailbox' : mailbox'[n].cmd = "CancelJob" => Asked(mailbox'[n].n)
        BY <1>2, <2>3 DEF NoMail, ControlInv, Asks
    <2> QED
        BY <1>2, <1>3, <2>1, <2>2, <2>3, <2>4, <2>5, <2>6, DecidedControl
<1> QED
    BY <1>4, <1>5

\* A send gets through.
LEMMA SendControl == SessionInv /\ ControlInv /\ SendRuns => ControlInv'
<1> SUFFICES ASSUME SessionInv, ControlInv, SendRuns
             PROVE  ControlInv'
    OBVIOUS
<1>1. PICK x \in sends : Deliver(x)
    BY DEF SendRuns
<1>2. /\ log' = log /\ drivers' = drivers /\ results' = results
      /\ UNCHANGED <<mode, inFlight, held, incarnation, asking, mailbox, pendingInput>>
      /\ UNCHANGED <<jobs, submitting, workers, aborted, closed>> /\ sends' = sends \ {x}
    BY <1>1 DEF SendRuns, Deliver, turnVars, sessionVars, actorVars, clientVars
<1> DEFINE c == [job |-> x.job, outcome |-> x.outcome]
<1>3. c.job = x.job
    OBVIOUS
<1>4. sinkQ' \in {sinkQ, [sinkQ EXCEPT ![x.sink] = Append(@, c)]}
      /\ (x.sink \notin closed => sinkQ' = [sinkQ EXCEPT ![x.sink] = Append(@, c)])
    BY <1>1 DEF Deliver
<1>5. x.sink \in Sinks /\ c \in Completion /\ sinkQ \in [Sinks -> Seq(Completion)]
    BY DEF SessionInv, JobTypeOK, Send, Completion
<1> HIDE DEF c
<1>6. /\ \A s \in Sinks \ {x.sink} : sinkQ'[s] = sinkQ[s]
      /\ x.sink \notin closed => sinkQ'[x.sink] = Append(sinkQ[x.sink], c)
    BY <1>4, <1>5
<1>7. Manager' /\ Submitters' /\ AtRest'
    BY <1>2 DEF ControlInv, Manager, Submitters, AtRest
<1>8. Channels'
    <2>1. x.sink <= incarnation /\ incarnation \in Int
        BY IncarnationsAssumption DEF ControlInv, Channels, SessionInv, AsideOK
    <2>2. \A s \in Sinks : s > incarnation => s # x.sink
        BY <1>5, <2>1, IncarnationsAssumption
    <2> QED
        BY <1>2, <1>6, <2>2 DEF ControlInv, Channels
<1>9. CASE mode \notin Alive
    BY <1>2, <1>7, <1>8, <1>9, NoActorControl
<1>10. CASE mode \in Alive
    <2>1. incarnation \in Sinks /\ incarnation \notin closed
        BY <1>10 DEF ControlInv, Channels, SessionInv, ActorHolds, Alive, Handling
    <2>2. /\ \A j : Final(j)' <=> Final(j)
          /\ \A j : Named(j)' <=> Named(j)
          /\ \A j : Tells(j)' <=> Tells(j)
          /\ \A j : Waits(j)' <=> Waits(j)
          /\ (is_paused' <=> is_paused) /\ (NoMail' <=> NoMail)
        BY <1>2 DEF Final, Going, Named, Tells, Waits, is_paused, NoMail
    <2>3. Flight' /\ JobsOfTasks' /\ Asks'
        <3>1. Flight'
            BY <1>2, <2>2 DEF ControlInv, Flight, Final, Named, is_paused
        <3>2. JobsOfTasks'
            BY <1>2 DEF ControlInv, JobsOfTasks, Tells, Going
        <3>3. Asks'
            BY <1>2 DEF ControlInv, Asks, Asked, Final, Named, is_paused
        <3> QED
            BY <3>1, <3>2, <3>3
    <2>4. CASE x.sink # incarnation
        <3>1. sinkQ'[incarnation] = sinkQ[incarnation]
            BY <1>6, <2>1, <2>4
        <3>2. Pipe'
            <4>1. ASSUME NEW y \in sends', y.sink = incarnation
                  PROVE  /\ Waits(y.job)' /\ \A z \in sends' : z.sink = incarnation => z = y
                         /\ sinkQ[incarnation] = <<>> /\ mode # "forwarding" /\ NoMail
                BY <1>2, <1>10, <2>2, <4>1 DEF ControlInv, Pipe
            <4>2. sinkQ[incarnation] # <<>> =>
                     /\ Waits(sinkQ[incarnation][1].job)' /\ Len(sinkQ[incarnation]) = 1
                     /\ mode # "forwarding" /\ NoMail
                <5>1. sinkQ[incarnation] # <<>> =>
                        /\ Waits(sinkQ[incarnation][1].job) /\ Len(sinkQ[incarnation]) = 1
                        /\ mode # "forwarding" /\ NoMail
                    BY <1>10 DEF ControlInv, Pipe
                <5> QED
                    BY <1>2, <3>1, <5>1 DEF Waits, Final, is_paused
            <4>3. mode = "forwarding" => Waits(held)' /\ NoMail
                BY <1>2, <1>10, <2>2 DEF ControlInv, Pipe, Waits, Final, is_paused
            <4>4. ASSUME NEW n \in DOMAIN mailbox, mailbox[n].cmd = "JobCompleted"
                  PROVE  /\ Waits(mailbox[n].n)'
                         /\ \A m \in DOMAIN mailbox : mailbox[m].cmd = "JobCompleted" => m = n
                BY <1>2, <1>10, <4>4 DEF ControlInv, Pipe, Waits, Final, is_paused
            <4>5. /\ mode' = mode /\ mailbox' = mailbox /\ incarnation' = incarnation
                  /\ (NoMail' <=> NoMail) /\ sinkQ'[incarnation'] = sinkQ[incarnation]
                BY <1>2, <2>2, <3>1
            <4>6. \A y \in sends' : y.sink = incarnation' =>
                     /\ Waits(y.job)' /\ \A z \in sends' : z.sink = incarnation' => z = y
                     /\ sinkQ'[incarnation'] = <<>> /\ mode' # "forwarding" /\ NoMail'
                BY <4>1, <4>5
            <4>7. sinkQ'[incarnation'] # <<>> =>
                     /\ Waits(sinkQ[incarnation][1].job)' /\ Len(sinkQ'[incarnation']) = 1
                     /\ mode' # "forwarding" /\ NoMail'
                BY <4>2, <4>5
            <4> QED
                BY <4>3, <4>4, <4>5, <4>6, <4>7 DEF Pipe
        <3>3. Coming'
            <4> SUFFICES ASSUME mode \notin Applying, is_paused, NEW j, j = inFlight.job
                         PROVE  Comes(j)'
                BY <1>2, <2>2 DEF Coming, Comes, Tells, Going
            <4>1. Comes(j)
                BY <1>10 DEF ControlInv, Coming
            <4> QED
                BY <1>2, <2>2, <2>4, <3>1, <4>1 DEF Comes
        <3> QED
            BY <1>7, <1>8, <2>3, <3>2, <3>3 DEF ControlInv
    <2>5. CASE x.sink = incarnation
        <3>1. /\ Waits(x.job) /\ \A y \in sends : y.sink = incarnation => y = x
              /\ sinkQ[incarnation] = <<>> /\ mode # "forwarding" /\ NoMail
            BY <1>10, <2>5 DEF ControlInv, Pipe
        <3>2. sinkQ'[incarnation] = Append(<<>>, c)
            BY <1>6, <2>1, <2>5, <3>1
        <3>3. Append(<<>>, c) # <<>> /\ Append(<<>>, c)[1] = c /\ Len(Append(<<>>, c)) = 1
            <4>1. <<>> \in Seq(Completion)
                OBVIOUS
            <4> QED
                BY <1>5, <4>1
        <3>4. Pipe'
            BY <1>2, <1>3, <2>2, <3>1, <3>2, <3>3 DEF Pipe, NoMail, Waits, Final, is_paused
        <3>5. Coming'
            <4>1. inFlight.job = x.job
                BY <3>1 DEF Waits
            <4> QED
                BY <1>2, <1>3, <3>2, <3>3, <4>1 DEF Coming, Comes
        <3> QED
            BY <1>7, <1>8, <2>3, <3>4, <3>5 DEF ControlInv
    <2> QED
        BY <2>4, <2>5
<1> QED
    BY <1>9, <1>10

-----------------------------------------------------------------------------
(* A turn moves while no completion is on its way.                         *)

\* A turn is taken up, goes on or is parked: what was asked for is final by then.
LEMMA TurnMoves ==
    ASSUME ControlInv, mode \in Alive, is_paused => mode \in Applying,
           mode' \in Alive, mode' # "forwarding",
           UNCHANGED <<sends, sinkQ, mailbox, asking, incarnation>>,
           \A j : Named(j) => Named(j)' /\ (Final(j) => Final(j)'),
           Manager', Submitters', Channels', Flight', JobsOfTasks',
           is_paused' => mode' \in Applying \/ Tells(inFlight.job)'
    PROVE  ControlInv'
<1>1. NothingOnItsWay
    BY PipeEmpty DEF ControlInv
<1>2. NothingOnItsWay'
    BY <1>1 DEF NothingOnItsWay, NoMail
<1>3. Pipe'
    BY <1>2, EmptyPipe, PTL
<1>4. \A j : Asked(j) => Final(j)
    BY DEF Asked, ControlInv, Flight
<1>5. Asks'
    <2>1. \A j : Asked(j) => Named(j)' /\ Final(j)'
        BY <1>4 DEF Asked
    <2> QED
        BY <2>1 DEF ControlInv, Asks, Asked
<1>6. AtRest'
    BY DEF AtRest
<1>7. Coming'
    BY DEF Coming, Comes
<1> QED
    BY <1>3, <1>5, <1>6, <1>7 DEF ControlInv

\* An event that submits no job leaves every call with its job.
LEMMA SameCalls ==
    ASSUME NEW lg \in Seq(Event), NEW e \in Event, e.type # "JobSubmitted"
    PROVE  Append(lg, e) \in Seq(Event) /\ \A j : LookupCallId(Append(lg, e), j) = LookupCallId(lg, j)
<1>1. ASSUME NEW j
      PROVE  LookupCallId(Append(lg, e), j) = LookupCallId(lg, j)
    BY AppendLookup
<1> QED
    BY <1>1

\* A turn is given the only task there is.
LEMMA OnlyTask ==
    ASSUME DOMAIN drivers = {}, DOMAIN results' = {}, NEW t, NEW d, Spawn(t, d), d.pc \notin WithJob,
           inFlight' = Active(t), mode' = "running" \/ mode' = "draining"
    PROVE  Flight' /\ JobsOfTasks' /\ ~is_paused'
<1>1. DOMAIN drivers' = {t} /\ drivers'[t] = d
    BY DEF Spawn
<1>2. mode' # "starting" /\ mode' \notin Applying
    BY DEF Applying
<1>3. ~is_paused'
    BY DEF is_paused, Active
<1>4. Flight'
    BY <1>1, <1>2, <1>3 DEF Flight
<1>5. JobsOfTasks'
    BY <1>1 DEF JobsOfTasks, WithJob
<1> QED
    BY <1>3, <1>4, <1>5

\* The manager is left alone by the step.
LEMMA SameManager ==
    ASSUME ControlInv, UNCHANGED jobVars, incarnation' = incarnation, mode \in Alive,
           submitting = {} \/ drivers' = drivers,
           \A j : LookupCallId(log', j) = LookupCallId(log, j)
    PROVE  /\ Manager' /\ Submitters' /\ Channels'
           /\ UNCHANGED <<sends, sinkQ>>
           /\ \A j : Named(j) => Named(j)' /\ (Final(j) => Final(j)')
<1>1. UNCHANGED <<jobs, submitting, workers, aborted, sends, sinkQ, closed>>
    BY DEF jobVars
<1> QED
    BY <1>1 DEF ControlInv, Manager, Submitters, Channels, Named, Final

\* The tasks that are spawned have no job yet.
LEMMA NoJobYet ==
    ASSUME NEW n, NEW pend, NEW drift
    PROVE  /\ FreshLikeInit.pc \notin WithJob /\ FromModelCompleted(n).pc \notin WithJob
           /\ FromToolDispatching(n, pend, drift).pc \notin WithJob
<1>1. /\ FreshLikeInit.pc = "Init" /\ FromModelCompleted(n).pc = "ModelCompleted"
      /\ Task("Failing", n, pend).pc = "Failing" /\ Task("ToolDispatching", n, pend).pc = "ToolDispatching"
    BY DEF FreshLikeInit, FromModelCompleted, Task
<1>2. FromToolDispatching(n, pend, drift) \in {Task("Failing", n, pend), Task("ToolDispatching", n, pend)}
    BY DEF FromToolDispatching
<1> QED
    BY <1>1, <1>2 DEF WithJob

\* Without a task there is no submit under way.
LEMMA NoSubmit == Submitters /\ DOMAIN drivers = {} => submitting = {}
BY DEF Submitters

\* The input in hand is started.
LEMMA StartHeldInputControl == SessionInv /\ ControlInv /\ StartHeldInput => ControlInv'
<1> SUFFICES ASSUME SessionInv, ControlInv, StartHeldInput, NEW t, t = FreshTurn(log)
             PROVE  ControlInv'
    OBVIOUS
<1>1. /\ mode = "starting" /\ mode' = "running" /\ log' = Append(log, TurnStarted(t, held))
      /\ Spawn(t, FreshLikeInit) /\ inFlight' = Active(t) /\ results' = results
      /\ UNCHANGED <<jobVars, mailbox, incarnation, asking>>
    BY DEF StartHeldInput, TryStartTurn, clientVars
<1>2. mode \in Alive /\ mode' \in Alive /\ inFlight.kind = "None" /\ ~is_paused
    BY <1>1 DEF Alive, Handling, ControlInv, Flight, is_paused
<1>3. DOMAIN drivers = {} /\ DOMAIN results = {} /\ submitting = {}
    BY <1>2, NoTurnRuns, NoSubmit DEF ControlInv
<1>4. log \in Seq(Event) /\ held \in Nat /\ t \in Nat
    <2>1. log \in Seq(Event) /\ held \in Nat
        BY DEF SessionInv, Held, Shaped, AsideOK
    <2>2. TurnFailed(0) \in Event
        BY EventTypesOK
    <2> QED
        BY <2>1, <2>2, AppendStarted
<1>5. TurnStarted(t, held) \in Event /\ TurnStarted(t, held).type # "JobSubmitted"
    BY <1>4, EventTypesOK DEF TurnStarted, Ev
<1>6. \A j : LookupCallId(log', j) = LookupCallId(log, j)
    BY <1>1, <1>4, <1>5, SameCalls
<1>7. Flight' /\ JobsOfTasks' /\ ~is_paused'
    <2>1. FreshLikeInit.pc \notin WithJob
        BY NoJobYet
    <2> QED
        BY <1>1, <1>3, <2>1, OnlyTask
<1>8. /\ Manager' /\ Submitters' /\ Channels' /\ UNCHANGED <<sends, sinkQ>>
      /\ \A j : Named(j) => Named(j)' /\ (Final(j) => Final(j)')
    BY <1>1, <1>2, <1>3, <1>6, SameManager
<1> QED
    BY <1>1, <1>2, <1>7, <1>8, TurnMoves

\* The completion is recorded, and the turn is given a task again.
LEMMA JobCompletedControl ==
    SessionInv /\ ControlInv /\ (RecordJobCompleted \/ FinishJobCompleted) => ControlInv'
<1> SUFFICES ASSUME SessionInv, ControlInv, RecordJobCompleted \/ FinishJobCompleted,
                    NEW t, t = inFlight.turn
             PROVE  ControlInv'
    OBVIOUS
<1>1. mode \in Applying /\ mode \in Alive
    BY DEF RecordJobCompleted, FinishJobCompleted, Applying, Alive, Handling
<1>2. is_paused /\ Final(inFlight.job) /\ Named(inFlight.job)
    BY <1>1 DEF ControlInv, Flight
<1>3. DOMAIN drivers = {} /\ DOMAIN results = {} /\ submitting = {}
    BY <1>1, <1>2, NoTurnRuns, NoSubmit DEF ControlInv, is_paused
<1>4. log \in Seq(Event) /\ t \in Nat /\ inFlight.job \in Nat /\ inFlight.call \in Nat
    BY DEF SessionInv, Held, Shaped, InFlight
<1>5. CASE RecordJobCompleted
    <2> DEFINE e == JobCompletedRecorded(t, inFlight.job)
    <2>1. /\ log' = Append(log, e) /\ mode' = "recording"
          /\ UNCHANGED <<jobVars, drivers, results, inFlight, mailbox, incarnation, asking>>
        BY <1>5 DEF RecordJobCompleted, Record, clientVars
    <2>2. e \in Event /\ e.type # "JobSubmitted"
        BY <1>4, EventTypesOK DEF JobCompletedRecorded, Ev
    <2> HIDE DEF e
    <2>3. \A j : LookupCallId(log', j) = LookupCallId(log, j)
        BY <1>4, <2>1, <2>2, SameCalls
    <2>4. /\ Manager' /\ Submitters' /\ Channels' /\ UNCHANGED <<sends, sinkQ>>
          /\ \A j : Named(j) => Named(j)' /\ (Final(j) => Final(j)')
        BY <1>1, <2>1, <2>3, SameManager
    <2>5. mode' \in Applying /\ mode' \in Alive /\ mode' # "starting" /\ mode' # "forwarding"
        BY <2>1 DEF Applying, Alive, Handling
    <2>6. is_paused' /\ Final(inFlight.job)' /\ Named(inFlight.job)'
        BY <1>2, <2>1, <2>3 DEF is_paused, Final, Named, jobVars
    <2>7. Flight' /\ JobsOfTasks'
        BY <1>3, <2>1, <2>5, <2>6 DEF Flight, JobsOfTasks
    <2> QED
        BY <1>1, <2>1, <2>4, <2>5, <2>7, TurnMoves
<1>6. CASE FinishJobCompleted
    <2> DEFINE n == CountModelCalls(log, t)
               no == FALSE
               d == FromToolDispatching(n, <<>>, no)
               e == ToolResult(t, inFlight.call)
    <2>1. /\ log' = Append(log, e) /\ Spawn(t, d) /\ inFlight' = Active(t) /\ mode' = "running"
          /\ UNCHANGED <<jobVars, results, mailbox, incarnation, asking>>
        BY <1>6 DEF FinishJobCompleted, clientVars
    <2>2. e \in Event /\ e.type # "JobSubmitted"
        BY <1>4, EventTypesOK DEF ToolResult, Ev
    <2>3. d.pc \notin WithJob
        BY NoJobYet
    <2> HIDE DEF e, d
    <2>4. \A j : LookupCallId(log', j) = LookupCallId(log, j)
        BY <1>4, <2>1, <2>2, SameCalls
    <2>5. /\ Manager' /\ Submitters' /\ Channels' /\ UNCHANGED <<sends, sinkQ>>
          /\ \A j : Named(j) => Named(j)' /\ (Final(j) => Final(j)')
        BY <1>1, <1>3, <2>1, <2>4, SameManager
    <2>6. Flight' /\ JobsOfTasks' /\ ~is_paused'
        BY <1>3, <2>1, <2>3, OnlyTask
    <2>7. mode' \in Alive /\ mode' # "forwarding"
        BY <2>1 DEF Alive
    <2> QED
        BY <1>1, <2>1, <2>5, <2>6, <2>7, TurnMoves
<1> QED
    BY <1>5, <1>6

\* The actor takes the outcome of the turn: the turn is parked while its job runs, or is
\* over, and the input that waited is started.
LEMMA TakeOutcomeControl == SessionInv /\ ControlInv /\ TakeOutcome => ControlInv'
<1> SUFFICES ASSUME SessionInv, ControlInv, TakeOutcome, NEW r, r = Head(results),
                    NEW t, t = FreshTurn(log), NEW call, call = LookupCallId(log, r.job)
             PROVE  ControlInv'
    OBVIOUS
<1> DEFINE base == IF r.outcome = "Paused" THEN Append(log, TurnFailed(r.turn)) ELSE log
<1>1. /\ mode \in {"running", "draining"} /\ mode' = mode /\ results # <<>> /\ results' = Tail(results)
      /\ UNCHANGED <<jobVars, mailbox, incarnation, asking>>
    BY DEF TakeOutcome, clientVars
<1>2. \/ /\ r.outcome = "Paused" /\ call # None /\ log' = Append(log, TurnPaused(r.turn, r.job))
         /\ inFlight' = PausedOnJob(r.turn, r.job, call) /\ drivers' = drivers
      \/ log' = base /\ inFlight' = NoTurn /\ drivers' = drivers
      \/ /\ log' = Append(base, TurnStarted(t, pendingInput)) /\ Spawn(t, FreshLikeInit)
         /\ inFlight' = Active(t)
    <2>1. CASE r.outcome = "Paused" /\ call # None
        BY <2>1 DEF TakeOutcome, OnTurnComplete
    <2>2. CASE ~(r.outcome = "Paused" /\ call # None)
        BY <2>2 DEF TakeOutcome, OnTurnComplete, TryStartTurn
    <2> QED
        BY <2>1, <2>2
<1>3. /\ log \in Seq(Event) /\ results \in Seq(Result) /\ pendingInput \in Nat
      /\ mode \in Alive /\ mode' \in Alive /\ mode' # "forwarding" /\ mode' # "starting" /\ mode' \notin Applying
    BY <1>1 DEF SessionInv, Held, Shaped, AsideOK, Alive, Applying
<1>4. 1 \in DOMAIN results /\ r = results[1] /\ r \in Result
    BY <1>1, <1>3, TailOfResults
<1>5. inFlight.kind = "Active" /\ ~is_paused
    <2>1. inFlight = Active(r.turn)
        BY <1>3, <1>4 DEF ControlInv, Flight
    <2> QED
        BY <2>1 DEF Active, is_paused
<1>6. DOMAIN drivers = {} /\ DOMAIN results' = {} /\ submitting = {}
    <2>1. DOMAIN drivers = {} /\ \A n \in DOMAIN results : n = 1
        BY <1>3, <1>4, OneHand DEF ControlInv
    <2>2. \A n \in DOMAIN results' : n + 1 \in DOMAIN results /\ n + 1 # 1
        BY <1>1, <1>3, TailOfResults
    <2> QED
        BY <2>1, <2>2, NoSubmit DEF ControlInv
<1>7. r.turn \in Nat /\ r.job \in Nat /\ t \in Nat
    <2>1. TurnFailed(0) \in Event
        BY EventTypesOK
    <2> QED
        BY <1>3, <1>4, <2>1, AppendStarted DEF Result
<1>8. /\ TurnPaused(r.turn, r.job) \in Event /\ TurnFailed(r.turn) \in Event
      /\ TurnStarted(t, pendingInput) \in Event
      /\ TurnPaused(r.turn, r.job).type # "JobSubmitted" /\ TurnFailed(r.turn).type # "JobSubmitted"
      /\ TurnStarted(t, pendingInput).type # "JobSubmitted"
    BY <1>3, <1>7, EventTypesOK DEF TurnPaused, TurnFailed, TurnStarted, Ev
<1>9. base \in Seq(Event) /\ \A j : LookupCallId(base, j) = LookupCallId(log, j)
    BY <1>3, <1>8, SameCalls
<1> HIDE DEF base
<1>10. \A j : LookupCallId(log', j) = LookupCallId(log, j)
    <2>1. \A j : LookupCallId(Append(log, TurnPaused(r.turn, r.job)), j) = LookupCallId(log, j)
        BY <1>3, <1>8, SameCalls
    <2>2. \A j : LookupCallId(Append(base, TurnStarted(t, pendingInput)), j) = LookupCallId(base, j)
        BY <1>8, <1>9, SameCalls
    <2> QED
        BY <1>2, <1>9, <2>1, <2>2
<1>11. /\ Manager' /\ Submitters' /\ Channels' /\ UNCHANGED <<sends, sinkQ>>
       /\ \A j : Named(j) => Named(j)' /\ (Final(j) => Final(j)')
    BY <1>1, <1>3, <1>6, <1>10, SameManager
<1>12. Flight' /\ JobsOfTasks' /\ (is_paused' => Tells(inFlight.job)')
    <2>1. CASE /\ r.outcome = "Paused" /\ call # None /\ inFlight' = PausedOnJob(r.turn, r.job, call)
               /\ drivers' = drivers
        <3>1. inFlight'.job = r.job
            BY <2>1 DEF PausedOnJob
        <3>2. Tells(r.job) /\ r.job \in JobIds
            BY <1>3, <1>4, <2>1 DEF ControlInv, JobsOfTasks, SessionInv, Held, PausedOnJobs
        <3>3. Tells(inFlight.job)'
            BY <1>1, <3>1, <3>2 DEF Tells, Going, jobVars
        <3>4. Named(inFlight.job)'
            BY <1>10, <2>1, <3>1, <3>2 DEF Named
        <3> QED
            BY <1>3, <1>6, <2>1, <3>3, <3>4 DEF Flight, JobsOfTasks
    <2>2. CASE inFlight' = NoTurn /\ drivers' = drivers
        <3>1. ~is_paused'
            BY <2>2 DEF is_paused, NoTurn
        <3> QED
            BY <1>3, <1>6, <2>2, <3>1 DEF Flight, JobsOfTasks
    <2>3. CASE Spawn(t, FreshLikeInit) /\ inFlight' = Active(t)
        <3>1. FreshLikeInit.pc \notin WithJob
            BY NoJobYet
        <3> QED
            BY <1>1, <1>6, <2>3, <3>1, OnlyTask
    <2> QED
        BY <1>2, <2>1, <2>2, <2>3
<1> QED
    BY <1>1, <1>3, <1>5, <1>11, <1>12, TurnMoves

-----------------------------------------------------------------------------
(* An actor ends, and another takes the session up.                        *)

\* The actor exits, or the process dies.
LEMMA EndControl == SessionInv /\ ControlInv /\ (Exit \/ Crash) => ControlInv'
<1>1. ASSUME SessionInv, ControlInv, Exit
      PROVE  ControlInv'
    <2>1. /\ mode = "draining" /\ mode' = "exited" /\ pendingInput' = None /\ mailbox' = <<>> /\ asking' = Idle
          /\ CloseSink(incarnation) /\ UNCHANGED <<drivers, incarnation>>
        BY <1>1 DEF Exit
    <2>2. /\ UNCHANGED <<jobs, submitting, workers, aborted, sends>>
          /\ closed' = closed \cup {incarnation} /\ sinkQ' = [sinkQ EXCEPT ![incarnation] = <<>>]
        BY <2>1 DEF CloseSink
    <2>3. incarnation \in Sinks /\ sinkQ \in [Sinks -> Seq(Completion)] /\ mode' \notin Alive
        BY <1>1, <2>1 DEF SessionInv, ActorHolds, JobTypeOK, Alive, Handling
    <2>4. Manager' /\ Submitters' /\ AtRest'
        BY <1>1, <2>1, <2>2 DEF ControlInv, Manager, Submitters, AtRest
    <2>5. \A s \in Sinks : s > incarnation => s # incarnation
        BY <2>3, SinksAreNumbers
    <2>6. Channels'
        BY <1>1, <2>1, <2>2, <2>3, <2>5 DEF ControlInv, Channels
    <2> QED
        BY <2>3, <2>4, <2>6, NoActorControl
<1>2. ASSUME SessionInv, ControlInv, Crash
      PROVE  ControlInv'
    <2>1. /\ mode' = "down" /\ pendingInput' = None /\ mailbox' = <<>> /\ asking' = Idle
          /\ jobs' = [j \in {} |-> {}] /\ submitting' = {} /\ aborted' = {} /\ sends' = {} /\ closed' = {}
          /\ sinkQ' = [s \in Sinks |-> <<>>] /\ incarnation' = incarnation
        BY <1>2 DEF Crash
    <2>2. mode' \notin Alive /\ DOMAIN jobs' = {}
        BY <2>1 DEF Alive, Handling
    <2>3. Manager' /\ Submitters' /\ AtRest' /\ Channels'
        BY <2>1, <2>2 DEF Manager, Submitters, AtRest, Channels
    <2> QED
        BY <2>2, <2>3, NoActorControl
<1> QED
    BY <1>1, <1>2

\* What a new actor finds: no task, no outcome, no command, and a channel of its own
\* that nobody has sent to.
LEMMA NewActorControl ==
    ASSUME SessionInv, ControlInv, NewActor
    PROVE  /\ DOMAIN drivers = {} /\ results = <<>> /\ inFlight = NoTurn /\ submitting = {}
           /\ mailbox = <<>> /\ asking = Idle
           /\ incarnation' \in Sinks /\ incarnation' \notin closed /\ sinkQ[incarnation'] = <<>>
           /\ \A s \in Sinks : s > incarnation' => sinkQ[s] = <<>> /\ s \notin closed /\ s # incarnation'
           /\ \A x \in sends : x.sink <= incarnation' /\ x.sink # incarnation'
           /\ \A j \in DOMAIN jobs : jobs[j].sink <= incarnation' /\ jobs[j].sink # incarnation'
<1>1. DOMAIN drivers = {} /\ results = <<>> /\ inFlight = NoTurn /\ incarnation' \in Sinks
    BY NewActorFinds
<1>2. incarnation' = incarnation + 1 /\ mode \notin Alive
    BY DEF NewActor, Alive, Handling
<1>3. incarnation \in Int /\ NoSink \in Int /\ \A s \in Sinks : s \in Int
    BY IncarnationsAssumption DEF SessionInv, AsideOK
<1>4. (\A x \in sends : x.sink \in Int) /\ (\A j \in DOMAIN jobs : jobs[j].sink \in Int)
    BY <1>3 DEF SessionInv, JobTypeOK, Send, Lifecycle
<1>5. /\ \A x \in sends : x.sink <= incarnation
      /\ \A j \in DOMAIN jobs : jobs[j].sink <= incarnation
      /\ \A s \in Sinks : s > incarnation => sinkQ[s] = <<>> /\ s \notin closed
    BY DEF ControlInv, Channels
<1>6. mailbox = <<>> /\ asking = Idle /\ submitting = {}
    BY <1>1, <1>2, NoSubmit DEF ControlInv, AtRest
<1>7. /\ \A x \in sends : x.sink <= incarnation' /\ x.sink # incarnation'
      /\ \A j \in DOMAIN jobs : jobs[j].sink <= incarnation' /\ jobs[j].sink # incarnation'
    BY <1>2, <1>3, <1>4, <1>5
<1>8. incarnation' > incarnation /\ \A s \in Sinks : s > incarnation' => s > incarnation /\ s # incarnation'
    BY <1>1, <1>2, <1>3
<1> QED
    BY <1>1, <1>5, <1>6, <1>7, <1>8

\* The call of a paused job is the one looked up for it.
LEMMA ReplayCall ==
    ASSUME NEW lg, Replay(lg).point = "ResumePausedJob"
    PROVE  Replay(lg).call = LookupCallId(lg, Replay(lg).job)
<1> DEFINE b == Latest(Positions(lg, Boundaries))
           bad == StrayJobCompletion(lg) \/ NestedTurnStarted(lg)
           rest == b = 0 \/ lg[b].type \in {"TurnCompleted", "TurnFailed"}
<1>1. Malformed.point = "Malformed" /\ Fresh.point = "FreshTurn"
    BY DEF Malformed, Fresh, Decision
<1>2. Replay(lg) = IF bad THEN Malformed
                   ELSE IF rest THEN Fresh
                   ELSE IF lg[b].type = "TurnPaused" THEN ResumeFromTurnPaused(lg, b)
                   ELSE ResumeFromTurnStarted(lg, b)
    BY DEF Replay
<1>3. ResumeFromTurnStarted(lg, b).point # "ResumePausedJob"
    <2>1. \A t, p : /\ Decision("RestartCurrentTurn", t, <<>>, None, None).point # "ResumePausedJob"
                    /\ Decision("ResumeFromModelCompleted", t, <<>>, None, None).point # "ResumePausedJob"
                    /\ Decision("ResumeFromToolDispatching", t, p, None, None).point # "ResumePausedJob"
        BY DEF Decision
    <2>2. \E t, p : ResumeFromTurnStarted(lg, b) \in
              {Malformed, Decision("RestartCurrentTurn", t, <<>>, None, None),
               Decision("ResumeFromModelCompleted", t, <<>>, None, None),
               Decision("ResumeFromToolDispatching", t, p, None, None)}
        BY Zenon DEF ResumeFromTurnStarted
    <2> QED
        BY <1>1, <2>1, <2>2
<1>4. ResumeFromTurnPaused(lg, b).point = "ResumePausedJob" =>
          ResumeFromTurnPaused(lg, b) = Decision("ResumePausedJob", lg[b].turn, <<>>, lg[b].job,
                                                 LookupCallId(lg, lg[b].job))
    <2>1. \A t, j, c : Decision("ResumeAfterJobCompletion", t, <<>>, j, c).point # "ResumePausedJob"
        BY DEF Decision
    <2>2. ResumeFromTurnPaused(lg, b) \in
              {Malformed, Decision("ResumeAfterJobCompletion", lg[b].turn, <<>>, lg[b].job, LookupCallId(lg, lg[b].job)),
               Decision("ResumePausedJob", lg[b].turn, <<>>, lg[b].job, LookupCallId(lg, lg[b].job))}
        BY DEF ResumeFromTurnPaused
    <2> QED
        BY <1>1, <2>1, <2>2
<1> HIDE DEF bad, rest, b
<1>5. Replay(lg) = Decision("ResumePausedJob", lg[b].turn, <<>>, lg[b].job, LookupCallId(lg, lg[b].job))
    BY <1>1, <1>2, <1>3, <1>4
<1>6. Replay(lg).call = LookupCallId(lg, lg[b].job) /\ Replay(lg).job = lg[b].job
    BY <1>5 DEF Decision
<1> QED
    BY <1>6

\* An actor that is not paused starts with nothing on its way.
LEMMA StartsControl ==
    ASSUME SessionInv, ControlInv, NewActor, mode' = "running",
           UNCHANGED <<jobVars, mailbox, asking>>, Flight', JobsOfTasks', ~is_paused'
    PROVE  ControlInv'
<1>1. /\ DOMAIN drivers = {} /\ submitting = {} /\ mailbox = <<>> /\ asking = Idle
      /\ incarnation' \notin closed /\ sinkQ[incarnation'] = <<>>
      /\ \A s \in Sinks : s > incarnation' => sinkQ[s] = <<>> /\ s \notin closed
      /\ \A x \in sends : x.sink <= incarnation' /\ x.sink # incarnation'
      /\ \A j \in DOMAIN jobs : jobs[j].sink <= incarnation'
    BY NewActorControl
<1>2. UNCHANGED <<jobs, submitting, workers, aborted, sends, sinkQ, closed>>
    BY DEF jobVars
<1>3. Manager' /\ Submitters' /\ Channels'
    BY <1>1, <1>2 DEF ControlInv, Manager, Submitters, Channels
<1>4. mode' \in Alive /\ mode' # "forwarding"
    BY DEF Alive
<1>5. NothingOnItsWay'
    BY <1>1, <1>2, <1>4 DEF NothingOnItsWay, NoMail
<1>6. Pipe'
    BY <1>5, EmptyPipe, PTL
<1>7. AtRest' /\ Coming'
    BY <1>4 DEF AtRest, Coming
<1>8. Asks'
    <2>1. asking'.step # "found" /\ DOMAIN mailbox' = {}
        BY <1>1 DEF Idle
    <2> QED
        BY <2>1 DEF Asks
<1> QED
    BY <1>3, <1>6, <1>7, <1>8 DEF ControlInv

\* The points at which no job is waited for.
LEMMA StartControl ==
    SessionInv /\ ControlInv /\ (StartIdle \/ StartFails \/ StartTurn \/ StartAfterJob) => ControlInv'
<1>1. ASSUME SessionInv, ControlInv, StartIdle
      PROVE  ControlInv'
    <2>1. /\ NewActor /\ mode' = "running" /\ UNCHANGED <<jobVars, mailbox, asking>>
          /\ UNCHANGED <<drivers, results, inFlight>>
        BY <1>1 DEF StartIdle, clientVars, turnVars
    <2>2. DOMAIN drivers' = {} /\ DOMAIN results' = {} /\ ~is_paused' /\ mode' # "starting" /\ mode' \notin Applying
        <3>1. DOMAIN drivers = {} /\ results = <<>> /\ inFlight = NoTurn
            BY <1>1, <2>1, NewActorControl
        <3> QED
            BY <2>1, <3>1 DEF is_paused, NoTurn, Applying
    <2>3. Flight' /\ JobsOfTasks'
        BY <2>2 DEF Flight, JobsOfTasks
    <2> QED
        BY <1>1, <2>1, <2>2, <2>3, StartsControl
<1>2. ASSUME SessionInv, ControlInv, StartFails
      PROVE  ControlInv'
    <2>1. /\ NewActor /\ mode' = "failed" /\ UNCHANGED <<jobVars, mailbox, asking, pendingInput, drivers>>
        BY <1>2 DEF StartFails, clientVars, turnVars
    <2>2. UNCHANGED <<jobs, submitting, workers, aborted, sends, sinkQ, closed>> /\ mode' \notin Alive /\ mode \notin Alive
        BY <2>1 DEF jobVars, Alive, Handling, NewActor
    <2>3. /\ \A s \in Sinks : s > incarnation' => sinkQ[s] = <<>> /\ s \notin closed
          /\ \A x \in sends : x.sink <= incarnation'
          /\ \A j \in DOMAIN jobs : jobs[j].sink <= incarnation'
        BY <1>2, <2>1, NewActorControl
    <2>4. Manager' /\ Submitters' /\ AtRest' /\ Channels'
        BY <1>2, <2>1, <2>2, <2>3 DEF ControlInv, Manager, Submitters, AtRest, Channels
    <2> QED
        BY <2>2, <2>4, NoActorControl
<1>3. ASSUME SessionInv, ControlInv, StartTurn \/ StartAfterJob
      PROVE  ControlInv'
    <2>1. /\ NewActor /\ mode' = "running" /\ UNCHANGED <<jobVars, mailbox, asking, results>>
          /\ inFlight' = Active(Replay(log).turn)
        BY <1>3 DEF StartTurn, StartAfterJob, clientVars
    <2>2. \E n, p, drift : \/ Spawn(Replay(log).turn, FromModelCompleted(n))
                           \/ Spawn(Replay(log).turn, FromToolDispatching(n, p, drift))
        BY <1>3, Zenon DEF StartTurn, StartAfterJob
    <2>3. \E d : Spawn(Replay(log).turn, d) /\ d.pc \notin WithJob
        BY <2>2, NoJobYet
    <2>4. DOMAIN drivers = {} /\ DOMAIN results' = {}
        <3>1. DOMAIN drivers = {} /\ results = <<>>
            BY <1>3, <2>1, NewActorControl
        <3> QED
            BY <2>1, <3>1
    <2>5. Flight' /\ JobsOfTasks' /\ ~is_paused'
        BY <2>1, <2>3, <2>4, OnlyTask
    <2> QED
        BY <1>3, <2>1, <2>5, StartsControl
<1> QED
    BY <1>1, <1>2, <1>3

\* The job the log is paused on: the manager runs it and will tell the new actor, or has
\* its outcome and tells it now, or has lost it, and the actor tells itself.
LEMMA StartPausedControl == SessionInv /\ ControlInv /\ StartPaused => ControlInv'
<1> SUFFICES ASSUME SessionInv, ControlInv, StartPaused, NEW j, j = Replay(log).job,
                    NEW inc, inc = incarnation'
             PROVE  ControlInv'
    OBVIOUS
<1>1. /\ NewActor /\ mode' = "running" /\ UNCHANGED <<log, drivers, results, mailbox, asking>>
      /\ Replay(log).point = "ResumePausedJob" /\ Replay(log).call # None
      /\ inFlight' = PausedOnJob(Replay(log).turn, j, Replay(log).call)
    BY DEF StartPaused, turnVars, clientVars
<1>2. IF Known(j) THEN OnComplete(j, inc)
      ELSE /\ sinkQ' = [sinkQ EXCEPT ![inc] = Append(@, [job |-> j, outcome |-> "Failed"])]
           /\ UNCHANGED <<jobs, submitting, workers, aborted, sends, closed>>
    BY DEF StartPaused
<1>3. /\ DOMAIN drivers' = {} /\ DOMAIN results' = {} /\ submitting = {}
      /\ DOMAIN mailbox' = {} /\ asking'.step # "found"
      /\ inc \in Sinks /\ inc \notin closed /\ sinkQ[inc] = <<>>
      /\ \A s \in Sinks : s > inc => sinkQ[s] = <<>> /\ s \notin closed /\ s # inc
      /\ \A x \in sends : x.sink <= inc /\ x.sink # inc
      /\ \A i \in DOMAIN jobs : jobs[i].sink <= inc /\ jobs[i].sink # inc
    <2>1. /\ DOMAIN drivers = {} /\ results = <<>> /\ submitting = {} /\ mailbox = <<>> /\ asking = Idle
          /\ inc \in Sinks /\ inc \notin closed /\ sinkQ[inc] = <<>>
          /\ \A s \in Sinks : s > inc => sinkQ[s] = <<>> /\ s \notin closed /\ s # inc
          /\ \A x \in sends : x.sink <= inc /\ x.sink # inc
          /\ \A i \in DOMAIN jobs : jobs[i].sink <= inc /\ jobs[i].sink # inc
        BY <1>1, NewActorControl
    <2> QED
        BY <1>1, <2>1 DEF Idle
<1>4. mode' \in Alive /\ mode' # "forwarding" /\ mode' # "starting" /\ mode' \notin Applying
    BY <1>1 DEF Alive, Applying
<1>5. is_paused' /\ inFlight'.job = j /\ Named(j)'
    <2>1. is_paused' /\ inFlight'.job = j
        BY <1>1 DEF is_paused, PausedOnJob
    <2>2. j \in JobIds
        BY <1>1, TakenUp DEF SessionInv, Taken
    <2>3. LookupCallId(log, j) # None
        BY <1>1, ReplayCall
    <2> QED
        BY <1>1, <2>1, <2>2, <2>3 DEF Named
<1>6. Named(inFlight.job)'
    BY <1>5 DEF Named
<1>7. Flight' /\ JobsOfTasks' /\ Asks' /\ AtRest' /\ NoMail'
    BY <1>3, <1>4, <1>6 DEF Flight, JobsOfTasks, Asks, AtRest, NoMail
<1>8. JobTypeOK /\ sinkQ \in [Sinks -> Seq(Completion)] /\ inc <= inc
    BY <1>3, SinksAreNumbers DEF SessionInv, JobTypeOK
<1>9. CASE Known(j) /\ jobs[j].status \notin Terminal
    <2>1. /\ jobs' = [jobs EXCEPT ![j].sink = inc]
          /\ UNCHANGED <<submitting, workers, aborted, sinkQ, closed, sends>>
        BY <1>2, <1>9 DEF OnComplete
    <2>2. j \in DOMAIN jobs /\ jobs[j] \in Lifecycle /\ jobs[j].status = "Running"
        BY <1>8, <1>9 DEF Known, JobTypeOK, Lifecycle, Statuses
    <2>3. /\ DOMAIN jobs' = DOMAIN jobs /\ jobs'[j].sink = inc /\ jobs'[j].status = "Running"
          /\ \A i \in DOMAIN jobs : jobs'[i].status = jobs[i].status
          /\ \A i \in DOMAIN jobs \ {j} : jobs'[i].sink = jobs[i].sink
        BY <1>8, <2>1, <2>2 DEF JobTypeOK, Lifecycle
    <2>4. Manager' /\ Submitters'
        BY <1>3, <2>1, <2>3 DEF ControlInv, Manager, Submitters
    <2>5. Channels'
        BY <1>3, <1>8, <2>1, <2>3 DEF Channels
    <2>6. Pipe'
        BY <1>3, <1>4, <1>7, <2>1 DEF Pipe, NoMail
    <2>7. Coming'
        BY <1>5, <2>2, <2>3 DEF Coming, Comes, Tells, Going
    <2> QED
        BY <1>7, <2>4, <2>5, <2>6, <2>7 DEF ControlInv
<1>10. CASE Known(j) /\ jobs[j].status \in Terminal
    <2> DEFINE x == [job |-> j, sink |-> inc, outcome |-> jobs[j].status, by |-> "registrant"]
    <2>1. /\ sends' = sends \cup {x}
          /\ UNCHANGED <<jobs, submitting, workers, aborted, sinkQ, closed>>
        BY <1>2, <1>3, <1>10, SinksAssumption DEF OnComplete, Firing
    <2>2. x.sink = inc /\ x.job = j
        OBVIOUS
    <2> HIDE DEF x
    <2>3. Manager' /\ Submitters'
        BY <1>3, <2>1 DEF ControlInv, Manager, Submitters
    <2>4. Channels'
        BY <1>3, <1>8, <2>1, <2>2 DEF Channels
    <2>5. Waits(j)'
        BY <1>4, <1>5, <1>10, <2>1 DEF Waits, Final
    <2>6. Pipe'
        BY <1>3, <1>4, <1>7, <2>1, <2>2, <2>5 DEF Pipe, NoMail
    <2>7. Coming'
        BY <1>5, <2>1, <2>2 DEF Coming, Comes
    <2> QED
        BY <1>7, <2>3, <2>4, <2>6, <2>7 DEF ControlInv
<1>11. CASE ~Known(j)
    <2> DEFINE c == [job |-> j, outcome |-> "Failed"]
    <2>1. /\ sinkQ' = [sinkQ EXCEPT ![inc] = Append(@, c)]
          /\ UNCHANGED <<jobs, submitting, workers, aborted, sends, closed>>
        BY <1>2, <1>11
    <2>2. c.job = j /\ c \in Completion
        BY <1>5 DEF Named, Completion, Terminal
    <2> HIDE DEF c
    <2>3. /\ sinkQ'[inc] = Append(<<>>, c) /\ \A s \in Sinks \ {inc} : sinkQ'[s] = sinkQ[s]
        BY <1>3, <1>8, <2>1
    <2>4. Append(<<>>, c) # <<>> /\ Append(<<>>, c)[1] = c /\ Len(Append(<<>>, c)) = 1
        <3>1. <<>> \in Seq(Completion)
            OBVIOUS
        <3> QED
            BY <2>2, <3>1
    <2>5. Manager' /\ Submitters'
        BY <1>3, <2>1 DEF ControlInv, Manager, Submitters
    <2>6. Channels'
        BY <1>3, <1>8, <2>1, <2>3 DEF Channels
    <2>7. j \notin DOMAIN jobs
        BY <1>3, <1>11 DEF Known
    <2>8. Pipe'
        BY <1>3, <1>4, <1>5, <1>7, <2>1, <2>2, <2>3, <2>4, <2>7 DEF Pipe, NoMail, Waits, Final
    <2>9. Coming'
        BY <1>5, <2>2, <2>3, <2>4 DEF Coming, Comes
    <2> QED
        BY <1>7, <2>5, <2>6, <2>8, <2>9 DEF ControlInv
<1> QED
    BY <1>9, <1>10, <1>11

-----------------------------------------------------------------------------
(* A turn's task takes a step.                                             *)

\* The task of turn t moves, and no other.
Moved(t) ==
    /\ DOMAIN drivers' = DOMAIN drivers /\ results' = results
    /\ \A u \in DOMAIN drivers \ {t} : drivers'[u] = drivers[u]

Passes(t, from, to) == Moved(t) /\ drivers[t].pc = from /\ drivers'[t].pc = to

\* What its step means to the manager: nothing, a job that is submitted, a submit that
\* returns, the job noted in the log, the sink registered, the turn paused.
Plain(t) ==
    /\ Moved(t) /\ UNCHANGED jobVars /\ \A j : LookupCallId(log', j) = LookupCallId(log, j)
    /\ drivers[t].pc # "Submitting" /\ drivers'[t].pc \notin WithJob
Submits(t) ==
    /\ Passes(t, "ToolDispatching", "Submitting") /\ log' = log
    /\ \E j \in JobIds : LookupCallId(log, j) = None /\ Submit(j) /\ drivers'[t].job = j
Strays(t) ==
    /\ Passes(t, "ToolDispatching", "Submitted") /\ log' = log /\ UNCHANGED jobVars
    /\ drivers'[t].job \in StrayJobs
Returns(t) ==
    /\ Passes(t, "Submitting", "Submitted") /\ log' = log
    /\ PatchAbort(drivers[t].job) /\ drivers'[t].job = drivers[t].job
Remembers(t) ==
    /\ Passes(t, "Submitted", "Registering") /\ UNCHANGED jobVars /\ drivers'[t].job = drivers[t].job
    /\ \A j : j # drivers[t].job => LookupCallId(log', j) = LookupCallId(log, j)
Registers(t) ==
    /\ Passes(t, "Registering", "Registered") /\ log' = log
    /\ OnComplete(drivers[t].job, incarnation) /\ drivers'[t].job = drivers[t].job
Parks(t) ==
    /\ Passes(t, "Registered", "Paused") /\ log' = log /\ UNCHANGED jobVars
    /\ drivers'[t].job = drivers[t].job

\* Every step of a task is of one of these kinds, or its last.
LEMMA TaskCases ==
    ASSUME SessionInv, NEW t \in DOMAIN drivers, NEW listening \in BOOLEAN,
           DriverStep(t, incarnation, listening)
    PROVE  \/ Plain(t) \/ Submits(t) \/ Strays(t) \/ Returns(t) \/ Remembers(t) \/ Registers(t) \/ Parks(t)
           \/ PostOutcome(t, listening)
<1> SUFFICES ASSUME ~PostOutcome(t, listening)
             PROVE  \/ Plain(t) \/ Submits(t) \/ Strays(t) \/ Returns(t) \/ Remembers(t) \/ Registers(t) \/ Parks(t)
    OBVIOUS
<1>1. /\ drivers[t] \in Driver /\ WellFormed(drivers[t]) /\ t \in Nat
      /\ drivers = [u \in DOMAIN drivers |-> drivers[u]] /\ log \in Seq(Event)
    BY DEF SessionInv, Held, Shaped, TasksWellFormed, WellFormed
<1>2. Silent(t) \/ Writes(t)
    BY InvTypes, TaskStep DEF SessionInv, Held
<1>3. /\ Moved(t)
      /\ drivers'[t].pc \in WithJob => drivers[t].pc \in WithJob \cup {"ToolDispatching"}
      /\ log' = log \/ \E e \in Event : log' = Append(log, e) /\ (e.type = "JobSubmitted" => drivers[t].pc = "Submitted")
    <2>1. CASE Silent(t)
        <3>1. PICK d : Goes(t, d)
            BY <2>1 DEF Silent
        <3>2. DOMAIN drivers' = DOMAIN drivers /\ drivers'[t] = d
              /\ \A u \in DOMAIN drivers \ {t} : drivers'[u] = drivers[u]
            BY <1>1, <3>1 DEF Goes
        <3> QED
            BY <3>1, <3>2 DEF Goes, Moved
    <2>2. CASE Writes(t)
        <3>1. PICK d, e : Adds(t, d, e)
            BY <2>2 DEF Writes
        <3>2. DOMAIN drivers' = DOMAIN drivers /\ drivers'[t] = d
              /\ \A u \in DOMAIN drivers \ {t} : drivers'[u] = drivers[u]
            BY <1>1, <3>1 DEF Adds
        <3> QED
            BY <3>1, <3>2 DEF Adds, Moved, WithJob
    <2> QED
        BY <1>2, <2>1, <2>2
<1>4. drivers[t].pc # "Submitted" => \A j : LookupCallId(log', j) = LookupCallId(log, j)
    <2>1. CASE log' = log
        BY <2>1
    <2>2. ASSUME NEW e \in Event, log' = Append(log, e), e.type # "JobSubmitted"
          PROVE  \A j : LookupCallId(log', j) = LookupCallId(log, j)
        BY <1>1, <2>2, SameCalls
    <2> QED
        BY <1>3, <2>1, <2>2
<1>5. CASE drivers[t].pc \notin WithJob \cup {"ToolDispatching"}
    <2>1. UNCHANGED jobVars
        <3>1. ~Invoke(t) /\ ~SubmitReturns(t) /\ ~RegisterSink(t, incarnation)
            BY <1>5 DEF Invoke, SubmitReturns, RegisterSink, At, WithJob
        <3>2. CASE \/ RecordTurnFailed(t) \/ InitTransit(t) \/ ContextManagedTransit(t)
                   \/ RecordModelCallStarted(t) \/ DemuxToolUse(t) \/ DemuxMessageCompleted(t)
                   \/ Resolve(t) \/ RecordTurnCompleted(t) \/ CountErrors(t)
            BY <3>2 DEF RecordTurnFailed, InitTransit, ContextManagedTransit, RecordModelCallStarted,
               DemuxToolUse, DemuxMessageCompleted, Resolve, RecordTurnCompleted, CountErrors
        <3>3. CASE \/ DispatchDone(t) \/ RecordJobSubmitted(t) \/ PauseTurn(t) \/ RecordToolResult(t)
                   \/ OpenStream(t) \/ DemuxEnd(t)
            BY <3>3 DEF DispatchDone, RecordJobSubmitted, PauseTurn, RecordToolResult, OpenStream, DemuxEnd
        <3> QED
            BY <3>1, <3>2, <3>3 DEF DriverStep
    <2> QED
        BY <1>3, <1>4, <1>5, <2>1 DEF Plain, WithJob
<1>6. CASE drivers[t].pc \in WithJob \cup {"ToolDispatching"}
    <2>1. \/ DispatchDone(t) \/ Invoke(t) \/ SubmitReturns(t) \/ RecordJobSubmitted(t)
          \/ RegisterSink(t, incarnation) \/ PauseTurn(t)
        BY <1>6 DEF DriverStep, RecordTurnFailed, InitTransit, ContextManagedTransit, RecordModelCallStarted,
           OpenStream, DemuxToolUse, DemuxMessageCompleted, DemuxEnd, Resolve, RecordTurnCompleted,
           CountErrors, RecordToolResult, At, WithJob
    <2>2. CASE DispatchDone(t)
        <3>1. drivers'[t].pc = "Init" /\ drivers[t].pc = "ToolDispatching" /\ UNCHANGED jobVars
            BY <1>1, <2>2 DEF DispatchDone, At, Goto, Driver
        <3> QED
            BY <1>3, <1>4, <3>1 DEF Plain, WithJob
    <2>3. CASE Invoke(t)
        <3>1. drivers[t].pc = "ToolDispatching" /\ log' = log
            BY <2>3 DEF Invoke, At
        <3>2. CASE Goto(t, "Invoked") /\ UNCHANGED jobVars
            <4>1. drivers'[t].pc = "Invoked"
                BY <1>1, <3>2 DEF Goto, Driver
            <4> QED
                BY <1>3, <1>4, <3>1, <3>2, <4>1 DEF Plain, WithJob
        <3>3. ASSUME NEW j \in JobIds, LookupCallId(log, j) = None, Submit(j),
                     drivers' = [drivers EXCEPT ![t].pc = "Submitting", ![t].job = j]
              PROVE  Submits(t)
            <4>1. drivers'[t].pc = "Submitting" /\ drivers'[t].job = j
                BY <1>1, <3>3 DEF Driver
            <4> QED
                BY <1>3, <3>1, <3>3, <4>1 DEF Submits, Passes
        <3>4. ASSUME NEW j \in StrayJobs, UNCHANGED jobVars,
                     drivers' = [drivers EXCEPT ![t].pc = "Submitted", ![t].job = j]
              PROVE  Strays(t)
            <4>1. drivers'[t].pc = "Submitted" /\ drivers'[t].job = j
                BY <1>1, <3>4 DEF Driver
            <4> QED
                BY <1>3, <3>1, <3>4, <4>1 DEF Strays, Passes
        <3> QED
            BY <2>3, <3>2, <3>3, <3>4 DEF Invoke
    <2>4. CASE SubmitReturns(t)
        <3>1. /\ drivers'[t].pc = "Submitted" /\ drivers'[t].job = drivers[t].job
              /\ drivers[t].pc = "Submitting" /\ log' = log /\ PatchAbort(drivers[t].job)
            BY <1>1, <2>4 DEF SubmitReturns, At, Goto, Driver
        <3> QED
            BY <1>3, <3>1 DEF Returns, Passes
    <2>5. CASE RecordJobSubmitted(t)
        <3> DEFINE f == JobSubmitted(t, Head(drivers[t].pend).id, drivers[t].job)
        <3>1. /\ drivers'[t].pc = "Registering" /\ drivers'[t].job = drivers[t].job
              /\ drivers[t].pc = "Submitted" /\ log' = Append(log, f) /\ UNCHANGED jobVars
            BY <1>1, <2>5 DEF RecordJobSubmitted, Record, At, Goto, Driver
        <3>2. f \in Event /\ f.job = drivers[t].job
            <4>1. Head(drivers[t].pend) \in Call /\ drivers[t].job \in Nat
                <5>1. drivers[t].pend \in Seq(Call) /\ drivers[t].pend # <<>> /\ drivers[t].job \in Nat
                    BY <1>1, <3>1 DEF WellFormed, Driver, Busy
                <5> QED
                    BY <5>1
            <4>2. Head(drivers[t].pend).id \in Nat
                BY <4>1 DEF Call
            <4> QED
                BY <1>1, <4>1, <4>2, EventTypesOK DEF JobSubmitted, Ev
        <3> HIDE DEF f
        <3>3. ASSUME NEW j, j # drivers[t].job
              PROVE  LookupCallId(log', j) = LookupCallId(log, j)
            BY <1>1, <3>1, <3>2, <3>3, AppendLookup
        <3> QED
            BY <1>3, <3>1, <3>3 DEF Remembers, Passes
    <2>6. CASE RegisterSink(t, incarnation)
        <3>1. drivers[t].pc = "Registering" /\ log' = log
            BY <2>6 DEF RegisterSink, At
        <3>2. CASE OnComplete(drivers[t].job, incarnation) /\ Goto(t, "Registered")
            <4>1. drivers'[t].pc = "Registered" /\ drivers'[t].job = drivers[t].job
                BY <1>1, <3>2 DEF Goto, Driver
            <4> QED
                BY <1>3, <3>1, <3>2, <4>1 DEF Registers, Passes
        <3>3. CASE UNCHANGED jobVars /\ Goto(t, "Invoked")
            <4>1. drivers'[t].pc = "Invoked"
                BY <1>1, <3>3 DEF Goto, Driver
            <4> QED
                BY <1>3, <1>4, <3>1, <3>3, <4>1 DEF Plain, WithJob
        <3> QED
            BY <2>6, <3>2, <3>3 DEF RegisterSink
    <2>7. CASE PauseTurn(t)
        <3>1. drivers[t].pc = "Registered" /\ log' = log /\ UNCHANGED jobVars
            BY <2>7 DEF PauseTurn, At
        <3>2. drivers'[t].pc = "Paused" /\ drivers'[t].job = drivers[t].job
            BY <1>1, <2>7 DEF PauseTurn, Driver
        <3> QED
            BY <1>3, <3>1, <3>2 DEF Parks, Passes
    <2> QED
        BY <2>1, <2>2, <2>3, <2>4, <2>5, <2>6, <2>7
<1> QED
    BY <1>5, <1>6

\* A task that moves keeps the actor's turn, as long as what it says of its job is so.
LEMMA TaskMoves ==
    ASSUME SessionInv, ControlInv, NEW t \in DOMAIN drivers, UNCHANGED sessionVars, Moved(t),
           Manager', Submitters', Channels', UNCHANGED <<sends, sinkQ>>,
           \A j : Named(j) /\ Final(j) => Named(j)' /\ Final(j)',
           NEW j, j = drivers'[t].job,
           drivers'[t].pc \in {"Submitting", "Submitted", "Registering"} => j \in StrayJobs \/ Going(j)',
           drivers'[t].pc \in {"Registered", "Paused"} => Tells(j)', mode \in Alive
    PROVE  ControlInv'
<1>1. UNCHANGED <<mode, inFlight, mailbox, asking, incarnation>>
    BY DEF sessionVars, actorVars, clientVars
<1>2. inFlight = Active(t) /\ ~is_paused /\ inFlight.kind # "None"
    BY DEF ControlInv, Flight, is_paused, Active
<1>3. mode # "starting" /\ mode \notin Applying /\ mode # "forwarding"
    BY <1>2 DEF ControlInv, Flight, Pipe, Waits
<1>4. DOMAIN drivers' = {t} /\ DOMAIN results' = {}
    BY OneHand DEF ControlInv, Moved
<1>5. ~is_paused'
    BY <1>1, <1>2 DEF is_paused
<1>6. Flight'
    BY <1>1, <1>2, <1>3, <1>4, <1>5 DEF Flight
<1>7. JobsOfTasks'
    BY <1>4 DEF JobsOfTasks, Going, Tells
<1>8. NothingOnItsWay
    BY <1>2, PipeEmpty DEF ControlInv
<1>9. NothingOnItsWay'
    BY <1>1, <1>8 DEF NothingOnItsWay, NoMail
<1>10. Pipe'
    BY <1>9, EmptyPipe, PTL
<1>11. Asks'
    <2>1. \A k : Asked(k) => Named(k)' /\ Final(k)'
        BY <1>2 DEF Asked
    <2> QED
        BY <1>1, <2>1 DEF ControlInv, Asks, Asked
<1>12. AtRest' /\ Coming'
    BY <1>1, <1>5 DEF AtRest, Coming
<1> QED
    BY <1>6, <1>7, <1>10, <1>11, <1>12 DEF ControlInv

\* A task posts its outcome and is gone.
LEMMA PostControl ==
    ASSUME SessionInv, ControlInv, NEW t \in DOMAIN drivers, UNCHANGED sessionVars,
           PostOutcome(t, mode \in Alive)
    PROVE  ControlInv'
<1>1. UNCHANGED <<mode, inFlight, mailbox, asking, incarnation, pendingInput>>
    BY DEF sessionVars, actorVars, clientVars
<1> DEFINE r == [turn |-> t, outcome |-> drivers[t].pc, job |-> drivers[t].job]
<1>2. /\ drivers[t].pc \in Outcomes /\ log' = log /\ UNCHANGED jobVars
      /\ DOMAIN drivers' = DOMAIN drivers \ {t} /\ \A u \in DOMAIN drivers' : drivers'[u] = drivers[u]
    BY DEF PostOutcome
<1>a. mode \in Alive => results' = Append(results, r)
    BY DEF PostOutcome
<1>3. r.turn = t /\ r.outcome = drivers[t].pc /\ r.job = drivers[t].job
    OBVIOUS
<1>4. UNCHANGED <<jobs, submitting, workers, aborted, sends, sinkQ, closed>>
    BY <1>2 DEF jobVars
<1>5. Manager' /\ Channels' /\ AtRest'
    BY <1>1, <1>4 DEF ControlInv, Manager, Channels, AtRest
<1>6. Submitters'
    <2> SUFFICES ASSUME NEW j \in submitting
                 PROVE  \E u \in DOMAIN drivers' : drivers'[u].pc = "Submitting" /\ drivers'[u].job = j
        BY <1>4 DEF Submitters
    <2>1. PICK u \in DOMAIN drivers : drivers[u].pc = "Submitting" /\ drivers[u].job = j
        BY DEF ControlInv, Submitters
    <2>2. u # t
        BY <1>2, <2>1 DEF Outcomes
    <2> QED
        BY <1>2, <2>1, <2>2
<1>7. CASE mode \notin Alive
    BY <1>1, <1>5, <1>6, <1>7, NoActorControl
<1>8. CASE mode \in Alive
    <2>1. inFlight = Active(t) /\ ~is_paused /\ inFlight.kind # "None"
        BY <1>8 DEF ControlInv, Flight, is_paused, Active
    <2>2. mode # "starting" /\ mode \notin Applying /\ mode # "forwarding"
        BY <1>8, <2>1 DEF ControlInv, Flight, Pipe, Waits
    <2>3. DOMAIN drivers' = {} /\ DOMAIN results = {}
        BY <1>2, <1>8, OneHand DEF ControlInv
    <2>4. \A n \in DOMAIN results' : results'[n] = r
        <3>1. results \in Seq(Result) /\ r \in Result
            <4>1. drivers[t] \in Driver /\ t \in Nat /\ results \in Seq(Result)
                BY DEF SessionInv, Held, Shaped, TasksWellFormed, WellFormed
            <4> QED
                BY <1>2, <4>1 DEF Driver, Result
        <3> HIDE DEF r
        <3> QED
            BY <1>a, <1>8, <2>3, <3>1
    <2>5. ~is_paused'
        BY <1>1, <2>1 DEF is_paused
    <2> HIDE DEF r
    <2>6. Flight'
        BY <1>1, <1>3, <2>1, <2>2, <2>3, <2>4, <2>5 DEF Flight
    <2>7. JobsOfTasks'
        <3>1. drivers[t].pc = "Paused" => Tells(drivers[t].job)
            BY <1>8 DEF ControlInv, JobsOfTasks
        <3> QED
            BY <1>1, <1>3, <1>4, <2>3, <2>4, <3>1 DEF JobsOfTasks, Tells, Going
    <2>8. \A j : Named(j) => Named(j)' /\ (Final(j) => Final(j)')
        BY <1>2, <1>4 DEF Named, Final
    <2> QED
        BY <1>1, <1>4, <1>5, <1>6, <1>8, <2>1, <2>2, <2>5, <2>6, <2>7, <2>8, TurnMoves
<1> QED
    BY <1>7, <1>8

\* The tasks that wait for a submit are still there.
LEMMA SubmittersStay ==
    ASSUME Submitters, NEW t \in DOMAIN drivers, Moved(t),
           \A j \in submitting' : \/ j \in submitting /\ (drivers[t].pc # "Submitting" \/ drivers[t].job # j)
                                  \/ drivers'[t].pc = "Submitting" /\ drivers'[t].job = j
    PROVE  Submitters'
<1> SUFFICES ASSUME NEW j \in submitting'
             PROVE  \E u \in DOMAIN drivers' : drivers'[u].pc = "Submitting" /\ drivers'[u].job = j
    BY DEF Submitters
<1>1. CASE drivers'[t].pc = "Submitting" /\ drivers'[t].job = j
    BY <1>1 DEF Moved
<1>2. CASE j \in submitting /\ (drivers[t].pc # "Submitting" \/ drivers[t].job # j)
    <2>1. PICK u \in DOMAIN drivers : drivers[u].pc = "Submitting" /\ drivers[u].job = j
        BY <1>2 DEF Submitters
    <2> QED
        BY <1>2, <2>1 DEF Moved
<1> QED
    BY <1>1, <1>2

\* A task that moves where there is no actor concerns the manager only.
LEMMA TaskMovesAlone ==
    ASSUME ControlInv, UNCHANGED sessionVars, mode \notin Alive, Manager', Submitters', Channels'
    PROVE  ControlInv'
<1>1. UNCHANGED <<mode, mailbox, asking, pendingInput>>
    BY DEF sessionVars, actorVars, clientVars
<1>2. AtRest'
    BY <1>1 DEF ControlInv, AtRest
<1> QED
    BY <1>1, <1>2, NoActorControl

\* The steps that do not call the manager.
LEMMA TaskWithoutCall ==
    ASSUME SessionInv, ControlInv, NEW t \in DOMAIN drivers, UNCHANGED sessionVars,
           Plain(t) \/ Strays(t) \/ Remembers(t) \/ Parks(t)
    PROVE  ControlInv'
<1>1. UNCHANGED jobVars /\ Moved(t) /\ drivers[t].pc # "Submitting"
    BY DEF Plain, Strays, Remembers, Parks, Passes
<1>2. UNCHANGED <<jobs, submitting, workers, aborted, sends, sinkQ, closed>>
    BY <1>1 DEF jobVars
<1>3. UNCHANGED <<mode, incarnation>>
    BY DEF sessionVars, actorVars
<1>4. Manager' /\ Channels'
    BY <1>2, <1>3 DEF ControlInv, Manager, Channels
<1>5. Submitters'
    BY <1>1, <1>2, SubmittersStay DEF ControlInv
<1>6. CASE mode \notin Alive
    BY <1>4, <1>5, <1>6, TaskMovesAlone
<1>7. CASE mode \in Alive
    <2>1. \A j : (Final(j) => Final(j)') /\ (Going(j) => Going(j)') /\ (Tells(j) => Tells(j)')
        BY <1>2, <1>3 DEF Final, Going, Tells
    <2>2. ASSUME NEW j, Named(j), Final(j)
          PROVE  Named(j)'
        <3>1. CASE Plain(t)
            BY <2>2, <3>1 DEF Plain, Named
        <3>2. CASE Strays(t) \/ Parks(t)
            BY <2>2, <3>2 DEF Strays, Parks, Named
        <3>3. CASE Remembers(t)
            <4>1. drivers[t].job \in StrayJobs \/ Going(drivers[t].job)
                BY <1>7, <3>3 DEF Remembers, Passes, ControlInv, JobsOfTasks
            <4>2. j # drivers[t].job
                BY <2>2, <4>1, StrayAssumption DEF Named, Final, Going, Terminal
            <4> QED
                BY <2>2, <3>3, <4>2 DEF Remembers, Named
        <3> QED
            BY <3>1, <3>2, <3>3
    <2>3. /\ drivers'[t].pc \in {"Submitting", "Submitted", "Registering"} =>
                 drivers'[t].job \in StrayJobs \/ Going(drivers'[t].job)
          /\ drivers'[t].pc \in {"Registered", "Paused"} => Tells(drivers'[t].job)
        <3>1. CASE Plain(t)
            BY <3>1 DEF Plain, WithJob
        <3>2. CASE Strays(t)
            BY <3>2 DEF Strays, Passes
        <3>3. CASE Remembers(t)
            BY <1>7, <3>3 DEF Remembers, Passes, ControlInv, JobsOfTasks
        <3>4. CASE Parks(t)
            BY <1>7, <3>4 DEF Parks, Passes, ControlInv, JobsOfTasks
        <3> QED
            BY <3>1, <3>2, <3>3, <3>4
    <2>4. \A j : Named(j) /\ Final(j) => Named(j)' /\ Final(j)'
        BY <2>1, <2>2
    <2>5. ASSUME NEW j, j = drivers'[t].job
          PROVE  /\ drivers'[t].pc \in {"Submitting", "Submitted", "Registering"} => j \in StrayJobs \/ Going(j)'
                 /\ drivers'[t].pc \in {"Registered", "Paused"} => Tells(j)'
        BY <2>1, <2>3, <2>5
    <2> QED
        BY <1>1, <1>2, <1>4, <1>5, <1>7, <2>4, <2>5, TaskMoves
<1> QED
    BY <1>6, <1>7

\* A job is submitted: none that is in the log has its id.
LEMMA SubmitsControl ==
    ASSUME SessionInv, ControlInv, NEW t \in DOMAIN drivers, UNCHANGED sessionVars, Submits(t),
           incarnation \in Sinks
    PROVE  ControlInv'
<1>1. PICK j \in JobIds : LookupCallId(log, j) = None /\ Submit(j) /\ drivers'[t].job = j
    BY DEF Submits
<1>2. /\ Moved(t) /\ drivers[t].pc = "ToolDispatching" /\ drivers'[t].pc = "Submitting" /\ log' = log
      /\ UNCHANGED <<mode, incarnation>>
    BY DEF Submits, Passes, sessionVars, actorVars
<1>3. /\ j \notin DOMAIN jobs /\ DOMAIN jobs' = DOMAIN jobs \cup {j}
      /\ jobs'[j].status = "Running" /\ jobs'[j].sink = NoSink
      /\ \A k \in DOMAIN jobs : jobs'[k] = jobs[k]
    <2> DEFINE no == FALSE
               d == [status |-> "Running", sink |-> NoSink, abort |-> no]
    <2>1. /\ j \notin DOMAIN jobs
          /\ jobs' = [i \in DOMAIN jobs \cup {j} |-> IF i = j THEN d ELSE jobs[i]]
        BY <1>1 DEF Submit
    <2>2. d.status = "Running" /\ d.sink = NoSink
        BY DEF d
    <2> HIDE DEF d
    <2> QED
        BY <2>1, <2>2
<1>4. /\ submitting' = submitting \cup {j} /\ workers' = workers \cup {j}
      /\ UNCHANGED <<aborted, sends, sinkQ, closed>>
    BY <1>1 DEF Submit
<1>5. Manager'
    <2>1. aborted \subseteq DOMAIN jobs
        BY DEF SessionInv, JobTypeOK
    <2> QED
        BY <1>3, <1>4, <2>1 DEF ControlInv, Manager
<1>6. Submitters'
    BY <1>1, <1>2, <1>4, SubmittersStay DEF ControlInv
<1>7. Channels'
    <2>1. NoSink <= incarnation
        BY IncarnationsAssumption
    <2> QED
        BY <1>2, <1>3, <1>4, <2>1 DEF ControlInv, Channels
<1>8. CASE mode \notin Alive
    BY <1>5, <1>6, <1>7, <1>8, TaskMovesAlone
<1>9. CASE mode \in Alive
    <2>1. \A k : Named(k) /\ Final(k) => Named(k)' /\ Final(k)'
        BY <1>1, <1>2, <1>3 DEF Named, Final
    <2>2. Going(j)'
        BY <1>3 DEF Going
    <2> QED
        BY <1>1, <1>2, <1>4, <1>5, <1>6, <1>7, <1>9, <2>1, <2>2, TaskMoves
<1> QED
    BY <1>8, <1>9

\* A submit returns.
LEMMA ReturnsControl ==
    ASSUME SessionInv, ControlInv, NEW t \in DOMAIN drivers, UNCHANGED sessionVars, Returns(t)
    PROVE  ControlInv'
<1> SUFFICES ASSUME NEW j, j = drivers[t].job
             PROVE  ControlInv'
    OBVIOUS
<1>1. /\ Moved(t) /\ drivers[t].pc = "Submitting" /\ drivers'[t].pc = "Submitted" /\ log' = log
      /\ drivers'[t].job = j /\ UNCHANGED <<mode, incarnation>> /\ PatchAbort(j)
    BY DEF Returns, Passes, sessionVars, actorVars
<1>2. /\ DOMAIN jobs' = DOMAIN jobs
      /\ \A k \in DOMAIN jobs : jobs'[k].status = jobs[k].status /\ jobs'[k].sink = jobs[k].sink
    <2> DEFINE yes == TRUE
    <2>1. jobs' = [jobs EXCEPT ![j].abort = yes] /\ jobs \in [DOMAIN jobs -> Lifecycle]
        BY <1>1 DEF PatchAbort, SessionInv, JobTypeOK
    <2> HIDE DEF yes
    <2> QED
        BY <2>1 DEF Lifecycle
<1>3. submitting' = submitting \ {j} /\ UNCHANGED <<workers, aborted, sends, sinkQ, closed>>
    BY <1>1 DEF PatchAbort
<1>4. Manager'
    <2>1. aborted \subseteq DOMAIN jobs
        BY DEF SessionInv, JobTypeOK
    <2> QED
        BY <1>2, <1>3, <2>1 DEF ControlInv, Manager
<1>5. Submitters'
    BY <1>1, <1>3, SubmittersStay DEF ControlInv
<1>6. Channels'
    BY <1>1, <1>2, <1>3 DEF ControlInv, Channels
<1>7. CASE mode \notin Alive
    BY <1>4, <1>5, <1>6, <1>7, TaskMovesAlone
<1>8. CASE mode \in Alive
    <2>1. \A k : Named(k) /\ Final(k) => Named(k)' /\ Final(k)'
        BY <1>1, <1>2 DEF Named, Final
    <2>2. j \in StrayJobs \/ Going(j)'
        BY <1>1, <1>2, <1>8 DEF ControlInv, JobsOfTasks, Going
    <2> QED
        BY <1>1, <1>3, <1>4, <1>5, <1>6, <1>8, <2>1, <2>2, TaskMoves
<1> QED
    BY <1>7, <1>8

\* The sink is registered: with an actor there the job still runs.
LEMMA RegistersControl ==
    ASSUME SessionInv, ControlInv, NEW t \in DOMAIN drivers, UNCHANGED sessionVars, Registers(t),
           incarnation \in Sinks
    PROVE  ControlInv'
<1> SUFFICES ASSUME NEW j, j = drivers[t].job
             PROVE  ControlInv'
    OBVIOUS
<1>1. /\ Moved(t) /\ drivers[t].pc = "Registering" /\ drivers'[t].pc = "Registered" /\ log' = log
      /\ drivers'[t].job = j /\ UNCHANGED <<mode, incarnation>> /\ OnComplete(j, incarnation)
    BY DEF Registers, Passes, sessionVars, actorVars
<1>2. /\ j \in DOMAIN jobs /\ j \in JobIds /\ jobs \in [DOMAIN jobs -> Lifecycle]
      /\ aborted \subseteq DOMAIN jobs
      /\ UNCHANGED <<submitting, workers, aborted, sinkQ, closed>>
    BY <1>1 DEF OnComplete, Known, SessionInv, JobTypeOK
<1>3. Submitters'
    BY <1>1, <1>2, SubmittersStay DEF ControlInv
<1>4. incarnation <= incarnation
    BY SinksAreNumbers
<1>5. CASE jobs[j].status \in Terminal
    <2> DEFINE x == [job |-> j, sink |-> incarnation, outcome |-> jobs[j].status, by |-> "registrant"]
    <2>1. jobs' = jobs /\ sends' = sends \cup {x} /\ x.sink = incarnation
        BY <1>1, <1>5, SinksAssumption DEF OnComplete, Firing
    <2> HIDE DEF x
    <2>2. Manager' /\ Channels'
        BY <1>1, <1>2, <1>4, <2>1 DEF ControlInv, Manager, Channels
    <2>3. mode \notin Alive
        BY <1>1, <1>2, <1>5, StrayAssumption DEF ControlInv, JobsOfTasks, Going, Terminal
    <2> QED
        BY <1>3, <2>2, <2>3, TaskMovesAlone
<1>6. CASE jobs[j].status \notin Terminal
    <2>1. jobs' = [jobs EXCEPT ![j].sink = incarnation] /\ sends' = sends
        BY <1>1, <1>6 DEF OnComplete
    <2>2. /\ DOMAIN jobs' = DOMAIN jobs /\ jobs'[j].sink = incarnation
          /\ \A k \in DOMAIN jobs : jobs'[k].status = jobs[k].status
          /\ \A k \in DOMAIN jobs \ {j} : jobs'[k].sink = jobs[k].sink
        BY <1>2, <2>1 DEF Lifecycle
    <2>3. Manager'
        BY <1>2, <2>2 DEF ControlInv, Manager
    <2>4. Channels'
        BY <1>1, <1>2, <1>4, <2>1, <2>2 DEF ControlInv, Channels
    <2>5. CASE mode \notin Alive
        BY <1>3, <2>3, <2>4, <2>5, TaskMovesAlone
    <2>6. CASE mode \in Alive
        <3>1. \A k : Named(k) /\ Final(k) => Named(k)' /\ Final(k)'
            BY <1>1, <2>2 DEF Named, Final
        <3>2. jobs[j].status = "Running"
            BY <1>2, <1>6 DEF Lifecycle, Statuses
        <3>3. Tells(j)'
            BY <1>1, <1>2, <2>2, <3>2 DEF Tells, Going
        <3> QED
            BY <1>1, <1>2, <1>3, <2>1, <2>3, <2>4, <2>6, <3>1, <3>3, TaskMoves
    <2> QED
        BY <2>5, <2>6
<1> QED
    BY <1>5, <1>6

\* A turn task's step.
LEMMA TurnStepControl == SessionInv /\ ControlInv /\ TurnStep => ControlInv'
<1> SUFFICES ASSUME SessionInv, ControlInv, TurnStep
             PROVE  ControlInv'
    OBVIOUS
<1>1. PICK t \in DOMAIN drivers : DriverStep(t, incarnation, mode \in Alive)
    BY DEF TurnStep
<1>2. UNCHANGED sessionVars /\ incarnation \in Sinks /\ (mode \in Alive) \in BOOLEAN
    BY DEF TurnStep, SessionInv, ActorHolds
<1>3. \/ Plain(t) \/ Submits(t) \/ Strays(t) \/ Returns(t) \/ Remembers(t) \/ Registers(t) \/ Parks(t)
      \/ PostOutcome(t, mode \in Alive)
    BY <1>1, <1>2, TaskCases
<1> QED
    BY <1>2, <1>3, TaskWithoutCall, SubmitsControl, ReturnsControl, RegistersControl, PostControl

-----------------------------------------------------------------------------
(* The invariant.                                                          *)

\* At first there is no actor, no task and no job.
LEMMA ControlInit == Init => ControlInv
<1> SUFFICES ASSUME Init
             PROVE  ControlInv
    OBVIOUS
<1>1. /\ jobs = [j \in {} |-> {}] /\ submitting = {} /\ aborted = {} /\ sends = {} /\ closed = {}
      /\ sinkQ = [s \in Sinks |-> <<>>] /\ mode = "down"
      /\ pendingInput = None /\ mailbox = <<>> /\ asking = Idle
    BY DEF Init, JobInit
<1>2. mode \notin Alive /\ DOMAIN jobs = {}
    BY <1>1 DEF Alive, Handling
<1>3. Manager /\ Submitters /\ Channels /\ AtRest
    BY <1>1, <1>2 DEF Manager, Submitters, Channels, AtRest
<1> QED
    BY <1>2, <1>3 DEF ControlInv, Flight, JobsOfTasks, Pipe, Asks, Coming

\* And nothing happens.
LEMMA StutterControl == SessionInv /\ ControlInv /\ UNCHANGED vars => ControlInv'
<1> SUFFICES ASSUME SessionInv, ControlInv, UNCHANGED vars
             PROVE  ControlInv'
    OBVIOUS
<1>1. /\ UNCHANGED <<jobVars, turnVars, inFlight, incarnation, mode, held, asking, mailbox, pendingInput>>
      /\ UNCHANGED <<jobs, submitting, workers, aborted, sends, sinkQ, closed, drivers>>
    BY DEF vars, jobVars, turnVars, sessionVars, actorVars, clientVars
<1>2. CASE mode \notin Alive
    <2>1. Manager' /\ Submitters' /\ Channels' /\ AtRest'
        BY <1>1 DEF ControlInv, Manager, Submitters, Channels, AtRest
    <2> QED
        BY <1>1, <1>2, <2>1, NoActorControl
<1>3. CASE mode \in Alive
    <2>1. SameMail(0)
        BY <1>1, MailStays DEF SessionInv, AsideOK
    <2>2. /\ asking'.step = "found" => Asked(asking'.job)
          /\ \A n \in DOMAIN mailbox' : mailbox'[n].cmd = "CancelJob" => Asked(mailbox'[n].n)
          /\ mode' = "starting" => inFlight.kind = "None"
        BY <1>1, <1>3 DEF ControlInv, Asks, Flight
    <2> QED
        BY <1>1, <1>3, <2>1, <2>2, QuietControl
<1> QED
    BY <1>2, <1>3

\* Every step preserves the invariant, where a job ends only after its turn is parked.
LEMMA ControlStep == SessionInv /\ ControlInv /\ ~FastJobs /\ [Next]_vars => ControlInv'
<1> SUFFICES ASSUME SessionInv, ControlInv, ~FastJobs, [Next]_vars
             PROVE  ControlInv'
    OBVIOUS
<1>1. CASE Start
    BY <1>1, StartControl, StartPausedControl DEF Start
<1>2. CASE ClientStep
    BY <1>2, ClientControl
<1>3. CASE ActorStep
    BY <1>3, TakeOutcomeControl, HandlerControl, StartHeldInputControl, NoStrayCompletion,
       HandleJobCompletedControl, JobCompletedControl, HandleCancelJobControl, TakeCompletionControl,
       ForwardControl, EndControl DEF ActorStep
<1>4. CASE TurnStep
    BY <1>4, TurnStepControl
<1>5. CASE JobStep
    BY <1>5, WorkerControl, SendControl DEF JobStep
<1>6. CASE Crash
    BY <1>6, EndControl
<1>7. CASE UNCHANGED vars
    BY <1>7, StutterControl
<1> QED
    BY <1>1, <1>2, <1>3, <1>4, <1>5, <1>6, <1>7 DEF Next

LEMMA ControlAlways == ASSUME ~FastJobs PROVE Spec => []ControlInv
<1>1. SessionInv /\ ControlInv /\ [Next]_vars => ControlInv'
    BY ControlStep
<1> QED
    BY <1>1, ControlInit, SessionInvAlways, PTL DEF Spec

\* One turn in flight: where a job ends only after its turn is parked, a task that runs is
\* that of the turn the actor holds as active, its outcome finds it so, and there is one of
\* the two at most.
THEOREM SessionOneTurn == ASSUME ~FastJobs PROVE Spec => []OneTurnInFlight
<1>1. SessionInv /\ ControlInv => OneTurnInFlight
    <2> SUFFICES ASSUME SessionInv, ControlInv, mode \in Alive
                 PROVE  Cardinality(DOMAIN drivers) + Len(results) <= 1
        BY DEF OneTurnInFlight, ControlInv, Flight
    <2>1. /\ \A t, u \in DOMAIN drivers : t = u
          /\ \A n, m \in DOMAIN results : n = m
          /\ DOMAIN drivers # {} => DOMAIN results = {}
        BY OneHand DEF ControlInv
    <2>2. Len(results) \in Nat /\ DOMAIN results = 1..Len(results)
        BY DEF SessionInv, Held, Shaped
    <2>3. CASE DOMAIN drivers = {}
        <3>1. Cardinality(DOMAIN drivers) = 0
            BY <2>3, FS_EmptySet
        <3>2. Len(results) <= 1
            <4>1. ASSUME Len(results) > 1
                  PROVE  FALSE
                <5>1. 1 \in DOMAIN results /\ 2 \in DOMAIN results
                    BY <2>2, <4>1
                <5> QED
                    BY <2>1, <5>1
            <4> QED
                BY <2>2, <4>1
        <3> QED
            BY <2>2, <3>1, <3>2
    <2>4. CASE DOMAIN drivers # {}
        <3>1. PICK t : DOMAIN drivers = {t}
            BY <2>1, <2>4
        <3>2. Cardinality(DOMAIN drivers) = 1
            BY <3>1, FS_Singleton
        <3>3. Len(results) = 0
            <4>1. Len(results) # 0 => 1 \in DOMAIN results
                BY <2>2
            <4> QED
                BY <2>1, <2>4, <4>1
        <3> QED
            BY <3>2, <3>3
    <2> QED
        BY <2>3, <2>4
<1> QED
    BY <1>1, ControlAlways, SessionInvAlways, PTL

\* A paused session is never stranded: the completion it waits for is still to come, on its
\* way to the actor, or being applied, over cancels, shutdowns, crashes and restarts.
THEOREM SessionPauseHasCompletion == ASSUME ~FastJobs PROVE Spec => []PauseHasCompletion
<1>1. SessionInv /\ ControlInv => PauseHasCompletion
    <2> SUFFICES ASSUME SessionInv, ControlInv, mode \in Alive, is_paused, mode \notin Applying,
                        NEW j, j = inFlight.job
                 PROVE  \/ j \in workers /\ jobs[j].status = "Running" /\ jobs[j].sink = incarnation
                        \/ \E x \in sends : x.job = j /\ x.sink = incarnation
                        \/ \E n \in DOMAIN sinkQ[incarnation] : sinkQ[incarnation][n].job = j
                        \/ mode = "forwarding" /\ held = j
                        \/ \E n \in DOMAIN mailbox : mailbox[n] = Cmd("JobCompleted", j)
        BY DEF PauseHasCompletion, Applying
    <2>1. Comes(j)
        BY DEF ControlInv, Coming
    <2>2. Tells(j) => j \in workers /\ jobs[j].status = "Running" /\ jobs[j].sink = incarnation
        BY DEF ControlInv, Manager, Tells, Going
    <2>3. sinkQ[incarnation] # <<>> => 1 \in DOMAIN sinkQ[incarnation]
        <3>1. sinkQ[incarnation] \in Seq(Completion)
            BY DEF SessionInv, ActorHolds, JobTypeOK, Alive, Handling
        <3> QED
            BY <3>1
    <2> QED
        BY <2>1, <2>2, <2>3 DEF Comes
<1> QED
    BY <1>1, ControlAlways, SessionInvAlways, PTL

-----------------------------------------------------------------------------
(* The way of an input: queued, in hand, started.                          *)

Starts(lg) == Positions(lg, {"TurnStarted"})

\* Where input n is: a turn was started with it, the actor has it in hand, it is the p-th
\* command of the mailbox.
Begun(n) == \E i \in Starts(log) : log[i].key = n
InHand(n) == (mode = "starting" /\ held = n) \/ (pendingInput = n /\ n # None)
Queued(p, n) == p \in DOMAIN mailbox /\ mailbox[p].cmd = "Trigger" /\ mailbox[p].n = n

\* Inputs stand in line: what was started came before what is in hand, that before what is
\* queued, and nothing is there that was not submitted.  The slot is used beside a turn only.
InLine ==
    /\ \A n \in Nat : Begun(n) \/ InHand(n) => n <= inputs
    /\ \A p, n \in Nat : Queued(p, n) => n <= inputs
    /\ \A n, m \in Nat : Begun(n) /\ InHand(m) => n < m
    /\ \A n, m, p \in Nat : (Begun(n) \/ InHand(n)) /\ Queued(p, m) => n < m
    /\ \A n, m, p, q \in Nat : Queued(p, n) /\ Queued(q, m) /\ p < q => n < m
    /\ pendingInput # None => inFlight.kind # "None"

InputsInv == InLine /\ InputNotLost

\* Of the turns started, log kg tells what lg tells, or that one more was, with input n.
SameStarts(lg, kg) == Starts(kg) = Starts(lg) /\ \A i \in Starts(lg) : kg[i] = lg[i]
NewStart(lg, kg, n) ==
    \E k \in Nat : /\ Starts(kg) = Starts(lg) \cup {k} /\ kg[k].key = n
                   /\ \A i \in Starts(lg) : i < k /\ kg[i] = lg[i]

\* What writing an event says of that.
LEMMA StartsAppend ==
    ASSUME NEW lg \in Seq(Event), NEW e \in Event
    PROVE  /\ e.type # "TurnStarted" => SameStarts(lg, Append(lg, e))
           /\ e.type = "TurnStarted" => NewStart(lg, Append(lg, e), e.key)
           /\ SameStarts(lg, lg) /\ \A i \in Starts(lg) : i \in Nat /\ lg[i].key \in Nat
<1> DEFINE k == Len(lg)
           kg == Append(lg, e)
<1>1. /\ k \in Nat /\ DOMAIN lg = 1..k
      /\ \A i \in DOMAIN lg : kg[i] = lg[i] /\ lg[i] \in Event
    BY AppendEvents
<1>2. kg[k + 1] = e
    BY <1>1
<1>3. /\ Starts(lg) \subseteq DOMAIN lg
      /\ Starts(kg) = IF e.type = "TurnStarted" THEN Starts(lg) \cup {k + 1} ELSE Starts(lg)
    BY AppendPositions DEF Starts, Positions
<1> HIDE DEF k, kg
<1>4. \A i \in Starts(lg) : i \in Nat /\ i < k + 1 /\ kg[i] = lg[i] /\ lg[i] \in Event
    BY <1>1, <1>3
<1>5. e.type # "TurnStarted" => SameStarts(lg, kg)
    BY <1>3, <1>4 DEF SameStarts
<1>6. e.type = "TurnStarted" => NewStart(lg, kg, e.key)
    BY <1>1, <1>2, <1>3, <1>4 DEF NewStart
<1>7. SameStarts(lg, lg) /\ \A i \in Starts(lg) : i \in Nat /\ lg[i].key \in Nat
    BY <1>4 DEF SameStarts, Event
<1> QED
    BY <1>5, <1>6, <1>7 DEF kg

\* The triggers in the mailbox stay, d places further.
SameTriggers(d) ==
    /\ \A p \in DOMAIN mailbox' : mailbox'[p].cmd = "Trigger" =>
           p \in Nat /\ p + d \in DOMAIN mailbox /\ mailbox'[p] = mailbox[p + d]
    /\ \A p \in DOMAIN mailbox : mailbox[p].cmd = "Trigger" =>
           p - d \in DOMAIN mailbox' /\ mailbox'[p - d] = mailbox[p]

\* Posting and taking another command leaves them.
LEMMA TriggersStay ==
    ASSUME mailbox \in Seq(Command)
    PROVE  /\ \A c \in Command : mailbox' = Append(mailbox, c) /\ c.cmd # "Trigger" => SameTriggers(0)
           /\ mailbox # <<>> /\ mailbox' = Tail(mailbox) /\ Head(mailbox).cmd # "Trigger" => SameTriggers(1)
           /\ mailbox' = mailbox => SameTriggers(0)
<1>1. ASSUME NEW c \in Command, mailbox' = Append(mailbox, c), c.cmd # "Trigger"
      PROVE  SameTriggers(0)
    BY <1>1, Posted DEF SameTriggers
<1>2. ASSUME mailbox # <<>>, mailbox' = Tail(mailbox), Head(mailbox).cmd # "Trigger"
      PROVE  SameTriggers(1)
    <2>1. /\ 1 \in DOMAIN mailbox /\ Head(mailbox) = mailbox[1]
          /\ \A n \in DOMAIN mailbox' : n \in Nat /\ n + 1 \in DOMAIN mailbox /\ mailbox'[n] = mailbox[n + 1]
          /\ \A n \in DOMAIN mailbox : n \in Nat /\ (n = 1 \/ (n - 1 \in DOMAIN mailbox' /\ mailbox'[n - 1] = mailbox[n]))
        BY <1>2, Taking
    <2> QED
        BY <1>2, <2>1 DEF SameTriggers
<1>3. ASSUME mailbox' = mailbox
      PROVE  SameTriggers(0)
    <2>1. \A n \in DOMAIN mailbox : n \in Nat
        OBVIOUS
    <2> QED
        BY <1>3, <2>1 DEF SameTriggers
<1> QED
    BY <1>1, <1>2, <1>3

\* A step that neither submits nor takes nor starts an input.
Passive ==
    /\ SameStarts(log, log') /\ UNCHANGED <<pendingInput, inputs, forgotten>>
    /\ mode = "starting" \/ mode' = "starting" => mode' = mode /\ held' = held
    /\ pendingInput # None => inFlight'.kind # "None"
    /\ SameTriggers(0) \/ SameTriggers(1)

\* InputNotLost, in these words.
Covered ==
    \A n \in Nat : forgotten < n /\ n <= inputs =>
        \/ \E p \in Nat : Queued(p, n)
        \/ mode = "starting" /\ held = n
        \/ pendingInput >= n
        \/ \E m \in Nat : m >= n /\ Begun(m)
StartsAscend == \A i, k \in Starts(log) : i < k => log[i].key < log[k].key

LEMMA InputsCovered == SessionInv => (InputNotLost <=> Covered /\ StartsAscend)
<1> SUFFICES ASSUME SessionInv
             PROVE  InputNotLost <=> Covered /\ StartsAscend
    OBVIOUS
<1>1. /\ mailbox \in Seq(Command) /\ forgotten \in Nat /\ inputs \in Nat /\ log \in Seq(Event)
      /\ TurnFailed(0) \in Event
    BY EventTypesOK DEF SessionInv, AsideOK, Held, Shaped
<1>2. \A i \in Starts(log) : log[i].key \in Nat
    BY <1>1, StartsAppend
<1>3. \A n : n \in (forgotten + 1)..inputs <=> n \in Nat /\ forgotten < n /\ n <= inputs
    BY <1>1
<1>4. \A n : (\E i \in DOMAIN mailbox : mailbox[i] = Cmd("Trigger", n)) <=> \E p \in Nat : Queued(p, n)
    <2>1. \A i \in DOMAIN mailbox : i \in Nat /\ mailbox[i] \in Command
        BY <1>1
    <2>2. \A n : \A i \in DOMAIN mailbox : mailbox[i] = Cmd("Trigger", n) <=> mailbox[i].cmd = "Trigger" /\ mailbox[i].n = n
        BY <2>1 DEF Cmd, Command
    <2> QED
        BY <2>1, <2>2 DEF Queued
<1>5. \A n : (\E i \in Positions(log, {"TurnStarted"}) : log[i].key >= n) <=> \E m \in Nat : m >= n /\ Begun(m)
    BY <1>2 DEF Begun, Starts
<1> QED
    BY <1>3, <1>4, <1>5 DEF InputNotLost, Covered, StartsAscend, Starts

LEMMA InputsKept == SessionInv' /\ InLine' /\ Covered' /\ StartsAscend' => InputsInv'
<1>1. SessionInv' => (InputNotLost' <=> Covered' /\ StartsAscend')
    BY InputsCovered, PTL
<1> QED
    BY <1>1 DEF InputsInv

\* Such a step leaves every input where it is.
LEMMA PassiveKeeps == SessionInv /\ SessionInv' /\ InputsInv /\ Passive => InputsInv'
<1> SUFFICES ASSUME SessionInv, SessionInv', InputsInv, Passive, NEW d \in {0, 1}, SameTriggers(d)
             PROVE  InputsInv'
    BY DEF Passive
<1>1. mailbox \in Seq(Command) /\ mailbox' \in Seq(Command)
    BY DEF SessionInv, AsideOK
<1>2. \A n : (Begun(n)' <=> Begun(n)) /\ (InHand(n)' <=> InHand(n))
    <2>1. \A n : Begun(n)' <=> Begun(n)
        BY DEF Passive, SameStarts, Begun
    <2>2. \A n : InHand(n)' <=> InHand(n)
        BY DEF Passive, InHand
    <2> QED
        BY <2>1, <2>2
<1>3. /\ \A p, n \in Nat : Queued(p, n)' => p + d \in Nat /\ Queued(p + d, n)
      /\ \A p, n \in Nat : Queued(p, n) => p - d \in Nat /\ Queued(p - d, n)'
    BY <1>1 DEF SameTriggers, Queued
<1>4. InLine'
    <2>1. \A n \in Nat : Begun(n)' \/ InHand(n)' => n <= inputs'
        BY <1>2 DEF Passive, InputsInv, InLine
    <2>2. \A p, n \in Nat : Queued(p, n)' => n <= inputs'
        BY <1>3 DEF Passive, InputsInv, InLine
    <2>3. \A n, m \in Nat : Begun(n)' /\ InHand(m)' => n < m
        BY <1>2 DEF InputsInv, InLine
    <2>4. \A n, m, p \in Nat : (Begun(n)' \/ InHand(n)') /\ Queued(p, m)' => n < m
        BY <1>2, <1>3 DEF InputsInv, InLine
    <2>5. \A n, m, p, q \in Nat : Queued(p, n)' /\ Queued(q, m)' /\ p < q => n < m
        <3>1. \A p, q \in Nat : p < q => p + d < q + d
            OBVIOUS
        <3> QED
            BY <1>3, <3>1 DEF InputsInv, InLine
    <2>6. pendingInput' # None => inFlight'.kind # "None"
        BY DEF Passive
    <2> QED
        BY <2>1, <2>2, <2>3, <2>4, <2>5, <2>6 DEF InLine
<1>5. Covered /\ StartsAscend
    BY InputsCovered DEF InputsInv
<1>6. Covered'
    BY <1>2, <1>3, <1>5 DEF Covered, Passive
<1>7. StartsAscend'
    BY <1>5 DEF StartsAscend, Passive, SameStarts
<1> QED
    BY <1>4, <1>6, <1>7, InputsKept

\* A client submits an input.
LEMMA SubmitInputs == SessionInv /\ SessionInv' /\ InputsInv /\ ClientSubmit => InputsInv'
<1> SUFFICES ASSUME SessionInv, SessionInv', InputsInv, ClientSubmit
             PROVE  InputsInv'
    OBVIOUS
<1>1. /\ mailbox' = Append(mailbox, Cmd("Trigger", inputs + 1)) /\ inputs' = inputs + 1
      /\ UNCHANGED <<log, mode, inFlight, pendingInput, held, forgotten>>
    BY DEF ClientSubmit, Post, turnVars, historyVars
<1>2. mailbox \in Seq(Command) /\ inputs \in Nat /\ Cmd("Trigger", inputs + 1) \in Command
    BY DEF SessionInv, AsideOK, Cmd, Command
<1> DEFINE k == Len(mailbox) + 1
<1>3. /\ k \in Nat /\ \A p \in DOMAIN mailbox : p \in Nat /\ p < k
      /\ DOMAIN mailbox' = DOMAIN mailbox \cup {k} /\ mailbox'[k] = Cmd("Trigger", inputs + 1)
      /\ \A p \in DOMAIN mailbox : mailbox'[p] = mailbox[p]
    BY <1>1, <1>2
<1> HIDE DEF k
<1>4. \A n : (Begun(n)' <=> Begun(n)) /\ (InHand(n)' <=> InHand(n))
    BY <1>1 DEF Begun, InHand, Starts, Positions
<1>5. \A p, n : Queued(p, n)' <=> Queued(p, n) \/ (p = k /\ n = inputs + 1)
    <2>1. Cmd("Trigger", inputs + 1).cmd = "Trigger" /\ Cmd("Trigger", inputs + 1).n = inputs + 1
        BY DEF Cmd
    <2>2. k \notin DOMAIN mailbox
        BY <1>3
    <2> QED
        BY <1>3, <2>1, <2>2 DEF Queued
<1>6. \A p, n : Queued(p, n) => p \in Nat /\ p < k
    BY <1>3 DEF Queued
<1>7. InLine'
    <2>1. \A n \in Nat : Begun(n)' \/ InHand(n)' => n <= inputs'
        BY <1>1, <1>2, <1>4 DEF InputsInv, InLine
    <2>2. \A p, n \in Nat : Queued(p, n)' => n <= inputs'
        BY <1>1, <1>2, <1>5 DEF InputsInv, InLine
    <2>3. \A n, m \in Nat : Begun(n)' /\ InHand(m)' => n < m
        BY <1>4 DEF InputsInv, InLine
    <2>4. \A n, m, p \in Nat : (Begun(n)' \/ InHand(n)') /\ Queued(p, m)' => n < m
        BY <1>2, <1>4, <1>5 DEF InputsInv, InLine
    <2>5. \A n, m, p, q \in Nat : Queued(p, n)' /\ Queued(q, m)' /\ p < q => n < m
        <3>1. ASSUME NEW n \in Nat, NEW m \in Nat, NEW p \in Nat, NEW q \in Nat,
                     Queued(p, n)', Queued(q, m)', p < q
              PROVE  n < m
            <4>1. Queued(p, n)
                <5>1. p = k => ~Queued(q, m) /\ q # k
                    BY <1>3, <1>6, <3>1
                <5> QED
                    BY <1>5, <3>1, <5>1
            <4>2. n <= inputs
                BY <4>1, <3>1 DEF InputsInv, InLine
            <4> QED
                BY <1>2, <1>5, <3>1, <4>1, <4>2 DEF InputsInv, InLine
        <3> QED
            BY <3>1
    <2>6. pendingInput' # None => inFlight'.kind # "None"
        BY <1>1 DEF InputsInv, InLine
    <2> QED
        BY <2>1, <2>2, <2>3, <2>4, <2>5, <2>6 DEF InLine
<1>8. Covered /\ StartsAscend
    BY InputsCovered DEF InputsInv
<1>9. Covered'
    <2>1. \A n \in Nat : n <= inputs' => n <= inputs \/ n = inputs + 1
        BY <1>1, <1>2
    <2> QED
        BY <1>1, <1>3, <1>4, <1>5, <1>8, <2>1 DEF Covered
<1>10. StartsAscend'
    BY <1>1, <1>8 DEF StartsAscend
<1> QED
    BY <1>7, <1>9, <1>10, InputsKept

\* The first input in line is taken in hand, in place of the one in the slot.
LEMMA TriggerInputs == SessionInv /\ SessionInv' /\ InputsInv /\ HandleTrigger => InputsInv'
<1> SUFFICES ASSUME SessionInv, SessionInv', InputsInv, HandleTrigger, NEW h, h = Head(mailbox).n
             PROVE  InputsInv'
    OBVIOUS
<1>1. /\ mode = "running" /\ mailbox # <<>> /\ mailbox' = Tail(mailbox) /\ Head(mailbox).cmd = "Trigger"
      /\ UNCHANGED <<log, inFlight, inputs, forgotten>>
      /\ \/ /\ has_active_turn \/ is_paused
            /\ pendingInput' = h /\ mode' = mode
         \/ /\ ~has_active_turn /\ ~is_paused
            /\ pendingInput' = pendingInput /\ mode' = "starting" /\ held' = h
    BY DEF HandleTrigger, Take, Arm2, turnVars, clientVars, historyVars
<1>2. /\ mailbox \in Seq(Command) /\ inFlight \in InFlight
      /\ pendingInput \in Nat /\ inputs \in Nat /\ forgotten \in Nat
    BY DEF SessionInv, AsideOK, Held, Shaped
<1>3. /\ Queued(1, h) /\ h \in Nat
      /\ \A p, n \in Nat : Queued(p, n)' => p + 1 \in Nat /\ p + 1 > 1 /\ Queued(p + 1, n)
      /\ \A p, n \in Nat : Queued(p, n) => (p = 1 /\ n = h) \/ (p - 1 \in Nat /\ Queued(p - 1, n)')
    <2>1. /\ 1 \in DOMAIN mailbox /\ Head(mailbox) = mailbox[1] /\ mailbox[1] \in Command
          /\ \A n \in DOMAIN mailbox' : n \in Nat /\ n + 1 \in DOMAIN mailbox /\ mailbox'[n] = mailbox[n + 1]
          /\ \A n \in DOMAIN mailbox : n \in Nat /\ (n = 1 \/ (n - 1 \in DOMAIN mailbox' /\ mailbox'[n - 1] = mailbox[n]))
        BY <1>1, <1>2, Taking
    <2>2. mailbox' \in Seq(Command)
        BY DEF SessionInv, AsideOK
    <2>3. \A p \in DOMAIN mailbox' : p >= 1
        BY <2>2
    <2>4. Queued(1, h) /\ h \in Nat
        BY <1>1, <2>1 DEF Queued, Command
    <2>5. \A p, n \in Nat : Queued(p, n)' => p + 1 \in Nat /\ p + 1 > 1 /\ Queued(p + 1, n)
        BY <2>1, <2>3 DEF Queued
    <2>6. \A p, n \in Nat : Queued(p, n) => (p = 1 /\ n = h) \/ (p - 1 \in Nat /\ Queued(p - 1, n)')
        BY <1>1, <2>1 DEF Queued
    <2> QED
        BY <2>4, <2>5, <2>6
<1>4. \A n : Begun(n)' <=> Begun(n)
    BY <1>1 DEF Begun, Starts, Positions
<1>5. has_active_turn \/ is_paused \/ pendingInput = None
    BY <1>2 DEF InputsInv, InLine, has_active_turn, is_paused, InFlight
<1>6. /\ \A n : InHand(n)' => n = h
      /\ pendingInput' # None => inFlight'.kind # "None"
    BY <1>1, <1>5 DEF InHand, InputsInv, InLine, has_active_turn, is_paused
<1>7. InLine'
    <2>1. \A n \in Nat : Begun(n)' \/ InHand(n)' => n <= inputs'
        BY <1>1, <1>3, <1>4, <1>6 DEF InputsInv, InLine
    <2>2. \A p, n \in Nat : Queued(p, n)' => n <= inputs'
        BY <1>1, <1>3 DEF InputsInv, InLine
    <2>3. \A n, m \in Nat : Begun(n)' /\ InHand(m)' => n < m
        BY <1>3, <1>4, <1>6 DEF InputsInv, InLine
    <2>4. \A n, m, p \in Nat : (Begun(n)' \/ InHand(n)') /\ Queued(p, m)' => n < m
        BY <1>3, <1>4, <1>6 DEF InputsInv, InLine
    <2>5. \A n, m, p, q \in Nat : Queued(p, n)' /\ Queued(q, m)' /\ p < q => n < m
        <3>1. \A p, q \in Nat : p < q => p + 1 < q + 1
            OBVIOUS
        <3> QED
            BY <1>3, <3>1 DEF InputsInv, InLine
    <2> QED
        BY <1>6, <2>1, <2>2, <2>3, <2>4, <2>5 DEF InLine
<1>8. Covered /\ StartsAscend
    BY InputsCovered DEF InputsInv
<1>9. Covered'
    <2> SUFFICES ASSUME NEW n \in Nat, forgotten < n, n <= inputs
                 PROVE  \/ \E p \in Nat : Queued(p, n)'
                        \/ mode' = "starting" /\ held' = n
                        \/ pendingInput' >= n
                        \/ \E m \in Nat : m >= n /\ Begun(m)'
        BY <1>1 DEF Covered
    <2>1. CASE \E p \in Nat : Queued(p, n)
        <3>1. n = h \/ \E p \in Nat : Queued(p, n)'
            BY <1>3, <2>1
        <3> QED
            BY <1>1, <1>3, <3>1
    <2>2. CASE pendingInput >= n
        <3>1. pendingInput # None
            BY <1>2, <2>2 DEF None
        <3>2. pendingInput < h
            BY <1>2, <1>3, <3>1 DEF InputsInv, InLine, InHand
        <3>3. pendingInput' = h
            BY <1>1, <1>5, <3>1
        <3> QED
            BY <1>2, <1>3, <2>2, <3>2, <3>3
    <2>3. CASE \E m \in Nat : m >= n /\ Begun(m)
        BY <1>4, <2>3
    <2> QED
        BY <1>1, <1>8, <2>1, <2>2, <2>3 DEF Covered
<1>10. StartsAscend'
    BY <1>1, <1>8 DEF StartsAscend
<1> QED
    BY <1>7, <1>9, <1>10, InputsKept

\* A turn is started with the input m in hand.
LEMMA StartedInputs ==
    ASSUME SessionInv, SessionInv', InputsInv, NEW m \in Nat, InHand(m), NewStart(log, log', m),
           UNCHANGED <<mailbox, inputs, forgotten>>, mode' # "starting", pendingInput' = None,
           mode = "starting" => pendingInput = None
    PROVE  InputsInv'
<1>1. /\ log \in Seq(Event) /\ TurnFailed(0) \in Event
      /\ pendingInput \in Nat /\ inputs \in Nat /\ forgotten \in Nat /\ held \in Nat
    BY EventTypesOK DEF SessionInv, AsideOK, Held, Shaped
<1>2. \A i \in Starts(log) : i \in Nat /\ log[i].key \in Nat
    BY <1>1, StartsAppend
<1>3. PICK k \in Nat : /\ Starts(log') = Starts(log) \cup {k} /\ log'[k].key = m
                       /\ \A i \in Starts(log) : i < k /\ log'[i] = log[i]
    BY DEF NewStart
<1>4. \A n : Begun(n)' <=> Begun(n) \/ n = m
    BY <1>2, <1>3 DEF Begun
<1>5. \A n : ~InHand(n)'
    BY DEF InHand
<1>6. \A p, n : Queued(p, n)' <=> Queued(p, n)
    BY DEF Queued
<1>7. InLine'
    BY <1>4, <1>5, <1>6 DEF InputsInv, InLine
<1>8. Covered /\ StartsAscend
    BY InputsCovered DEF InputsInv
<1>9. Covered'
    <2> SUFFICES ASSUME NEW n \in Nat, forgotten < n, n <= inputs
                 PROVE  (\E p \in Nat : Queued(p, n)') \/ \E l \in Nat : l >= n /\ Begun(l)'
        BY DEF Covered
    <2>1. CASE \E l \in Nat : l >= n /\ Begun(l)
        BY <1>4, <2>1
    <2>2. CASE \E p \in Nat : Queued(p, n)
        BY <1>6, <2>2
    <2>3. CASE (mode = "starting" /\ held = n) \/ pendingInput >= n
        <3>1. m >= n
            BY <1>1, <2>3 DEF InHand, None
        <3> QED
            BY <1>4, <3>1
    <2> QED
        BY <1>8, <2>1, <2>2, <2>3 DEF Covered
<1>10. StartsAscend'
    <2>1. \A i \in Starts(log) : log[i].key < m
        BY <1>2 DEF InputsInv, InLine, Begun
    <2>2. \A i, l \in Starts(log') : i < l => log'[i].key < log'[l].key
        <3>1. ASSUME NEW i \in Starts(log'), NEW l \in Starts(log'), i < l
              PROVE  log'[i].key < log'[l].key
            <4>1. i \in Starts(log)
                BY <1>2, <1>3, <3>1
            <4>2. CASE l \in Starts(log)
                BY <1>3, <1>8, <3>1, <4>1, <4>2 DEF StartsAscend
            <4>3. CASE l = k
                BY <1>3, <2>1, <4>1, <4>3
            <4> QED
                BY <1>3, <4>2, <4>3
        <3> QED
            BY <3>1
    <2> QED
        BY <2>2 DEF StartsAscend
<1> QED
    BY <1>7, <1>9, <1>10, InputsKept

\* The turn of the input in hand is started; an outcome is taken, and the input in the slot
\* started if no turn is left.
LEMMA StartInputs ==
    SessionInv /\ SessionInv' /\ ControlInv /\ InputsInv /\ (StartHeldInput \/ TakeOutcome)
    => InputsInv' \/ Passive
<1> SUFFICES ASSUME SessionInv, SessionInv', ControlInv, InputsInv, StartHeldInput \/ TakeOutcome,
                    NEW t, t = FreshTurn(log)
             PROVE  InputsInv' \/ Passive
    OBVIOUS
<1>1. /\ log \in Seq(Event) /\ held \in Nat /\ pendingInput \in Nat /\ mailbox \in Seq(Command)
      /\ results \in Seq(Result)
    BY DEF SessionInv, Held, Shaped, AsideOK
<1>2. t \in Nat
    <2>1. TurnFailed(0) \in Event
        BY EventTypesOK
    <2> QED
        BY <1>1, <2>1, AppendStarted
<1>3. \A n \in Nat : /\ TurnStarted(t, n) \in Event /\ TurnStarted(t, n).key = n
                     /\ TurnStarted(t, n).type = "TurnStarted"
    BY <1>2, EventTypesOK DEF TurnStarted, Ev
<1>4. CASE StartHeldInput
    <2>1. /\ mode = "starting" /\ mode' = "running" /\ log' = Append(log, TurnStarted(t, held))
          /\ UNCHANGED <<pendingInput, mailbox, inputs, forgotten>>
        BY <1>4 DEF StartHeldInput, TryStartTurn, clientVars, historyVars
    <2>2. pendingInput = None
        BY <2>1 DEF ControlInv, Flight, Alive, Handling, InputsInv, InLine
    <2>3. NewStart(log, log', held)
        BY <1>1, <1>3, <2>1, StartsAppend
    <2>4. InHand(held)
        BY <2>1 DEF InHand
    <2> QED
        BY <1>1, <2>1, <2>2, <2>3, <2>4, StartedInputs
<1>5. CASE TakeOutcome
    <2> SUFFICES ASSUME NEW r, r = Head(results), NEW call, call = LookupCallId(log, r.job)
                 PROVE  InputsInv' \/ Passive
        OBVIOUS
    <2> DEFINE base == IF r.outcome = "Paused" THEN Append(log, TurnFailed(r.turn)) ELSE log
    <2>1. /\ mode \in {"running", "draining"} /\ mode' = mode /\ results # <<>>
          /\ UNCHANGED <<mailbox, held, inputs, forgotten>>
        BY <1>5 DEF TakeOutcome, clientVars, historyVars
    <2>2. \/ /\ log' = Append(log, TurnPaused(r.turn, r.job)) /\ inFlight' = PausedOnJob(r.turn, r.job, call)
             /\ pendingInput' = pendingInput
          \/ log' = base /\ pendingInput = None /\ pendingInput' = None
          \/ /\ log' = Append(base, TurnStarted(FreshTurn(log), pendingInput))
             /\ pendingInput # None /\ pendingInput' = None
        <3>1. CASE r.outcome = "Paused" /\ call # None
            BY <1>5, <3>1 DEF TakeOutcome, OnTurnComplete
        <3>2. CASE ~(r.outcome = "Paused" /\ call # None)
            BY <1>5, <3>2 DEF TakeOutcome, OnTurnComplete, TryStartTurn
        <3> QED
            BY <3>1, <3>2
    <2>3. r \in Result
        BY <1>1, <2>1, TailOfResults
    <2>4. /\ TurnPaused(r.turn, r.job) \in Event /\ TurnFailed(r.turn) \in Event
          /\ TurnPaused(r.turn, r.job).type # "TurnStarted" /\ TurnFailed(r.turn).type # "TurnStarted"
        BY <2>3, EventTypesOK DEF Result, TurnPaused, TurnFailed, Ev
    <2>5. base \in Seq(Event) /\ SameStarts(log, base)
        BY <1>1, <2>4, StartsAppend
    <2> HIDE DEF base
    <2>6. SameTriggers(0)
        BY <1>1, <2>1, TriggersStay
    <2>7. CASE /\ log' = Append(log, TurnPaused(r.turn, r.job)) /\ inFlight' = PausedOnJob(r.turn, r.job, call)
               /\ pendingInput' = pendingInput
        <3>1. inFlight'.kind = "Paused" /\ SameStarts(log, log')
            BY <1>1, <2>4, <2>7, StartsAppend DEF PausedOnJob
        <3> QED
            BY <2>1, <2>6, <2>7, <3>1 DEF Passive
    <2>8. CASE log' = base /\ pendingInput = None /\ pendingInput' = None
        BY <2>1, <2>5, <2>6, <2>8 DEF Passive
    <2>9. CASE /\ log' = Append(base, TurnStarted(FreshTurn(log), pendingInput))
               /\ pendingInput # None /\ pendingInput' = None
        <3>1. NewStart(base, log', pendingInput)
            BY <1>1, <1>3, <2>5, <2>9, StartsAppend
        <3>2. NewStart(log, log', pendingInput)
            BY <2>5, <3>1 DEF NewStart, SameStarts
        <3>3. InHand(pendingInput) /\ mode # "starting" /\ mode' # "starting"
            BY <2>1, <2>9 DEF InHand
        <3> QED
            BY <1>1, <2>1, <2>9, <3>2, <3>3, StartedInputs
    <2> QED
        BY <2>2, <2>7, <2>8, <2>9
<1> QED
    BY <1>4, <1>5

\* The inputs in line die with the actor or the process.
LEMMA EndInputs == SessionInv /\ SessionInv' /\ InputsInv /\ (Exit \/ Crash) => InputsInv'
<1> SUFFICES ASSUME SessionInv, SessionInv', InputsInv, Exit \/ Crash
             PROVE  InputsInv'
    OBVIOUS
<1>1. /\ mode' # "starting" /\ pendingInput' = None /\ mailbox' = <<>> /\ forgotten' = inputs
      /\ UNCHANGED <<log, inputs>>
    BY DEF Exit, Crash
<1>2. inputs \in Nat
    BY DEF SessionInv, AsideOK
<1>3. (\A n : Begun(n)' <=> Begun(n)) /\ (\A n : ~InHand(n)') /\ \A p, n : ~Queued(p, n)'
    BY <1>1 DEF Begun, Starts, Positions, InHand, Queued
<1>4. InLine'
    BY <1>1, <1>3 DEF InputsInv, InLine
<1>5. Covered'
    BY <1>1, <1>2 DEF Covered
<1>6. StartsAscend'
    BY <1>1, InputsCovered DEF InputsInv, StartsAscend
<1> QED
    BY <1>4, <1>5, <1>6, InputsKept

\* The actor and its clients are busy with something else.
OtherHandlers ==
    \/ ClientCancel \/ ClientShutdown
    \/ HandleProbe \/ HandleCancelJob \/ CancelReturns \/ HandleShutdown
    \/ HandleJobCompleted \/ RecordJobCompleted \/ FinishJobCompleted \/ TakeCompletion \/ ForwardCompletion

LEMMA OtherInputs == SessionInv /\ InputsInv /\ OtherHandlers => Passive
<1> SUFFICES ASSUME SessionInv, InputsInv, OtherHandlers
             PROVE  Passive
    OBVIOUS
<1>1. /\ log \in Seq(Event) /\ mailbox \in Seq(Command) /\ held \in Nat /\ asking \in Asking
      /\ inFlight \in InFlight /\ TurnFailed(0) \in Event
    BY EventTypesOK DEF SessionInv, Held, Shaped, AsideOK
<1>2. SameStarts(log, log) /\ (pendingInput # None => inFlight.kind # "None")
    BY <1>1, StartsAppend DEF InputsInv, InLine
<1>3. CASE HandleProbe \/ HandleCancelJob \/ HandleShutdown \/ HandleJobCompleted
    <2>1. /\ Arm2 /\ mailbox' = Tail(mailbox) /\ Head(mailbox).cmd # "Trigger" /\ mode' # "starting"
          /\ UNCHANGED <<log, inFlight, pendingInput, inputs, forgotten>>
        <3>1. CASE HandleProbe
            BY <3>1 DEF HandleProbe, Take, Arm2, turnVars, historyVars
        <3>2. CASE HandleCancelJob
            BY <3>2 DEF HandleCancelJob, Take, turnVars, clientVars, historyVars
        <3>3. CASE HandleShutdown
            BY <3>3 DEF HandleShutdown, Take, turnVars, clientVars, historyVars
        <3>4. CASE HandleJobCompleted
            BY <3>4 DEF HandleJobCompleted, Take, turnVars, clientVars, historyVars
        <3> QED
            BY <1>3, <3>1, <3>2, <3>3, <3>4
    <2>2. SameTriggers(1) /\ mode # "starting"
        BY <1>1, <2>1, TriggersStay DEF Arm2
    <2> QED
        BY <1>2, <2>1, <2>2 DEF Passive
<1>4. CASE CancelReturns \/ TakeCompletion
    <2>1. /\ UNCHANGED <<log, inFlight, pendingInput, inputs, forgotten, mailbox>>
          /\ mode # "starting" /\ mode' # "starting"
        BY <1>4 DEF CancelReturns, TakeCompletion, Arm3, turnVars, clientVars, historyVars
    <2>2. SameTriggers(0)
        BY <1>1, <2>1, TriggersStay
    <2> QED
        BY <1>2, <2>1, <2>2 DEF Passive
<1>5. CASE RecordJobCompleted \/ FinishJobCompleted
    <2> DEFINE e == JobCompletedRecorded(inFlight.turn, inFlight.job)
               f == ToolResult(inFlight.turn, inFlight.call)
    <2>1. /\ UNCHANGED <<pendingInput, inputs, forgotten, mailbox>>
          /\ mode # "starting" /\ mode' # "starting"
          /\ log' = Append(log, e) \/ log' = Append(log, f)
          /\ inFlight' = inFlight \/ inFlight'.kind = "Active"
        <3>1. CASE RecordJobCompleted
            BY <3>1 DEF RecordJobCompleted, Record, clientVars, historyVars
        <3>2. CASE FinishJobCompleted
            <4>1. inFlight' = Active(inFlight.turn) /\ Active(inFlight.turn).kind = "Active"
                BY <3>2 DEF FinishJobCompleted, Active
            <4> QED
                BY <3>2, <4>1 DEF FinishJobCompleted, clientVars, historyVars
        <3> QED
            BY <1>5, <3>1, <3>2
    <2>2. e \in Event /\ f \in Event /\ e.type # "TurnStarted" /\ f.type # "TurnStarted"
        BY <1>1, EventTypesOK DEF InFlight, JobCompletedRecorded, ToolResult, Ev
    <2> HIDE DEF e, f
    <2>3. SameStarts(log, log') /\ SameTriggers(0)
        BY <1>1, <2>1, <2>2, StartsAppend, TriggersStay
    <2> QED
        BY <1>2, <2>1, <2>3 DEF Passive
<1>6. CASE ForwardCompletion \/ ClientCancel \/ ClientShutdown
    <2>1. /\ UNCHANGED <<log, inFlight, pendingInput, inputs, forgotten>>
          /\ mode = "starting" \/ mode' = "starting" => mode' = mode /\ held' = held
          /\ \E c \in Command : mailbox' = Append(mailbox, c) /\ c.cmd # "Trigger"
        <3>1. CASE ForwardCompletion
            <4>1. Cmd("JobCompleted", held) \in Command /\ Cmd("JobCompleted", held).cmd # "Trigger"
                BY <1>1 DEF Cmd, Command
            <4> QED
                BY <3>1, <4>1 DEF ForwardCompletion, turnVars, clientVars, historyVars
        <3>2. CASE ClientCancel
            <4>1. \A c \in {Cmd("InternalCancel", 0), Cmd("Snapshot", 0), Cmd("CancelJob", asking.job)} :
                      c \in Command /\ c.cmd # "Trigger"
                BY <1>1 DEF Cmd, Command, Asking
            <4> QED
                BY <3>2, <4>1 DEF ClientCancel, Post, turnVars, historyVars
        <3>3. CASE ClientShutdown
            <4>1. Cmd("Shutdown", 0) \in Command /\ Cmd("Shutdown", 0).cmd # "Trigger"
                BY DEF Cmd, Command
            <4> QED
                BY <3>3, <4>1 DEF ClientShutdown, Post, turnVars, historyVars
        <3> QED
            BY <1>6, <3>1, <3>2, <3>3
    <2>2. SameTriggers(0)
        BY <1>1, <2>1, TriggersStay
    <2> QED
        BY <1>2, <2>1, <2>2 DEF Passive
<1> QED
    BY <1>3, <1>4, <1>5, <1>6 DEF OtherHandlers

\* The tasks of turns and jobs know of no input.
LEMMA TaskInputs == SessionInv /\ InputsInv /\ (TurnStep \/ JobStep \/ UNCHANGED vars) => Passive
<1> SUFFICES ASSUME SessionInv, InputsInv, TurnStep \/ JobStep \/ UNCHANGED vars
             PROVE  Passive
    OBVIOUS
<1>1. log \in Seq(Event) /\ mailbox \in Seq(Command) /\ TurnFailed(0) \in Event
    BY EventTypesOK DEF SessionInv, Held, Shaped, AsideOK
<1>2. UNCHANGED <<inFlight, pendingInput, inputs, forgotten, mailbox, mode, held>>
    BY DEF TurnStep, JobStep, WorkerRuns, SendRuns, vars, sessionVars, actorVars, clientVars, historyVars
<1>3. SameTriggers(0) /\ SameStarts(log, log)
    BY <1>1, <1>2, TriggersStay, StartsAppend
<1>4. SameStarts(log, log')
    <2>1. CASE TurnStep
        <3>1. PICK t \in DOMAIN drivers : DriverStep(t, incarnation, mode \in Alive)
            BY <2>1 DEF TurnStep
        <3>2. (mode \in Alive) \in BOOLEAN
            OBVIOUS
        <3>3. Silent(t) \/ Writes(t) \/ PostOutcome(t, mode \in Alive)
            BY <3>1, <3>2, InvTypes, TaskStep DEF SessionInv, Held
        <3>4. \/ log' = log
              \/ \E e \in Event : log' = Append(log, e) /\ e.type # "TurnStarted"
            BY <3>3 DEF Silent, Goes, Writes, Adds, PostOutcome
        <3> QED
            BY <1>1, <1>3, <3>4, StartsAppend
    <2>2. CASE JobStep \/ UNCHANGED vars
        BY <1>3, <2>2 DEF JobStep, WorkerRuns, SendRuns, vars, turnVars
    <2> QED
        BY <2>1, <2>2
<1> QED
    BY <1>2, <1>3, <1>4 DEF Passive, InputsInv, InLine

\* A new actor starts with no input in hand.
LEMMA NewActorInputs == SessionInv /\ ControlInv /\ InputsInv /\ Start => Passive
<1> SUFFICES ASSUME SessionInv, ControlInv, InputsInv, Start,
                    NEW e, e = ToolResult(Replay(log).turn, Replay(log).call)
             PROVE  Passive
    OBVIOUS
<1>1. log \in Seq(Event) /\ mailbox \in Seq(Command) /\ TurnFailed(0) \in Event
    BY EventTypesOK DEF SessionInv, Held, Shaped, AsideOK
<1>2. /\ NewActor /\ mode' # "starting"
      /\ UNCHANGED <<pendingInput, mailbox, inputs, forgotten>>
      /\ log' = log \/ log' = Append(log, e)
    <2>1. CASE StartIdle
        BY <2>1 DEF StartIdle, turnVars, clientVars
    <2>2. CASE StartFails
        BY <2>2 DEF StartFails, turnVars, clientVars, historyVars
    <2>3. CASE StartTurn
        BY <2>3 DEF StartTurn, clientVars, historyVars
    <2>4. CASE StartPaused
        BY <2>4 DEF StartPaused, turnVars, clientVars, historyVars
    <2>5. CASE StartAfterJob
        BY <2>5 DEF StartAfterJob, Record, clientVars, historyVars
    <2> QED
        BY <2>1, <2>2, <2>3, <2>4, <2>5 DEF Start
<1>3. mode \notin Alive /\ mode # "starting"
    BY <1>2 DEF NewActor, Alive, Handling
<1>4. pendingInput = None
    BY <1>3 DEF ControlInv, AtRest
<1>5. e \in Event /\ e.type # "TurnStarted"
    <2>1. Replay(log).turn \in Nat /\ Replay(log).call \in Nat
        BY <1>1, ReplayShape
    <2> QED
        BY <2>1, EventTypesOK DEF ToolResult, Ev
<1>6. SameStarts(log, log') /\ SameTriggers(0)
    BY <1>1, <1>2, <1>5, StartsAppend, TriggersStay
<1> QED
    BY <1>2, <1>3, <1>4, <1>6 DEF Passive

\* Every step keeps the inputs in line.
LEMMA InputsStep ==
    SessionInv /\ SessionInv' /\ ControlInv /\ InputsInv /\ [Next]_vars => InputsInv'
<1> SUFFICES ASSUME SessionInv, SessionInv', ControlInv, InputsInv, [Next]_vars
             PROVE  InputsInv'
    OBVIOUS
<1>1. \/ OtherHandlers \/ TurnStep \/ JobStep \/ UNCHANGED vars \/ Start \/ ClientSubmit \/ HandleTrigger
      \/ StartHeldInput \/ TakeOutcome \/ Exit \/ Crash
    BY NoStrayCompletion DEF Next, ClientStep, ActorStep, OtherHandlers
<1>2. \/ Passive \/ ClientSubmit \/ HandleTrigger \/ StartHeldInput \/ TakeOutcome \/ Exit \/ Crash
    BY <1>1, OtherInputs, TaskInputs, NewActorInputs
<1> QED
    BY <1>2, PassiveKeeps, SubmitInputs, TriggerInputs, StartInputs, EndInputs

LEMMA InputsInit == Init => InputsInv
<1> SUFFICES ASSUME Init
             PROVE  InputsInv
    OBVIOUS
<1>1. mode = "down" /\ pendingInput = None /\ mailbox = <<>> /\ inputs = 0 /\ forgotten = 0 /\ log = <<>>
    BY DEF Init, TurnInit
<1>2. (\A n : ~Begun(n)) /\ (\A n : ~InHand(n)) /\ \A p, n : ~Queued(p, n)
    BY <1>1 DEF Begun, Starts, Positions, InHand, Queued
<1>3. InLine
    BY <1>1, <1>2 DEF InLine
<1>4. InputNotLost
    BY <1>1 DEF InputNotLost, Positions
<1> QED
    BY <1>3, <1>4 DEF InputsInv

\* An input is never lost while the actor lives: it is queued, in hand, started, or has
\* given way to a later one; and turns are started in the order their inputs came in, each
\* input at most once, over any number of jobs, cancels, crashes and restarts.
THEOREM SessionInputNotLost == ASSUME ~FastJobs PROVE Spec => []InputNotLost
<1>1. Spec => []InputsInv
    BY InputsInit, InputsStep, ControlAlways, SessionInvAlways, PTL DEF Spec
<1>2. InputsInv => InputNotLost
    BY DEF InputsInv
<1> QED
    BY <1>1, <1>2, PTL
=============================================================================
