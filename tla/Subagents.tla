----------------------------- MODULE Subagents -----------------------------
(***************************************************************************)
(* The delegate tool (cogito-core/src/runtime/subagent.rs) and the spawner  *)
(* behind it (RuntimeSpawner in builder.rs), over Runtime.  A call opens a  *)
(* child session that is not registered, submits its input, waits for the   *)
(* child's terminal event on the child's broadcast or for a timeout, shuts  *)
(* the child down and answers with the last message of the child's log.     *)
(***************************************************************************)
EXTENDS Runtime, Broadcast

CONSTANTS MaxDepth,   \* DelegateToolProvider::max_depth
          MaxOps      \* bound: opens, closes and delegate calls begun in all

ASSUME DepthAssumption == MaxDepth \in Nat

VARIABLES
    calls,  \* delegate calls: where they are, their parent, how the wait ended, the answer
    feed    \* call -> its receiver on the child's broadcast

subagentVars == <<calls, feed>>
vars == <<runtimeVars, subagentVars>>

Waiting == {"opening", "driving", "tearing"}
\* ending: what ended the wait (completed, failed, lagged, timeout); outcome: what
\* the call told its turn (refused, open_failed, timeout, child_failed, answer).
NoCall == [pc |-> "idle", parent |-> NoHandle, ending |-> "-", outcome |-> "-", text |-> 0]

Init == /\ RuntimeInit
        /\ calls = [c \in Calls |-> NoCall]
        /\ feed = [c \in Calls |-> NoFeed]

\* The turn of p awaits a delegate call: the tool is AlwaysSync.
InCall(p) == \E c \in Calls : calls[c].parent = p /\ calls[c].pc \in Waiting

Publish(p, ev) == feed' = [c \in Calls |-> IF c = p /\ calls[c].pc = "driving"
                                           THEN Sent(feed[c], ev) ELSE feed[c]]

-----------------------------------------------------------------------------
(* DelegateToolProvider::invoke *)

\* SessionId::new: any id that was not used, the first one here.
Fresh(c) == calls[c].pc = "idle" /\ c = CHOOSE x \in Calls : calls[x].pc = "idle"

\* Mutant: the child is registered like a top-level session.
DelegateRegisters(p, c) ==
    /\ procs[p].turn = "running" /\ ~InCall(p)
    /\ Fresh(c) /\ procs[p].depth < MaxDepth
    /\ calls' = [calls EXCEPT ![c].pc = "opening", ![c].parent = p]
    /\ procs' = [procs EXCEPT ![c] = Proc("measuring", c, "New", TRUE, procs[p].depth + 1)]
    /\ UNCHANGED <<store, registry, closes, raced, overran, feed>>

\* A call is refused for its name, its arguments, its role or the depth of the
\* session that makes it.
Refuse(p, c) ==
    /\ procs[p].turn = "running" /\ ~InCall(p)
    /\ Fresh(c)
    /\ calls' = [calls EXCEPT ![c].pc = "done", ![c].parent = p, ![c].outcome = "refused"]
    /\ UNCHANGED <<runtimeVars, feed>>

\* run_to_completion: the role is resolved, the child opened under a new id.
Delegate(p, c) ==
    /\ procs[p].turn = "running" /\ ~InCall(p)
    /\ Fresh(c) /\ procs[p].depth < MaxDepth
    /\ calls' = [calls EXCEPT ![c].pc = "opening", ![c].parent = p]
    /\ procs' = [procs EXCEPT ![c] = Proc("measuring", c, "New", FALSE, procs[p].depth + 1)]
    /\ UNCHANGED <<store, registry, closes, raced, overran, feed>>

OpenFailed(c) ==
    /\ calls[c].pc = "opening" /\ procs[c].phase = "refused"
    /\ calls' = [calls EXCEPT ![c].pc = "done", ![c].outcome = "open_failed"]
    /\ UNCHANGED <<runtimeVars, feed>>

\* Subscribe, then submit.
Drive(c) ==
    /\ calls[c].pc = "opening" /\ procs[c].phase = "up"
    /\ calls' = [calls EXCEPT ![c].pc = "driving"]
    /\ procs' = [procs EXCEPT ![c].inbox = TRUE]
    /\ UNCHANGED <<store, registry, closes, raced, overran, feed>>

\* Whatever ended the wait, the child is shut down next.
TearDown(c, ending, f) ==
    /\ calls' = [calls EXCEPT ![c].pc = "tearing", ![c].ending = ending]
    /\ procs' = [procs EXCEPT ![c].stop = TRUE]
    /\ feed' = [f EXCEPT ![c] = NoFeed]
    /\ UNCHANGED <<store, registry, closes, raced, overran>>

\* The bridge: what the child publishes goes on to the parent's stream when
\* the parent is registered.  Only a call's stream has a reader here.
Bridged(c, ev) ==
    LET p == calls[c].parent
    IN  IF p \in Calls /\ registry[p] = p THEN [feed EXCEPT ![p] = Sent(@, ev)] ELSE feed

Receive(c) ==
    /\ calls[c].pc = "driving" /\ ~feed[c].lagged /\ feed[c].queue # <<>>
    /\ LET ev == Head(feed[c].queue)
       IN  \/ ev = "TurnFailed" /\ TearDown(c, "failed", Bridged(c, ev))
           \/ ev = "TurnCompleted" /\ TearDown(c, "completed", Bridged(c, ev))
           \/ /\ ev \notin {"TurnFailed", "TurnCompleted"}
              /\ feed' = [Bridged(c, ev) EXCEPT ![c].queue = Tail(@)]
              /\ UNCHANGED <<calls, runtimeVars>>

\* Lagged: stop waiting and fall through to the log.
ReceiveLagged(c) ==
    /\ calls[c].pc = "driving" /\ feed[c].lagged
    /\ TearDown(c, "lagged", feed)

\* Mutant: the wait has no deadline.
NoTimeout(c) == FALSE /\ UNCHANGED vars

\* CHILD_DRIVE_TIMEOUT.
Timeout(c) ==
    /\ calls[c].pc = "driving"
    /\ TearDown(c, "timeout", feed)

\* The child's actor has gone.  last_assistant_text is the number of the
\* last message in the child's log, 0 for none; the log may not be read.
Answer(c) ==
    /\ calls[c].pc = "tearing" /\ procs[c].phase = "gone"
    /\ \E outcome \in CASE calls[c].ending = "timeout" -> {"timeout"}
                        [] calls[c].ending = "failed"  -> {"child_failed"}
                        [] OTHER                       -> {"answer", "open_failed"} :
          calls' = [calls EXCEPT ![c].pc = "done", ![c].outcome = outcome,
                       ![c].text = IF outcome = "answer" THEN Messages(store[c]) ELSE 0]
    /\ UNCHANGED <<runtimeVars, feed>>

CallStep(c) == \/ OpenFailed(c) \/ Drive(c) \/ Receive(c) \/ ReceiveLagged(c)
               \/ Timeout(c) \/ Answer(c)

-----------------------------------------------------------------------------
(* The turn tasks publish what they record, the end of a turn ahead of it. *)

TurnStep(p) ==
    \/ StartTurn(p) /\ Publish(p, "TurnStarted") /\ UNCHANGED calls
    \/ /\ ~InCall(p)
       /\ \/ Say(p) /\ Publish(p, "TextDelta")
          \/ \E kind \in Endings(p) : Announce(p, kind) /\ Publish(p, kind)
       /\ UNCHANGED calls
    \/ Finish(p) /\ UNCHANGED subagentVars

Begun == Cardinality({o \in Openers : procs[o].phase # "idle"})
         + Cardinality({k \in Closers : closes[k].pc # "idle"})
         + Cardinality({c \in Calls : calls[c].pc # "idle"})

ExitStep(p) == (BeginDrain(p) \/ ExitDrained(p) \/ ExitAtDeadline(p)) /\ UNCHANGED subagentVars

\* A client can name a child session once its id was minted.
Nameable == {s \in Openable : s \in Calls => calls[s].pc # "idle"}

Client == /\ \/ /\ Begun < MaxOps
                /\ \/ \E o \in Openers, s \in Nameable, mode \in OpenModes : Open(o, s, mode)
                   \/ \E k \in Closers, s \in Nameable : Close(k, s)
                   \/ \E k \in Closers, o \in Openers : ShutdownHandle(k, o)
             \/ \E o \in Openers : Submit(o)
          /\ UNCHANGED subagentVars

Next == \/ Client
        \/ \E p \in Procs : OpenStep(p) /\ UNCHANGED subagentVars
        \/ \E p \in Procs : TurnStep(p) \/ ExitStep(p)
        \/ Begun < MaxOps /\ \E p \in Procs, c \in Calls : Refuse(p, c) \/ Delegate(p, c)
        \/ \E c \in Calls : CallStep(c)
        \/ \E k \in Closers : CloseReturns(k) /\ UNCHANGED subagentVars

Spec == Init /\ [][Next]_vars

\* Openings, actors, timers and waiting calls go on.  Nothing is assumed of
\* the turns: a child may hang for ever.
FairSpec ==
    /\ Spec
    /\ \A p \in Procs :
          /\ WF_vars(OpenStep(p) /\ UNCHANGED subagentVars)
          /\ WF_vars(StartTurn(p) /\ Publish(p, "TurnStarted") /\ UNCHANGED calls)
          /\ WF_vars(ExitStep(p))
    /\ \A c \in Calls : WF_vars(CallStep(c))
    /\ \A k \in Closers : WF_vars(CloseReturns(k) /\ UNCHANGED subagentVars)

-----------------------------------------------------------------------------
(* Properties *)

\* A session has one process that opens, serves or writes it, unless a client
\* opened it without awaiting its close or a drain deadline passed: the registry
\* is checked before the store is read and written after.  Its log is then
\* numbered from 0 without gap or repeat and begins with its only SessionStarted,
\* over any reopenings, though the recorder's counter is taken from latest_seq,
\* two awaits before the first append.
OneWriter ==
    /\ \A p \in Procs : /\ procs[p].phase \in Alive
                        /\ procs[p].session \notin raced \cup overran
                        => Rivals(p) = {}
    /\ \A s \in SessionIds \ (raced \cup overran) : \A i \in DOMAIN store[s] :
          store[s][i].seq = i - 1 /\ (store[s][i].kind = "SessionStarted" <=> i = 1)

\* A delegate call that has returned leaves no child actor behind, whatever went
\* wrong, and the text it returns for a completed child is the last message the
\* child ever writes: the child's own TurnCompleted ended the wait, never that of
\* a child of the child.  It is broadcast before it is written, and it is in the
\* log by then unless the drain deadline passed in between.
AnswerIsFinal ==
    \A c \in Calls : calls[c].pc = "done" =>
        /\ procs[c].phase \in {"idle", "refused", "gone"}
        /\ calls[c].outcome = "answer" /\ calls[c].ending = "completed" =>
              /\ c \notin overran => \E i \in DOMAIN store[c] : store[c][i].kind = "TurnCompleted"
              /\ calls[c].text = Messages(store[c])

\* A delegate call and a close_session return, even when the turn they wait for
\* never ends: timeout and deadline see to it.
WaitsEnd ==
    /\ \A c \in Calls : calls[c].pc = "opening" ~> calls[c].pc = "done"
    /\ \A k \in Closers : closes[k].pc = "waiting" ~> closes[k].pc = "returned"
=============================================================================
