------------------------------ MODULE Runtime ------------------------------
(***************************************************************************)
(* The Runtime (cogito-core/src/runtime/builder.rs): a registry of open     *)
(* sessions over one store.  open_inner checks the registry, awaits two     *)
(* reads of the store and an append, and only then inserts; close_session   *)
(* removes first and then awaits the shutdown of the actor, which gives up  *)
(* on a turn that outlives the deadline.  A process of this module is one   *)
(* call of open_inner and the actor it spawns; what an actor does inside    *)
(* a turn is reduced to the appends of Session and TurnDriver.              *)
(***************************************************************************)
EXTENDS Integers, Sequences, FiniteSets

CONSTANTS
    Openers,    \* calls of open_session, each with the actor it may spawn
    Calls,      \* delegate calls; each names its child session and actor too
    Closers,    \* calls of close_session or of shutdown on a handle
    Sessions,   \* ids of top-level sessions
    Openable,   \* ids the clients open, of Sessions and Calls
    NoHandle,   \* an empty slot of the registry
    MaxMessages \* bound: assistant messages per turn

ASSUME IdsAssumption == /\ Sessions \cap Calls = {} /\ Openers \cap Calls = {}
                        /\ Openable \subseteq Sessions \cup Calls
                        /\ NoHandle \notin Openers \cup Calls
ASSUME MessagesAssumption == MaxMessages \in Nat

VARIABLES
    store,      \* session id -> its log
    registry,   \* session id -> the process registered for it
    procs,      \* process -> where its opening, its actor and its turn are
    closes,     \* shutdowns asked for
    raced,      \* history: sessions opened while another process of theirs was alive
    overran     \* history: sessions with a turn that outlived a drain deadline

runtimeVars == <<store, registry, procs, closes, raced, overran>>

SessionIds == Sessions \cup Calls
Procs == Openers \cup Calls
OpenModes == {"New", "Resume", "Attach"}

\* open_inner up to its three awaits, then the actor; besides, a process is idle,
\* refused (an Err) or gone.
Opening == {"measuring", "collecting", "starting"}
Alive == Opening \cup {"up", "draining"}

\* A turn's task at work: running, or with its last event broadcast and not yet
\* in the log.  Besides, a turn is none or ended.
Working == {"running", "TurnCompleted", "TurnFailed"}

\* latest: what latest_seq returned, -1 for None.  cut: initial_events end in a
\* turn without a terminal event.  inbox: a Trigger, stop: a Shutdown in the
\* mailbox.  depth: subagent_depth.
Proc(phase, session, mode, register, depth) ==
    [phase |-> phase, session |-> session, mode |-> mode, register |-> register,
     depth |-> depth, latest |-> -1, cut |-> FALSE, next |-> 0, inbox |-> FALSE,
     stop |-> FALSE, turn |-> "none"]
NoProc == Proc("idle", NoHandle, "New", FALSE, 0)

RuntimeInit ==
    /\ store = [s \in SessionIds |-> <<>>]
    /\ registry = [s \in SessionIds |-> NoHandle]
    /\ procs = [p \in Procs |-> NoProc]
    /\ closes = [k \in Closers |-> [pc |-> "idle", of |-> NoHandle, answer |-> "-"]]
    /\ raced = {}
    /\ overran = {}

Of(s) == {p \in Procs : procs[p].session = s}
Rivals(p) == {q \in Of(procs[p].session) \ {p} :
                 procs[q].phase \in Alive \/ procs[q].turn \in Working}
Messages(log) == Cardinality({i \in DOMAIN log : log[i].kind = "Message"})

Unfinished(log) == \E i \in DOMAIN log : /\ log[i].kind = "TurnStarted"
                                         /\ \A j \in i + 1 .. Len(log) : log[j].kind = "Message"

\* The recorder of p: one event, at its own counter.
Written(p, kind, next) == [seq |-> next, kind |-> kind, depth |-> procs[p].depth]
Record(p, kind) == store' = [store EXCEPT ![procs[p].session] =
                                Append(@, Written(p, kind, procs[p].next))]

Refused(p) == procs' = [procs EXCEPT ![p] = Proc("refused", NoHandle, "New", FALSE, 0)]

-----------------------------------------------------------------------------
(* open_inner *)

\* Mutant: the registry is not asked.
OpenUnchecked(o, s, mode) ==
    /\ procs[o].phase = "idle"
    /\ procs' = [procs EXCEPT ![o] = Proc("measuring", s, mode, TRUE, 0)]
    /\ raced' = IF registry[s] = NoHandle /\ \E q \in Of(s) : procs[q].phase \in Alive
                THEN raced \cup {s} ELSE raced
    /\ UNCHANGED <<store, registry, closes, overran>>

\* open_session_with: always depth 0, whatever the session's meta says.
Open(o, s, mode) ==
    /\ procs[o].phase = "idle"
    /\ IF registry[s] # NoHandle
       THEN Refused(o) /\ UNCHANGED raced
       ELSE /\ procs' = [procs EXCEPT ![o] = Proc("measuring", s, mode, TRUE, 0)]
            /\ raced' = IF \E q \in Of(s) : procs[q].phase \in Alive THEN raced \cup {s} ELSE raced
    /\ UNCHANGED <<store, registry, closes, overran>>

\* The first await: latest_seq, or a StoreError.
Measure(p) ==
    /\ procs[p].phase = "measuring"
    /\ \/ LET log == store[procs[p].session]
          IN  procs' = [procs EXCEPT ![p].phase = "collecting",
                                     ![p].latest = IF log = <<>> THEN -1 ELSE log[Len(log)].seq]
       \/ Refused(p)
    /\ UNCHANGED <<store, registry, closes, raced, overran>>

ModeAccepts(p) == CASE procs[p].mode = "New"    -> procs[p].latest = -1
                    [] procs[p].mode = "Resume" -> procs[p].latest # -1
                    [] OTHER                    -> TRUE

\* The second: replay into initial_events, or a StoreError; then the mode.
Collect(p) ==
    /\ procs[p].phase = "collecting"
    /\ \/ /\ ModeAccepts(p)
          /\ procs' = [procs EXCEPT ![p].phase = "starting",
                                    ![p].cut = Unfinished(store[procs[p].session])]
       \/ Refused(p)
    /\ UNCHANGED <<store, registry, closes, raced, overran>>

\* The third: SessionStarted when there was no event, then the context
\* pipeline, which may refuse the open after all; the actor is spawned and,
\* for a top-level session, its handle inserted.  A turn the log leaves open
\* is resumed or given up, as Resume has it.
Start(p) ==
    /\ procs[p].phase = "starting"
    /\ LET s == procs[p].session
           fresh == procs[p].latest = -1
           next == procs[p].latest + 1
       IN  /\ store' = IF fresh
                       THEN [store EXCEPT ![s] = Append(@, Written(p, "SessionStarted", next))]
                       ELSE store
           /\ \/ /\ \E turn \in IF procs[p].cut THEN {"running", "none"} ELSE {"none"} :
                       procs' = [procs EXCEPT ![p] =
                                    [@ EXCEPT !.phase = "up", !.turn = turn, !.mode = "New",
                                              !.latest = -1, !.cut = FALSE,
                                              !.next = IF fresh THEN next + 1 ELSE next]]
                 /\ registry' = [registry EXCEPT ![s] = IF procs[p].register THEN p ELSE @]
              \/ Refused(p) /\ UNCHANGED registry
    /\ UNCHANGED <<closes, raced, overran>>

-----------------------------------------------------------------------------
(* The actor and its turn *)

\* A Trigger from a client; one turn per process is enough here.
Submit(p) ==
    /\ procs[p].phase = "up" /\ procs[p].turn = "none"
    /\ ~procs[p].inbox /\ ~procs[p].stop
    /\ procs' = [procs EXCEPT ![p].inbox = TRUE]
    /\ UNCHANGED <<store, registry, closes, raced, overran>>

\* try_start_turn: TurnStarted is recorded, the task spawned.
StartTurn(p) ==
    /\ procs[p].phase = "up" /\ procs[p].inbox /\ procs[p].turn = "none"
    /\ Record(p, "TurnStarted")
    /\ procs' = [procs EXCEPT ![p].inbox = FALSE, ![p].turn = "running", ![p].next = procs[p].next + 1]
    /\ UNCHANGED <<registry, closes, raced, overran>>

\* The task of the turn does not need its actor: it writes on after it is gone.
\* What a top-level turn says between its first and its last event is left out.
Say(p) ==
    /\ procs[p].turn = "running" /\ p \in Calls
    /\ Messages(store[procs[p].session]) < MaxMessages
    /\ Record(p, "Message")
    /\ procs' = [procs EXCEPT ![p].next = procs[p].next + 1]
    /\ UNCHANGED <<registry, closes, raced, overran>>

\* Nobody here waits for the end of a top-level turn: it is one event.
Endings(p) == IF p \in Calls THEN {"TurnCompleted", "TurnFailed"} ELSE {"TurnCompleted"}

\* The recorder broadcasts first and then appends: a waiter may know of the end
\* before the log does.  (Of the other events nobody reads before they are written.)
Announce(p, kind) ==
    /\ procs[p].turn = "running"
    /\ procs' = [procs EXCEPT ![p].turn = kind]
    /\ UNCHANGED <<store, registry, closes, raced, overran>>

Finish(p) ==
    /\ procs[p].turn \in Endings(p)
    /\ Record(p, procs[p].turn)
    /\ procs' = [procs EXCEPT ![p].turn = "ended", ![p].next = procs[p].next + 1]
    /\ UNCHANGED <<registry, closes, raced, overran>>

\* The mailbox is first in, first out: a Trigger before the Shutdown is taken
\* first.  drain_shutdown fires the cancel token and waits.
BeginDrain(p) ==
    /\ procs[p].phase = "up" /\ procs[p].stop
    /\ procs[p].inbox => procs[p].turn # "none"
    /\ procs' = [procs EXCEPT ![p].phase = "draining"]
    /\ UNCHANGED <<store, registry, closes, raced, overran>>

\* The turn has drained; the store's resources are released.
ExitDrained(p) ==
    /\ procs[p].phase = "draining" /\ procs[p].turn \notin Working
    /\ procs' = [procs EXCEPT ![p].phase = "gone"]
    /\ UNCHANGED <<store, registry, closes, raced, overran>>

\* The deadline has passed; the task is left running.
ExitAtDeadline(p) ==
    /\ procs[p].phase = "draining" /\ procs[p].turn \in Working
    /\ procs' = [procs EXCEPT ![p].phase = "gone"]
    /\ overran' = overran \cup {procs[p].session}
    /\ UNCHANGED <<store, registry, closes, raced>>

-----------------------------------------------------------------------------
(* close_session *)

\* The handle is claimed, then the Shutdown is sent.
Close(k, s) ==
    /\ closes[k].pc = "idle"
    /\ LET p == registry[s]
       IN  IF p = NoHandle
           THEN /\ closes' = [closes EXCEPT ![k] = [pc |-> "returned", of |-> p, answer |-> "None"]]
                /\ UNCHANGED <<registry, procs>>
           ELSE /\ closes' = [closes EXCEPT ![k] = [pc |-> "waiting", of |-> p, answer |-> "-"]]
                /\ registry' = [registry EXCEPT ![s] = NoHandle]
                /\ procs' = [procs EXCEPT ![p].stop = TRUE]
    /\ UNCHANGED <<store, raced, overran>>

\* SessionHandle::shutdown by a client that kept the handle: the registry is
\* not told, and holds the handle of an actor that is gone.
ShutdownHandle(k, p) ==
    /\ closes[k].pc = "idle"
    /\ procs[p].phase = "up" /\ ~procs[p].stop
    /\ closes' = [closes EXCEPT ![k] = [pc |-> "waiting", of |-> p, answer |-> "-"]]
    /\ procs' = [procs EXCEPT ![p].stop = TRUE]
    /\ UNCHANGED <<store, registry, raced, overran>>

\* The ack, or its loss with the actor, which is absorbed.
CloseReturns(k) ==
    /\ closes[k].pc = "waiting" /\ procs[closes[k].of].phase = "gone"
    /\ \E answer \in {"None", "Clean"} :
          closes' = [closes EXCEPT ![k].pc = "returned", ![k].answer = answer]
    /\ UNCHANGED <<store, registry, procs, raced, overran>>

OpenStep(p) == Measure(p) \/ Collect(p) \/ Start(p)
ActorStep(p) == StartTurn(p) \/ BeginDrain(p) \/ ExitDrained(p) \/ ExitAtDeadline(p)
=============================================================================
