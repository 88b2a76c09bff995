------------------------------ MODULE EventLog ------------------------------
(***************************************************************************)
(* The persisted conversation log: an append-only sequence of events        *)
(* (cogito-protocol/src/event.rs, written by harness/step_recorder.rs).     *)
(*                                                                         *)
(* Kept: the events that decide how a session is resumed.  Left out: the    *)
(* events no reader of the log tells apart when it looks for a resume       *)
(* point (SessionStarted, the context-management and prompt events,         *)
(* assistant text, thinking blocks, HookRejected); StepRecorder adds those  *)
(* it is about.  Identifiers (ULIDs in the code) are positive numbers; 0    *)
(* stands for "none".                                                       *)
(***************************************************************************)
EXTENDS Integers, Sequences, FiniteSets

None == 0

EventTypes ==
    {"TurnStarted", "TurnCompleted", "TurnFailed", "TurnPaused",
     "ModelCallStarted", "ModelCallCompleted", "ToolUseRecorded",
     "ToolResultRecorded", "JobSubmitted", "JobCompletedRecorded"}

\* The stop reasons H03 tells apart: StopReason::ToolUse and the others.
StopReasons == {"ToolUse", "EndTurn"}

\* What an event's payload says beyond its identifiers: the model's stop
\* reason, or whether the arguments of a tool call pass H07's schema check.
Infos == {"-", "valid", "invalid"} \cup StopReasons

\* key is the call id of a tool event and the input of a TurnStarted.
Event == [type : EventTypes, turn : Nat, key : Nat, job : Nat, info : Infos]

Ev(type, turn, key, job, info) ==
    [type |-> type, turn |-> turn, key |-> key, job |-> job, info |-> info]

TurnStarted(t, input) == Ev("TurnStarted", t, input, None, "-")
TurnCompleted(t)      == Ev("TurnCompleted", t, None, None, "-")
TurnFailed(t)         == Ev("TurnFailed", t, None, None, "-")
TurnPaused(t, j)      == Ev("TurnPaused", t, None, j, "-")
ModelCallStarted(t)   == Ev("ModelCallStarted", t, None, None, "-")
ModelCallCompleted(t, stop) == Ev("ModelCallCompleted", t, None, None, stop)
ToolUse(t, c, check)  == Ev("ToolUseRecorded", t, c, None, check)
ToolResult(t, c)      == Ev("ToolResultRecorded", t, c, None, "-")
JobSubmitted(t, c, j) == Ev("JobSubmitted", t, c, j, "-")
JobCompletedRecorded(t, j) == Ev("JobCompletedRecorded", t, None, j, "-")

-----------------------------------------------------------------------------
(* Reading a log.                                                          *)

\* The positions of the events whose type is in types.
Positions(log, types) == {i \in DOMAIN log : log[i].type \in types}

\* The last of a set of positions, 0 if there is none.
Latest(S) == IF S = {} THEN 0 ELSE CHOOSE i \in S : \A j \in S : j <= i

\* The members of a finite set of positions, in their order in the log.
InOrder(S) == LET ranked == {<<i, Cardinality({j \in S : j <= i})>> : i \in S}
              IN  [k \in 1..Cardinality(S) |-> (CHOOSE r \in ranked : r[2] = k)[1]]

\* The entries of a sequence at the positions in S, in their order.
Picked(s, S) == LET at == InOrder(S) IN [k \in DOMAIN at |-> s[at[k]]]

\* The tool calls that have a result.
Answered(log) == {log[i].key : i \in Positions(log, {"ToolResultRecorded"})}

\* Identifiers are minted fresh (TurnId::new(), the provider's call ids).
FreshTurn(log) == Cardinality(Positions(log, {"TurnStarted"})) + 1
FreshCall(log) == Cardinality(Positions(log, {"ToolUseRecorded"})) + 1

\* count_model_calls_in_events: the model calls a turn has already made.
CountModelCalls(log, t) ==
    Cardinality({i \in Positions(log, {"ModelCallStarted"}) : log[i].turn = t})

\* lookup_call_id_in_events: the call that submitted job j, 0 if none did.
LookupCallId(log, j) ==
    LET at == Latest({i \in Positions(log, {"JobSubmitted"}) : log[i].job = j})
    IN  IF at = 0 THEN None ELSE log[at].key
=============================================================================
