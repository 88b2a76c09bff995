----------------------------- MODULE MCSession ------------------------------
(***************************************************************************)
(* Small sessions for TLC.  One job id more than the async calls a run can  *)
(* make, one channel per actor the run can start, a mailbox with room for   *)
(* every command unless the run is about a full one.                        *)
(***************************************************************************)
EXTENDS Session

\* One completion channel per actor: the first, and one per reopening.
Incarnations == 1..(1 + MaxShutdowns + MaxCrashes)

\* Everything that may go wrong around the FSM, with a provider whose stop
\* reason tells whether it emitted tool calls.
UsualFaults == {"hook", "gateway", "unsealed", "drift"}
=============================================================================
