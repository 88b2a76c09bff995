----------------------------- MODULE MCCommands -----------------------------
(***************************************************************************)
(* One command as a job and one in the foreground, one session: the exit,   *)
(* the token, the timer, the manager's cancel, the registration and the     *)
(* processes left behind can come in any order.                             *)
(***************************************************************************)
EXTENDS Commands
=============================================================================
