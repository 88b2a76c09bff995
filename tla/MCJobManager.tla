---------------------------- MODULE MCJobManager ----------------------------
(***************************************************************************)
(* Two jobs and two session actors: enough for a cancel, a completion and   *)
(* a registration of the same job to race, for one sink to take another's   *)
(* place, and for two senders to wait on one full channel.                  *)
(***************************************************************************)
EXTENDS JobManager
=============================================================================
