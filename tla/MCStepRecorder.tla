--------------------------- MODULE MCStepRecorder ---------------------------
(***************************************************************************)
(* Two turns and one model call with a tool round: enough for a turn to be  *)
(* resumed, for the round to ask H11 again, and for the second turn to      *)
(* compact the first.                                                       *)
(***************************************************************************)
EXTENDS StepRecorder
=============================================================================
