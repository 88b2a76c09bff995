-------------------------- MODULE MCModelGateway ----------------------------
(***************************************************************************)
(* Three blocks of two chunks, and contents long enough for a thought       *)
(* after text, a second thought, and tags cut in two.                       *)
(***************************************************************************)
EXTENDS ModelGateway
=============================================================================
