----------------------------- MODULE MCRuntime -----------------------------
(***************************************************************************)
(* One session opened twice and closed once, two delegate calls that can    *)
(* nest, a broadcast of two slots.                                          *)
(***************************************************************************)
EXTENDS Subagents, TLC
CONSTANTS o1, o2, c1, c2, k1, s1
=============================================================================
