---------------------------- MODULE MCFrontends -----------------------------
(* Frontends for TLC. *)
EXTENDS Frontends

Bound(i, t, k, o) == [items |-> i, turns |-> t, keys |-> k, opens |-> o]
\* A key in an answer of two items, two keys, a session taken up again with an
\* answer of two items, and one with two inputs.
MCBounds == {Bound(2, 1, 1, 1), Bound(1, 1, 2, 1), Bound(2, 1, 0, 2), Bound(1, 2, 0, 2), Bound(1, 2, 1, 1)}
=============================================================================
