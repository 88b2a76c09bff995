----------------------------- MODULE Broadcast ------------------------------
(***************************************************************************)
(* A receiver of a session's tokio broadcast channel, which               *)
(* cogito-core/src/runtime/builder.rs makes for every actor and             *)
(* SessionHandle::subscribe hands out.                                      *)
(***************************************************************************)
EXTENDS Naturals, Sequences

CONSTANT StreamCap  \* slots of the channel

ASSUME StreamCapAssumption == StreamCap \in Nat \ {0}

NoFeed == [queue |-> <<>>, lagged |-> FALSE]

\* broadcast::Sender::send: a full ring loses its oldest event, and the
\* receiver is told so by its next recv.
Sent(f, ev) == IF Len(f.queue) < StreamCap
               THEN [f EXCEPT !.queue = Append(@, ev)]
               ELSE [queue |-> Append(Tail(f.queue), ev), lagged |-> TRUE]
=============================================================================
