----------------------------- MODULE Compactor ------------------------------
(***************************************************************************)
(* TruncateCompactor (cogito-context/src/compactor/truncate.rs): which      *)
(* range of a history it proposes to drop.  A history is a sequence of      *)
(* bodies [seq, ev, data] in seq order.  Sizes are left out: whether the    *)
(* estimate is over the threshold is up to the caller.                      *)
(***************************************************************************)
EXTENDS EventLog

IsType(body, types) == body.ev.type \in types

\* collect_covered_ranges, is_covered.
Covered(history, s) ==
    \E i \in DOMAIN history :
        /\ IsType(history[i], {"ContextCompacted"})
        /\ history[i].data.lo <= s /\ s <= history[i].data.hi

TurnStarts(history) == Picked(history, {i \in DOMAIN history : IsType(history[i], {"TurnStarted"})})

\* Mutant: the boundary itself is taken to be of the turn.
TurnEndInclusive(history, n) ==
    LET start == TurnStarts(history)[n].seq
        stops == {history[i].seq : i \in {k \in DOMAIN history :
                     history[k].seq > start
                     /\ IsType(history[k], {"TurnStarted", "ContextManageEntered"})}}
    IN  IF stops = {} THEN start ELSE CHOOSE s \in stops : \A q \in stops : s <= q

\* collect_turn_boundaries: the end of the n-th turn is the last event before
\* the next TurnStarted or ContextManageEntered.
TurnEnd(history, n) ==
    LET start == TurnStarts(history)[n].seq
        stops == {history[i].seq : i \in {k \in DOMAIN history :
                     history[k].seq > start
                     /\ IsType(history[k], {"TurnStarted", "ContextManageEntered"})}}
        inside == {history[i].seq : i \in {k \in DOMAIN history :
                     history[k].seq >= start /\ \A s \in stops : history[k].seq < s}}
    IN  CHOOSE s \in inside : \A q \in inside : q <= s

\* Steps 4 to 6 of maybe_compact: the turns outside the window that is kept
\* and not covered yet.
Droppable(history, keepFirst, keepRecent) ==
    LET total == Len(TurnStarts(history)) IN
    {n \in (IF keepFirst THEN 2 ELSE 1)..(total - keepRecent) :
        \E s \in TurnStarts(history)[n].seq..TurnEnd(history, n) : ~Covered(history, s)}

\* Step 1: the turn has its compaction already.
CompactedFor(history, turn) ==
    \E i \in DOMAIN history :
        IsType(history[i], {"ContextCompacted"}) /\ history[i].ev.turn = turn

\* The range from the first droppable turn to the end of the last; {} if
\* there is nothing to do.
TruncateRange(history, turn, keepFirst, keepRecent) ==
    LET drop == Droppable(history, keepFirst, keepRecent)
        first == CHOOSE n \in drop : \A q \in drop : n <= q
        last  == CHOOSE n \in drop : \A q \in drop : q <= n
    IN  IF CompactedFor(history, turn) \/ drop = {} THEN {}
        ELSE {<<TurnStarts(history)[first].seq, TurnEnd(history, last)>>}
=============================================================================
