------------------------- MODULE OneShotCompletion --------------------------
(***************************************************************************)
(* What JobManager promises (the trait's contract in                        *)
(* cogito-protocol/src/job.rs): a job's outcome is decided once, and a      *)
(* registered sink is told that outcome at most once, and only after it is  *)
(* decided.  A registration is given up only when another takes its place   *)
(* on a job still undecided, or when nobody listens any more.               *)
(***************************************************************************)
EXTENDS Naturals

CONSTANTS
    Jobs,
    Listeners,
    Outcomes    \* other values than the markers below

VARIABLES
    outcome,    \* job -> "absent", "open", or the decided outcome
    notice      \* <<job, listener>> -> "none", "owed", "dropped", or what was told

vars == <<outcome, notice>>

Init ==
    /\ outcome = [j \in Jobs |-> "absent"]
    /\ notice = [r \in Jobs \X Listeners |-> "none"]

Begin(j) ==
    /\ outcome[j] = "absent"
    /\ outcome' = [outcome EXCEPT ![j] = "open"]
    /\ UNCHANGED notice

Decide(j, o) ==
    /\ outcome[j] = "open"
    /\ outcome' = [outcome EXCEPT ![j] = o]
    /\ UNCHANGED notice

\* The registrations of the same job that are pushed out, if any.
Register(j, s, out) ==
    /\ outcome[j] # "absent"
    /\ notice[<<j, s>>] = "none"
    /\ \A l \in out : notice[<<j, l>>] = "owed"
    /\ out # {} => outcome[j] = "open"
    /\ notice' = [r \in Jobs \X Listeners |->
                     IF r = <<j, s>> THEN "owed"
                     ELSE IF r[1] = j /\ r[2] \in out THEN "dropped"
                     ELSE notice[r]]
    /\ UNCHANGED outcome

Tell(j, s) ==
    /\ notice[<<j, s>>] = "owed"
    /\ outcome[j] \in Outcomes
    /\ notice' = [notice EXCEPT ![<<j, s>>] = outcome[j]]
    /\ UNCHANGED outcome

GiveUp(j, s) ==
    /\ notice[<<j, s>>] = "owed"
    /\ outcome[j] \in Outcomes
    /\ notice' = [notice EXCEPT ![<<j, s>>] = "dropped"]
    /\ UNCHANGED outcome

Next ==
    \E j \in Jobs :
        \/ Begin(j)
        \/ \E o \in Outcomes : Decide(j, o)
        \/ \E s \in Listeners :
            \/ \E out \in SUBSET (Listeners \ {s}) : Register(j, s, out)
            \/ Tell(j, s)
            \/ GiveUp(j, s)

Spec == Init /\ [][Next]_vars
=============================================================================
