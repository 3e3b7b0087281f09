---------------------------- MODULE JobContract ----------------------------
(***************************************************************************)
(* What the job service promises about a paid job, whoever calls it and    *)
(* however late: a job is granted to a worker at most "budget" times, one  *)
(* grant at a time; at most one grant delivers, and then nothing about the *)
(* job changes again; a job that was given up comes back only by widening  *)
(* the budget by one, and only when the budget was spent.                  *)
(*                                                                         *)
(* The specification only says what the life of one job may become in one  *)
(* step; the lives of several jobs may move in the same step, because the  *)
(* maintenance batches do that.                                            *)
(***************************************************************************)
EXTENDS Naturals

CONSTANTS Jobs, Artifacts, NoArtifact, MaxAttempts, AttemptLimit

VARIABLE life

Phases == {"waiting", "held", "delivered", "failed"}

Life == [phase   : Phases,
         grants  : Nat,
         budget  : Nat,
         outcome : Artifacts \cup {NoArtifact}]

Init == life = [j \in Jobs |-> [phase |-> "waiting", grants |-> 0,
                                budget |-> MaxAttempts, outcome |-> NoArtifact]]

Same(old, new) == new.budget = old.budget /\ new.outcome = old.outcome

\* A worker gets the job, from the queue or because the last holder lost it.
Granted(old, new) ==
    /\ old.phase \in {"waiting", "held"} /\ new.phase = "held"
    /\ old.grants < old.budget /\ new.grants = old.grants + 1
    /\ Same(old, new)

\* The holder gives the job back, or its lease is collected, to be tried again.
Released(old, new) ==
    /\ old.phase = "held" /\ new.phase = "waiting"
    /\ old.grants < old.budget /\ new.grants = old.grants
    /\ Same(old, new)

\* The holder's artifact becomes the outcome of the job.
Delivered(old, new) ==
    /\ old.phase = "held" /\ new.phase = "delivered"
    /\ new.grants = old.grants /\ new.budget = old.budget
    /\ old.outcome = NoArtifact /\ new.outcome # NoArtifact

GivenUp(old, new) ==
    /\ old.phase = "held" /\ new.phase = "failed"
    /\ new.grants = old.grants
    /\ Same(old, new)

\* One more grant for a job whose grants are spent.
Reopened(old, new) ==
    /\ old.phase = "failed" /\ new.phase = "waiting"
    /\ old.grants = old.budget /\ new.grants = old.grants
    /\ old.budget < AttemptLimit /\ new.budget = old.budget + 1
    /\ new.outcome = old.outcome

Moves(old, new) ==
    \/ Granted(old, new)
    \/ Released(old, new)
    \/ Delivered(old, new)
    \/ GivenUp(old, new)
    \/ Reopened(old, new)

Next ==
    /\ life' \in [Jobs -> Life]
    /\ \A j \in Jobs : life'[j] = life[j] \/ Moves(life[j], life'[j])

Spec == Init /\ [][Next]_life
=============================================================================
