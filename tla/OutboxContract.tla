--------------------------- MODULE OutboxContract ---------------------------
(***************************************************************************)
(* What a transactional outbox promises: every event has each of its items *)
(* handed over at least once before it is called done.  More copies may be *)
(* handed over, also late.  An event that was done may be asked for again, *)
(* and is then owed all its items anew.                                    *)
(***************************************************************************)
EXTENDS Naturals

CONSTANTS
    Events,
    Items(_),           \* what one event consists of
    Repeatable          \* events that may be asked for again

VARIABLES
    owed,               \* items not handed over since the event was asked for
    done                \* events called done

Init == owed = [e \in Events |-> Items(e)] /\ done = {}

Hand(e, i) ==
    /\ i \in Items(e)
    /\ owed' = [owed EXCEPT ![e] = @ \ {i}]
    /\ UNCHANGED done

Finish(e) ==
    /\ owed[e] = {}
    /\ done' = done \cup {e}
    /\ UNCHANGED owed

AskAgain(e) ==
    /\ e \in Repeatable \cap done
    /\ owed' = [owed EXCEPT ![e] = Items(e)]
    /\ done' = done \ {e}

Next ==
    \E e \in Events : Finish(e) \/ AskAgain(e) \/ \E i \in Items(e) : Hand(e, i)

Spec == Init /\ [][Next]_<<owed, done>>
=============================================================================
