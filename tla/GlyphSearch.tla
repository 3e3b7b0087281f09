------------------------------ MODULE GlyphSearch ------------------------------
(***************************************************************************)
(* Forming a model: BalancedMaxSearch.form_model over the glyphs of a      *)
(* style (fidelity/balanced_search.py), with the checkpoint of every glyph *)
(* in a directory that outlives the attempt (runner.py                     *)
(* _durable_checkpoint_root).                                              *)
(*                                                                         *)
(* A claim that loses its lease leaves its compute thread running: the     *)
(* next attempt of the job may then form the same model from the same      *)
(* directory at the same time.  A crash ends every thread.                 *)
(***************************************************************************)
EXTENDS GlyphLadder

CONSTANTS
    Families,       \* sequences of glyphs, in the order of their code points
    Attempts,       \* bound: of the job, from 1
    Workers,        \* profile_workers
    MaxVersion      \* bound: releases of the search during the job

ASSUME FamiliesAssumption == \A f \in Families : f \in Seq(Range(f))
ASSUME AttemptsAssumption == Attempts \subseteq Nat \ {0}

VARIABLES
    family,         \* the glyphs of the style
    ladder,         \* what the ladder makes of each of them,
    confident,      \* and whether the model they make up is of enough confidence
    release,        \* SEARCH_VERSION of the running process: with it the identity of a checkpoint
    state,          \* of an attempt
    version,        \* the release an attempt runs
    late,           \* its deadline is past
    pc,             \* of the task of a glyph
    tiers,          \* that the task has run
    fd,             \* the file the task has open, named by the attempt that made it
    got,            \* the release whose ladder made the outline the task returns
    final, tmp,     \* cp_XXXXXX_glyph.json and .tmp: the file under either name
    content,        \* the release whose whole checkpoint the file holds; 0 when it holds none
    banked,         \* history: the release of the last checkpoint put in place whole
    overlapped      \* history: two attempts have been forming at once

style == <<family, ladder, confident>>
attempts == <<state, version, late>>
tasks == <<pc, tiers, fd, got>>
files == <<final, tmp, content>>
history == <<banked, overlapped>>
vars == <<style, release, attempts, tasks, files, history>>

Glyphs == UNION {Range(f) : f \in Families}
InFamily == Range(family)
NoFile == 0
Files == {NoFile} \union Attempts

-----------------------------------------------------------------------------
(* What the ladder makes of a glyph: computed once, in Init. *)

\* An earlier tier came to the very outline that all rasters were fitted to.
Twin(pool) == \E i \in Kept(pool) : i < Len(pool) /\ pool[i].out = Last(pool).out

\* The fit of a glyph; the calls of _run_tier, each of which looks at the clock first; the outline
\* every raster was fitted to, and whether a tier had it before; whether all rasters vouch for the fit.
Laddered(g, last, fit) ==
    [fit |-> fit, tiers |-> Len(last), complete |-> FullTier(g).out, twin |-> Twin(last),
     vouched |-> WithinMargin(g, fit.out)]

Climbing(g, last) == Laddered(g, last, FitInked(g, last))

Ladder(g) ==
    IF HasInk(g) THEN Climbing(g, LastPool(g, FirstPool(g)))
    ELSE [fit |-> ZeroInk, tiers |-> 0, complete |-> NoFit, twin |-> FALSE, vouched |-> TRUE]

-----------------------------------------------------------------------------

Ended == {"dead", "wall", "fitting", "low", "formed"}

Running(a) == {g \in InFamily : pc[a][g] \in {"load", "stale", "fit", "open", "write", "replace"}}

Settled == {"done", "walled", "failed"}

Init ==
    /\ family \in Families
    /\ ladder = [g \in Range(family) |-> Ladder(g)]
    /\ confident = Confident([g \in Range(family) |-> ladder[g].fit])
    /\ release = 1
    /\ state = [a \in Attempts |-> "idle"]
    /\ version = [a \in Attempts |-> 0]
    /\ late = [a \in Attempts |-> FALSE]
    /\ pc = [a \in Attempts |-> [g \in Glyphs |-> "none"]]
    /\ tiers = [a \in Attempts |-> [g \in Glyphs |-> 0]]
    /\ fd = [a \in Attempts |-> [g \in Glyphs |-> NoFile]]
    /\ got = [a \in Attempts |-> [g \in Glyphs |-> 0]]
    /\ final = [g \in Glyphs |-> NoFile]
    /\ tmp = [g \in Glyphs |-> NoFile]
    /\ content = [g \in Glyphs |-> [f \in Attempts |-> 0]]
    /\ banked = [g \in Glyphs |-> 0]
    /\ overlapped = FALSE

\* The job is claimed: for the first time, or again after a crash or a lost lease.
Start(a) ==
    /\ state[a] = "idle"
    /\ \A b \in Attempts : b < a => state[b] \in {"forming", "dead"}
    /\ state' = [state EXCEPT ![a] = "forming"]
    /\ version' = [version EXCEPT ![a] = release]
    /\ pc' = [pc EXCEPT ![a] = [g \in Glyphs |-> IF g \in InFamily THEN "todo" ELSE "none"]]
    /\ overlapped' = (overlapped \/ \E b \in Attempts : state[b] = "forming")
    /\ UNCHANGED <<style, release, late, tiers, fd, got, files, banked>>

\* Time passes the deadline of an attempt.
Expire(a) ==
    /\ state[a] = "forming" /\ ~late[a]
    /\ late' = [late EXCEPT ![a] = TRUE]
    /\ UNCHANGED <<style, release, state, version, tasks, files, history>>

\* The tasks of the attempts that end.
Cleared(of, to) ==
    [a \in Attempts |-> IF state[a] = "forming" THEN [g \in Glyphs |-> to] ELSE of[a]]

\* Every thread ends where it is; the next process may run a later release.
Crash ==
    /\ \E a \in Attempts : state[a] = "forming"
    /\ \E a \in Attempts : state[a] = "idle"
    /\ state' = [a \in Attempts |-> IF state[a] = "forming" THEN "dead" ELSE state[a]]
    /\ release' \in {n \in {release, release + 1} : n <= MaxVersion}
    /\ pc' = Cleared(pc, "none")
    /\ tiers' = Cleared(tiers, 0)
    /\ fd' = Cleared(fd, NoFile)
    /\ got' = Cleared(got, 0)
    /\ late' = [a \in Attempts |-> late[a] /\ state[a] /= "forming"]
    /\ UNCHANGED <<style, version, files, history>>

-----------------------------------------------------------------------------
(* The task of a glyph *)

At(a, g, at) == state[a] = "forming" /\ pc[a][g] = at

Go(a, g, to) == pc' = [pc EXCEPT ![a][g] = to]

\* A worker takes the next task, which looks at the clock first.
Begin(a, g) ==
    /\ At(a, g, "todo")
    /\ Cardinality(Running(a)) < Workers
    /\ \A i, j \in DOMAIN family : family[j] = g /\ i < j => pc[a][family[i]] /= "todo"
    /\ Go(a, g, IF late[a] THEN "walled" ELSE "load")
    /\ UNCHANGED <<style, release, attempts, tiers, fd, got, files, history>>

\* The slip of Valid: the identity of the checkpoint is not compared.
Valid_Fault(a, g) == content[g][final[g]] /= 0

\* GlyphCheckpointStore.load: only a whole checkpoint of the same identity is a hit.
Valid(a, g) == content[g][final[g]] = version[a]

Load(a, g) ==
    /\ At(a, g, "load")
    /\ IF final[g] = NoFile THEN Go(a, g, "fit") /\ UNCHANGED got
       ELSE IF Valid(a, g)
       THEN /\ Go(a, g, "done")
            /\ got' = [got EXCEPT ![a][g] = content[g][final[g]]]
       ELSE Go(a, g, "stale") /\ UNCHANGED got
    /\ UNCHANGED <<style, release, attempts, tiers, fd, files, history>>

\* The slip of Discard: a file that cannot be read is left, and asked for again.
Discard_Fault(a, g) ==
    /\ At(a, g, "stale")
    /\ Go(a, g, "load")
    /\ UNCHANGED <<style, release, attempts, tiers, fd, got, files, history>>

\* Whatever is under the name by now is removed.
Discard(a, g) ==
    /\ At(a, g, "stale")
    /\ final' = [final EXCEPT ![g] = NoFile]
    /\ Go(a, g, "fit")
    /\ UNCHANGED <<style, release, attempts, tiers, fd, got, tmp, content, history>>

\* _check_wall_limit, and a tier of the ladder.
Tier(a, g) ==
    /\ At(a, g, "fit") /\ tiers[a][g] < ladder[g].tiers
    /\ IF late[a] THEN Go(a, g, "walled") /\ UNCHANGED tiers
       ELSE tiers' = [tiers EXCEPT ![a][g] = @ + 1] /\ UNCHANGED pc
    /\ UNCHANGED <<style, release, attempts, fd, got, files, history>>

\* The rerank publishes an outline or raises BALANCED_RERANK_TOP1_REJECTED.
Rerank(a, g) ==
    /\ At(a, g, "fit") /\ tiers[a][g] = ladder[g].tiers
    /\ Go(a, g, IF ladder[g].fit.ok THEN "open" ELSE "failed")
    /\ got' = [got EXCEPT ![a][g] = IF ladder[g].fit.ok THEN version[a] ELSE 0]
    /\ tiers' = [tiers EXCEPT ![a][g] = 0]
    /\ UNCHANGED <<style, release, attempts, fd, files, history>>

\* GlyphCheckpointStore.save opens the one temporary name of the glyph, which empties it,
OpenTmp(a, g) ==
    LET file == IF tmp[g] = NoFile THEN a ELSE tmp[g]
    IN  /\ At(a, g, "open")
        /\ tmp' = [tmp EXCEPT ![g] = file]
        /\ fd' = [fd EXCEPT ![a][g] = file]
        /\ content' = [content EXCEPT ![g][file] = 0]
        /\ Go(a, g, "write")
        /\ UNCHANGED <<style, release, attempts, tiers, got, final, history>>

\* writes the file it has open, wherever that is by now,
WriteTmp(a, g) ==
    /\ At(a, g, "write")
    /\ content' = [content EXCEPT ![g][fd[a][g]] = version[a]]
    /\ Go(a, g, "replace")
    /\ UNCHANGED <<style, release, attempts, tiers, fd, got, final, tmp, history>>

\* The slip of Replace: the file keeps its temporary name.
Replace_Fault(a, g) ==
    /\ At(a, g, "replace")
    /\ banked' = [banked EXCEPT ![g] = version[a]]
    /\ Go(a, g, "done")
    /\ fd' = [fd EXCEPT ![a][g] = NoFile]
    /\ UNCHANGED <<style, release, attempts, tiers, got, files, overlapped>>

\* and moves what is under the temporary name: nothing is, if the other attempt has moved it.
Replace(a, g) ==
    /\ At(a, g, "replace")
    /\ IF tmp[g] = NoFile
       THEN Go(a, g, "failed") /\ UNCHANGED <<final, banked>>
       ELSE /\ final' = [final EXCEPT ![g] = tmp[g]]
            /\ banked' = [banked EXCEPT ![g] = version[a]]
            /\ Go(a, g, "done")
    /\ tmp' = [tmp EXCEPT ![g] = NoFile]
    /\ fd' = [fd EXCEPT ![a][g] = NoFile]
    /\ UNCHANGED <<style, release, attempts, tiers, got, content, overlapped>>

-----------------------------------------------------------------------------
(* form_model: the pool waits for every task; the first that failed, in order, is raised. *)

FirstFault(a) ==
    LET bad == {i \in DOMAIN family : pc[a][family[i]] \in {"walled", "failed"}}
    IN  IF bad = {} THEN "" ELSE pc[a][family[Min(bad)]]

Outcome(a) ==
    CASE FirstFault(a) = "walled" -> "wall"
      [] FirstFault(a) = "failed" -> "fitting"
      [] OTHER -> IF confident THEN "formed" ELSE "low"

Collect(a) ==
    /\ state[a] = "forming"
    /\ \A g \in InFamily : pc[a][g] \in Settled
    /\ state' = [state EXCEPT ![a] = Outcome(a)]
    /\ UNCHANGED <<style, release, version, late, tasks, files, history>>

\* An attempt has returned to the runner, or none is left.
Finished ==
    /\ \A a \in Attempts : state[a] = "idle" \/ state[a] \in Ended
    /\ \E a \in Attempts : state[a] \in Ended \ {"dead"} \/ (state[a] = "dead" /\ a = Max(Attempts))
    /\ UNCHANGED vars

Task(a, g) ==
    \/ Begin(a, g) \/ Load(a, g) \/ Discard(a, g) \/ Tier(a, g) \/ Rerank(a, g)
    \/ OpenTmp(a, g) \/ WriteTmp(a, g) \/ Replace(a, g)

Next ==
    \/ \E a \in Attempts : Start(a) \/ Expire(a) \/ Collect(a)
    \/ \E a \in Attempts, g \in Glyphs : Task(a, g)
    \/ Crash
    \/ Finished

\* The threads of an attempt are scheduled.
Fairness == \A a \in Attempts : WF_vars(Collect(a) \/ \E g \in Glyphs : Task(a, g))

Spec == Init /\ [][Next]_vars /\ Fairness

-----------------------------------------------------------------------------

\* Resuming, a crash in the middle of a save, a new release and a second attempt on the same
\* directory never change what is formed: every outline of a formed model is the one the ladder
\* of the attempt's own release gives for the sealed rasters.  (GlyphCheckpointStore.load.)
FormedIsFresh ==
    \A a \in Attempts : state[a] = "formed" => \A g \in InFamily : got[a][g] = version[a]

\* A hard glyph of a formed model carries the outline fitted to all its rasters, unless an earlier
\* tier had come to the same one; an easy glyph has been vouched for by all its rasters, however few
\* it was fitted to.  (rerank_pool, the accept margin.)
Vouched ==
    \A a \in Attempts : state[a] = "formed" => \A g \in InFamily :
        IF ladder[g].fit.class = "HARD" THEN ladder[g].fit.out = ladder[g].complete \/ ladder[g].twin
        ELSE ladder[g].vouched

\* Unless attempts overlapped, a glyph whose checkpoint is in place is not fitted again by the
\* same release: an attempt after a crash only pays for the glyphs the crash interrupted.
NothingRefitted ==
    [][\A a \in Attempts, g \in Glyphs :
         pc[a][g] = "load" /\ pc'[a][g] \in {"fit", "stale"} /\ banked[g] = version[a] => overlapped]_vars

\* The calls of every attempt end: the first failure waits for the tasks behind it, not for ever.
FormationEnds == \A a \in Attempts : state[a] = "forming" ~> state[a] \in Ended
=============================================================================
