---------------------------- MODULE GlyphSearchProofs ----------------------------
(***************************************************************************)
(* What holds of forming a model for every style, number of attempts,      *)
(* workers and releases, and for every outcome of the numeric fit: what is *)
(* formed is the ladder's own outline for the release of the attempt, a    *)
(* glyph that is banked is not fitted again, and the outline published was *)
(* fitted to, or vouched for by, all the rasters of its glyph.             *)
(***************************************************************************)
EXTENDS GlyphSearch, FiniteSetTheorems, WellFoundedInduction, TLAPS

-----------------------------------------------------------------------------
(* The inductive invariant *)

Stages == {"none", "todo", "load", "stale", "fit", "open", "write", "replace"} \cup Settled

TypeOK ==
    /\ family \in Families /\ release \in Nat \ {0} /\ overlapped \in BOOLEAN
    /\ state \in [Attempts -> {"idle", "forming"} \cup Ended]
    /\ version \in [Attempts -> Nat] /\ late \in [Attempts -> BOOLEAN]
    /\ pc \in [Attempts -> [Glyphs -> Stages]] /\ tiers \in [Attempts -> [Glyphs -> Nat]]
    /\ fd \in [Attempts -> [Glyphs -> Files]] /\ got \in [Attempts -> [Glyphs -> Nat]]
    /\ final \in [Glyphs -> Files] /\ tmp \in [Glyphs -> Files]
    /\ content \in [Glyphs -> [Attempts -> Nat]] /\ banked \in [Glyphs -> Nat]

\* An outline has been published for the task, by this attempt or by the one that banked it.
Fitted == {"open", "write", "replace", "done"}

\* Only an outline the ladder publishes is ever written, and a task has the one of its release.
LadderOK == ladder = [g \in InFamily |-> Ladder(g)]

WrittenOK == \A g \in Glyphs, f \in Attempts : content[g][f] /= 0 => g \in InFamily /\ ladder[g].fit.ok

TaskOK(a, g) ==
    /\ pc[a][g] /= "none" => g \in InFamily
    /\ pc[a][g] \in Fitted => ladder[g].fit.ok /\ got[a][g] = version[a]

AttemptOK(a) ==
    /\ state[a] = "forming" => version[a] = release
    /\ state[a] = "formed" => \A g \in InFamily : pc[a][g] = "done"

FreshOK ==
    /\ LadderOK /\ WrittenOK
    /\ \A a \in Attempts, g \in Glyphs : TaskOK(a, g)
    /\ \A a \in Attempts : AttemptOK(a)

\* The last checkpoint put in place is there and whole, or of an earlier release.
BankedOK(g) ==
    /\ banked[g] <= release
    /\ banked[g] < release \/ (final[g] \in Attempts /\ content[g][final[g]] = banked[g])

\* The files of a glyph, as the task of the attempt that is forming leaves them.
FilesOK(a, g) ==
    /\ pc[a][g] \in {"none", "todo", "load", "stale", "fit", "open"} => a \notin {final[g], tmp[g]}
    /\ pc[a][g] \in {"write", "replace"} => fd[a][g] = tmp[g] /\ tmp[g] /= NoFile
    /\ pc[a][g] = "replace" => content[g][tmp[g]] = version[a]
    /\ pc[a][g] \in {"stale", "fit", "open", "write", "replace"} => banked[g] < release

\* As long as attempts do not overlap, one at most is forming, and no file has both names.
AloneOK ==
    /\ \A a, b \in Attempts : state[a] = "forming" /\ state[b] = "forming" => a = b
    /\ \A g \in Glyphs : BankedOK(g) /\ (tmp[g] = NoFile \/ tmp[g] /= final[g])
    /\ \A a \in Attempts, g \in Glyphs : state[a] = "idle" => a \notin {final[g], tmp[g]}
    /\ \A a \in Attempts, g \in Glyphs : state[a] = "forming" => FilesOK(a, g)

IInv == TypeOK /\ FreshOK /\ (overlapped \/ AloneOK)

-----------------------------------------------------------------------------
(* Numbers and sequences *)

UpTo(S, i) == {h \in S : h <= i}

LEMMA Smaller ==
    ASSUME NEW A, NEW B, NEW x, A \subseteq Nat, B \subseteq Nat, A \subseteq B, x \in B, x \notin A
    PROVE  <<A, B>> \in StrictSubsetOrdering(Nat)
<1>1. <<A, B>> \in (SUBSET Nat) \X (SUBSET Nat)
  OBVIOUS
<1>2. A # B
  OBVIOUS
<1> QED
  BY <1>1, <1>2, Zenon DEF StrictSubsetOrdering

LEMMA Least ==
    ASSUME NEW S, S \subseteq Nat, S # {}
    PROVE  \E i \in S : \A h \in S : i <= h
<1> DEFINE T == {UpTo(S, i) : i \in S}
<1>1. T \subseteq FiniteSubsetsOf(Nat)
  <2>1. ASSUME NEW i \in S PROVE UpTo(S, i) \subseteq Nat /\ IsFiniteSet(UpTo(S, i))
    <3>1. UpTo(S, i) \in SUBSET Nat /\ i \in Nat /\ \A h \in UpTo(S, i) : h <= i
      BY Zenon DEF UpTo
    <3> QED
      BY <3>1, FS_BoundedSetOfNaturals, Zenon
  <2> QED
    BY <2>1, Zenon DEF FiniteSubsetsOf
<1>2. T # {}
  BY Zenon
<1>3. \E x \in T : \A y \in T : ~(<<y, x>> \in StrictSubsetOrdering(Nat))
  <2>1. IsWellFoundedOn(StrictSubsetOrdering(Nat), FiniteSubsetsOf(Nat))
    BY FS_StrictSubsetOrderingWellFounded
  <2> HIDE DEF T
  <2> QED
    BY <1>1, <1>2, <2>1, WFMin, Zenon
<1>4. PICK i \in S : \A h \in S : ~(<<UpTo(S, h), UpTo(S, i)>> \in StrictSubsetOrdering(Nat))
  BY <1>3, Zenon
<1>5. ASSUME NEW h \in S PROVE i <= h
  <2>1. SUFFICES ASSUME h < i PROVE FALSE
    OBVIOUS
  <2>2. UpTo(S, h) \subseteq UpTo(S, i) /\ i \in UpTo(S, i) /\ i \notin UpTo(S, h)
    <3>1. i \in Nat /\ h \in Nat
      BY Zenon
    <3>2. ASSUME NEW g \in Nat, g <= h PROVE g <= i
      BY <2>1, <3>1, <3>2
    <3>3. i <= i /\ ~(i <= h)
      BY <2>1, <3>1
    <3> QED
      BY <3>2, <3>3, Zenon DEF UpTo
  <2>3. UpTo(S, h) \subseteq Nat /\ UpTo(S, i) \subseteq Nat
    BY Zenon DEF UpTo
  <2>4. <<UpTo(S, h), UpTo(S, i)>> \in StrictSubsetOrdering(Nat)
    BY <2>2, <2>3, Smaller
  <2> QED
    BY <2>4, <1>4
<1> QED
  BY <1>5

LEMMA AppendOwn ==
    ASSUME NEW s, s \in Seq(Range(s)), NEW e
    PROVE  /\ Append(s, e) \in Seq(Range(Append(s, e)))
           /\ Len(Append(s, e)) = Len(s) + 1 /\ Len(s) \in Nat
           /\ DOMAIN Append(s, e) = 1..Len(s) + 1 /\ DOMAIN s = 1..Len(s)
           /\ \A i \in 1..Len(s) : Append(s, e)[i] = s[i]
           /\ Append(s, e)[Len(s) + 1] = e
<1> DEFINE T == Range(s) \cup {e}
           a == Append(s, e)
<1>1. s \in Seq(T)
  OBVIOUS
<1> HIDE DEF T
<1>2. a \in Seq(T) /\ Len(a) = Len(s) + 1 /\ DOMAIN a = 1..Len(s) + 1
      /\ (\A i \in 1..Len(s) : a[i] = s[i]) /\ a[Len(s) + 1] = e /\ Len(s) \in Nat /\ DOMAIN s = 1..Len(s)
  BY <1>1 DEF T
<1> HIDE DEF a
<1>3. a \in Seq(Range(a))
  BY <1>2 DEF Range
<1> QED
  BY <1>2, <1>3 DEF a

-----------------------------------------------------------------------------
(* The ladder *)

\* A pool of tiers: what is called FULL_SET is the fit to all rasters, and more than one tier ends in it.
Pool(g, pool) ==
    /\ pool \in Seq(Range(pool)) /\ Len(pool) \in Nat \ {0}
    /\ \A i \in 1..Len(pool) : pool[i].name = "FULL_SET" => pool[i].out = FullTier(g).out
    /\ Len(pool) = 1 => pool[1].name /= "FULL_SET"
    /\ Len(pool) > 1 => pool[Len(pool)].name = "FULL_SET"

\* A tier is known by its name.
LEMMA TierNamed ==
    ASSUME NEW name, NEW g, NEW strokes, NEW obs
    PROVE  RunTier(name, g, strokes, obs).name = name
  BY DEF RunTier, TierResult

\* A tier that is climbed changes no tier before it, and is not the one of all rasters.
LEMMA Climbs ==
    ASSUME NEW g, NEW pool, NEW name, NEW obs, name /= "FULL_SET",
           pool \in Seq(Range(pool)), Len(pool) \in Nat \ {0},
           \A i \in 1..Len(pool) : pool[i].name = "FULL_SET" => pool[i].out = FullTier(g).out
    PROVE  /\ Climb(pool, name, g, obs) \in Seq(Range(Climb(pool, name, g, obs)))
           /\ Len(Climb(pool, name, g, obs)) \in Nat \ {0}
           /\ \A i \in 1..Len(Climb(pool, name, g, obs)) :
                Climb(pool, name, g, obs)[i].name = "FULL_SET" =>
                    Climb(pool, name, g, obs)[i].out = FullTier(g).out
<1>1. CASE obs = {}
  BY <1>1 DEF Climb
<1>2. CASE obs /= {}
  <2>1. PICK tier : tier = RunTier(name, g, Last(pool).out.strokes, obs)
    OBVIOUS
  <2>2. tier.name /= "FULL_SET"
    BY <2>1, TierNamed
  <2>3. Climb(pool, name, g, obs) = Append(pool, tier)
    BY <1>2, <2>1 DEF Climb
  <2>4. \A i \in 1..Len(pool) + 1 : i \in 1..Len(pool) \/ i = Len(pool) + 1
    OBVIOUS
  <2>5. PICK longer : longer = Append(pool, tier)
    OBVIOUS
  <2>6. /\ longer \in Seq(Range(longer)) /\ Len(longer) = Len(pool) + 1 /\ longer[Len(pool) + 1] = tier
        /\ \A i \in 1..Len(pool) : longer[i] = pool[i]
    BY <2>5, AppendOwn
  <2>7. Len(longer) \in Nat \ {0}
    BY <2>6
  <2>8. \A i \in 1..Len(longer) : longer[i].name = "FULL_SET" => longer[i].out = FullTier(g).out
    BY <2>2, <2>4, <2>6, Zenon
  <2> QED
    BY <2>3, <2>5, <2>6, <2>7, <2>8, Zenon
<1> QED
  BY <1>1, <1>2

\* The whole ladder ends in the tier of all rasters.
LEMMA Expanded ==
    ASSUME NEW g, NEW pool, Pool(g, pool)
    PROVE  Pool(g, Expand(g, pool)) /\ Len(Expand(g, pool)) /= 1
<1>1. PICK base : base = Climb(pool, "HARD_4X4", g, TierObservations(g, CoreResolutions, BasePhases))
  OBVIOUS
<1>2. PICK more : more = Climb(base, "HARD_8X8", g, TierObservations(g, CoreResolutions, ExpandedPhases))
  OBVIOUS
<1>3. Expand(g, pool) = Append(more, FullTier(g))
  BY <1>1, <1>2, Zenon DEF Expand
<1>4. /\ base \in Seq(Range(base)) /\ Len(base) \in Nat \ {0}
      /\ \A i \in 1..Len(base) : base[i].name = "FULL_SET" => base[i].out = FullTier(g).out
  BY <1>1, Climbs DEF Pool
<1>5. /\ more \in Seq(Range(more)) /\ Len(more) \in Nat \ {0}
      /\ \A i \in 1..Len(more) : more[i].name = "FULL_SET" => more[i].out = FullTier(g).out
  BY <1>2, <1>4, Climbs
<1>6. PICK full, all : full = FullTier(g) /\ all = Append(more, full)
  OBVIOUS
<1>7. full.name = "FULL_SET"
  BY <1>6, TierNamed DEF FullTier
<1>8. /\ all \in Seq(Range(all)) /\ Len(all) = Len(more) + 1 /\ all[Len(more) + 1] = full
      /\ \A i \in 1..Len(more) : all[i] = more[i]
  BY <1>5, <1>6, AppendOwn
<1>9. Len(all) \in Nat \ {0} /\ Len(all) > 1 /\ Len(all) /= 1
  BY <1>5, <1>8
<1>10. \A i \in 1..Len(all) : i \in 1..Len(more) \/ i = Len(more) + 1
  BY <1>5, <1>8
<1>11. \A i \in 1..Len(all) : all[i].name = "FULL_SET" => all[i].out = FullTier(g).out
  BY <1>5, <1>6, <1>8, <1>10, Zenon
<1>12. all[Len(all)].name = "FULL_SET"
  BY <1>7, <1>8, Zenon
<1>13. Pool(g, all) /\ Len(all) /= 1
  BY <1>8, <1>9, <1>11, <1>12, Zenon DEF Pool
<1> QED
  BY <1>3, <1>6, <1>13, Zenon

LEMMA FirstIsPool ==
    ASSUME NEW g
    PROVE  Pool(g, FirstPool(g))
<1>1. PICK core : core = CoreTier(g)
  OBVIOUS
<1>2. core.name = "CORE"
  BY <1>1, TierNamed, Zenon DEF CoreTier
<1>3. Pool(g, <<core>>)
  <2>1. <<core>> \in Seq({core}) /\ Len(<<core>>) = 1 /\ <<core>>[1] = core
    OBVIOUS
  <2>2. Range(<<core>>) = {core}
    BY DEF Range
  <2>3. \A i \in 1..Len(<<core>>) : <<core>>[i] = core
    BY <2>1
  <2>4. Len(<<core>>) \in Nat \ {0} /\ ~(Len(<<core>>) > 1)
    BY <2>1
  <2>5. core.name /= "FULL_SET"
    BY <1>2
  <2> QED
    BY <2>1, <2>2, <2>3, <2>4, <2>5, Zenon DEF Pool
<1>4. Pool(g, Expand(g, <<core>>))
  BY <1>3, Expanded
<1>5. FirstPool(g) \in {Expand(g, <<core>>), <<core>>}
  BY <1>1, Zenon DEF FirstPool, Climbed
<1> QED
  BY <1>3, <1>4, <1>5, Zenon

LEMMA LastIsPool ==
    ASSUME NEW g
    PROVE  Pool(g, LastPool(g, FirstPool(g)))
<1>1. PICK first : first = FirstPool(g)
  OBVIOUS
<1>2. Pool(g, first)
  BY <1>1, FirstIsPool
<1>3. Pool(g, Expand(g, first))
  BY <1>2, Expanded
<1>4. LastPool(g, first) \in {Expand(g, first), first}
  BY Zenon DEF LastPool
<1> QED
  BY <1>1, <1>2, <1>3, <1>4, Zenon

\* The last tier is kept by the rerank; it stays unless an earlier one came to its outline.
LEMMA LastStays ==
    ASSUME NEW g, NEW pool, Pool(g, pool), Len(pool) > 1, ~Twin(pool)
    PROVE  Complete(pool) = {Len(pool)}
<1>1. PICK n : n = Len(pool)
  OBVIOUS
<1>2. n \in Nat /\ DOMAIN pool = 1..n /\ n \in DOMAIN pool /\ pool[n].name = "FULL_SET" /\ Last(pool) = pool[n]
  BY <1>1 DEF Pool, Last
<1>3. n \in Kept(pool) /\ Kept(pool) \subseteq DOMAIN pool
  BY <1>1, <1>2, Zenon DEF Kept
<1>4. \A j \in Kept(pool) : j < n => pool[j].out /= pool[n].out
  BY <1>1, <1>2, Zenon DEF Twin
<1>5. n \in Deduped(pool)
  BY <1>3, <1>4, Zenon DEF Deduped
<1>6. ASSUME NEW i \in Complete(pool) PROVE i = n
  <2>1. i \in Kept(pool) /\ i \in DOMAIN pool /\ pool[i].name = "FULL_SET"
    BY <1>3, Zenon DEF Complete, Deduped
  <2>2. pool[i].out = FullTier(g).out /\ pool[n].out = FullTier(g).out
    BY <1>1, <1>2, <2>1, Zenon DEF Pool
  <2>3. ~(i < n)
    BY <1>4, <2>1, <2>2, Zenon
  <2> QED
    BY <1>2, <2>1, <2>3
<1> QED
  BY <1>1, <1>2, <1>5, <1>6, Zenon DEF Complete

\* Then it is the one that wins.
LEMMA CompleteWins ==
    ASSUME NEW g, NEW pool, Pool(g, pool), Len(pool) > 1, ~Twin(pool)
    PROVE  pool[Winner(g, pool)].out = FullTier(g).out
<1>1. PICK n : n = Len(pool)
  OBVIOUS
<1>2. n \in Nat /\ n \in 1..Len(pool) /\ pool[n].name = "FULL_SET"
  BY <1>1 DEF Pool
<1>3. Eligible(pool) = {n}
  BY <1>1, LastStays, Zenon DEF Eligible
<1>4. n <= n
  BY <1>2
<1>5. \A j \in Eligible(pool) :
        \/ FullObjective(g, pool[n]) < FullObjective(g, pool[j])
        \/ FullObjective(g, pool[n]) = FullObjective(g, pool[j]) /\ n <= j
  BY <1>3, <1>4, Zenon
<1>6. Winner(g, pool) \in Eligible(pool)
  <2>1. n \in Eligible(pool)
    BY <1>3
  <2> QED
    BY <1>5, <2>1, Zenon DEF Winner
<1>7. Winner(g, pool) = n
  BY <1>3, <1>6
<1> QED
  BY <1>2, <1>7, Zenon DEF Pool

\* What a published outline rests on.
Backed(l) ==
    l.fit.ok => IF l.fit.class = "HARD" THEN l.fit.out = l.complete \/ l.twin ELSE l.vouched

\* Every outline the ladder publishes was fitted to all rasters, or is inside the margin on all of
\* them, or had a twin that was.  (_fit_glyph, rerank_pool.)
LEMMA LadderBacked ==
    ASSUME NEW g
    PROVE  Backed(Ladder(g))
<1>1. CASE ~HasInk(g)
  BY <1>1, Zenon DEF Ladder, Backed, ZeroInk
<1>2. CASE HasInk(g)
  <2>1. PICK last : last = LastPool(g, FirstPool(g))
    OBVIOUS
  <2>2. Pool(g, last)
    BY <2>1, LastIsPool
  <2>3. PICK fit : fit = FitInked(g, last)
    OBVIOUS
  <2>4. PICK l : l = Ladder(g)
    OBVIOUS
  <2>5. /\ l.fit = fit /\ l.complete = FullTier(g).out /\ l.twin = Twin(last)
        /\ l.vouched = WithinMargin(g, fit.out)
    BY <1>2, <2>1, <2>3, <2>4, Zenon DEF Ladder, Climbing, Laddered
  <2>6. ASSUME fit.ok PROVE Top1Accepts(g, last)
    BY <2>3, <2>6, Zenon DEF FitInked, Rejected
  <2>7. ASSUME Top1Accepts(g, last)
        PROVE  /\ fit.out = last[Winner(g, last)].out
               /\ fit.class = IF Len(last) = 1 THEN "EASY" ELSE "HARD"
    BY <2>3, <2>7, Zenon DEF FitInked, Published
  <2>8. CASE fit.ok /\ Len(last) = 1
    <3>1. fit.class /= "HARD" /\ fit.out = last[Winner(g, last)].out
      BY <2>6, <2>7, <2>8
    <3>2. Complete(last) = {}
      <4>1. DOMAIN last = 1..1 /\ last[1].name /= "FULL_SET"
        BY <2>2, <2>8 DEF Pool
      <4>2. \A i \in 1..1 : i = 1
        OBVIOUS
      <4>3. Complete(last) \subseteq DOMAIN last
        BY Zenon DEF Complete, Deduped, Kept
      <4> QED
        BY <4>1, <4>2, <4>3, Zenon DEF Complete
    <3>3. PICK first : first = FirstPool(g)
      OBVIOUS
    <3>4. last = first
      <4>2. Len(Expand(g, first)) /= 1
        BY <3>3, FirstIsPool, Expanded, Zenon
      <4>3. LastPool(g, first) \in {Expand(g, first), first}
        BY Zenon DEF LastPool
      <4> QED
        BY <2>1, <2>8, <3>3, <4>2, <4>3, Zenon
    <3>5. WithinMargin(g, last[Winner(g, last)].out)
      <4>1. LastPool(g, last) /= Expand(g, last)
        <5>2. Len(Expand(g, last)) /= 1
          BY <2>2, Expanded, Zenon
        <5> QED
          BY <2>1, <2>8, <3>3, <3>4, <5>2, Zenon
      <4> QED
        BY <2>6, <2>8, <3>2, <4>1, Zenon DEF LastPool
    <3> QED
      BY <2>4, <2>5, <3>1, <3>5, Zenon DEF Backed
  <2>9. CASE fit.ok /\ Len(last) /= 1
    <3>1. Len(last) > 1
      <4>1. \A n \in Nat \ {0} : n /= 1 => n > 1
        OBVIOUS
      <4> QED
        BY <2>2, <2>9, <4>1, Zenon DEF Pool
    <3>2. fit.class = "HARD" /\ fit.out = last[Winner(g, last)].out
      BY <2>6, <2>7, <2>9, Zenon
    <3>3. ~Twin(last) => fit.out = FullTier(g).out
      BY <2>2, <3>1, <3>2, CompleteWins, Zenon
    <3> QED
      BY <2>4, <2>5, <3>2, <3>3, Zenon DEF Backed
  <2> QED
    BY <2>4, <2>5, <2>8, <2>9, Zenon DEF Backed
<1> QED
  BY <1>1, <1>2

-----------------------------------------------------------------------------
(* The types *)

LEMMA TypeStart ==
    ASSUME TypeOK, NEW a \in Attempts, Start(a)
    PROVE  TypeOK'
<1>1. pc' \in [Attempts -> [Glyphs -> Stages]]
  BY DEF TypeOK, Start, Stages, Settled
<1>2. /\ state' \in [Attempts -> {"idle", "forming"} \cup Ended] /\ version' \in [Attempts -> Nat]
      /\ overlapped' \in BOOLEAN
  BY DEF TypeOK, Start
<1> QED
  BY <1>1, <1>2 DEF TypeOK, Start, style, files

LEMMA TypeExpire ==
    ASSUME TypeOK, NEW a \in Attempts, Expire(a)
    PROVE  TypeOK'
  BY DEF TypeOK, Expire, style, files, tasks, history

LEMMA TypeCollect ==
    ASSUME TypeOK, NEW a \in Attempts, Collect(a)
    PROVE  TypeOK'
<1>1. Outcome(a) \in Ended
  BY Zenon DEF Outcome, Ended
<1> QED
  BY <1>1 DEF TypeOK, Collect, style, files, tasks, history

LEMMA ClearedType ==
    ASSUME TypeOK, NEW V, NEW of \in [Attempts -> [Glyphs -> V]], NEW to \in V
    PROVE  Cleared(of, to) \in [Attempts -> [Glyphs -> V]]
  BY DEF Cleared

LEMMA TypeCrash ==
    ASSUME TypeOK, Crash
    PROVE  TypeOK'
<1>1. pc' \in [Attempts -> [Glyphs -> Stages]]
  <2>1. "none" \in Stages
    BY DEF Stages
  <2> QED
    BY <2>1, ClearedType, Zenon DEF TypeOK, Crash
<1>2. /\ tiers' \in [Attempts -> [Glyphs -> Nat]] /\ got' \in [Attempts -> [Glyphs -> Nat]]
      /\ fd' \in [Attempts -> [Glyphs -> Files]]
  <2>1. NoFile \in Files /\ 0 \in Nat
    BY DEF Files
  <2> QED
    BY <2>1, ClearedType, Zenon DEF TypeOK, Crash
<1>3. release' \in Nat \ {0}
  BY DEF TypeOK, Crash
<1>4. state' \in [Attempts -> {"idle", "forming"} \cup Ended] /\ late' \in [Attempts -> BOOLEAN]
  BY DEF TypeOK, Crash, Ended
<1> QED
  BY <1>1, <1>2, <1>3, <1>4 DEF TypeOK, Crash, style, files, history

LEMMA GoType ==
    ASSUME TypeOK, NEW a \in Attempts, NEW g \in Glyphs, NEW to \in Stages, Go(a, g, to)
    PROVE  /\ pc' \in [Attempts -> [Glyphs -> Stages]]
           /\ pc'[a][g] = to
           /\ \A b \in Attempts, h \in Glyphs : b /= a \/ h /= g => pc'[b][h] = pc[b][h]
  BY DEF TypeOK, Go

\* A step of a task is a step of an attempt that is forming, to another stage.
LEMMA TypeTask ==
    ASSUME TypeOK, NEW a \in Attempts, NEW g \in Glyphs, Task(a, g)
    PROVE  TypeOK'
<1> USE DEF style, attempts, files, history
<1>0. \A to \in {"none", "todo", "load", "stale", "fit", "open", "write", "replace", "done", "walled", "failed"} :
          to \in Stages
  BY DEF Stages, Settled
<1>1. CASE Begin(a, g)
  BY <1>0, <1>1, GoType DEF TypeOK, Begin
<1>2. CASE Load(a, g)
  <2>1. pc' \in [Attempts -> [Glyphs -> Stages]]
    BY <1>0, <1>2, GoType, Zenon DEF Load
  <2>2. got' \in [Attempts -> [Glyphs -> Nat]]
    <3>1. CASE final[g] /= NoFile
      <4>1. content[g][final[g]] \in Nat
        BY <3>1 DEF TypeOK, Files
      <4>2. [got EXCEPT ![a][g] = content[g][final[g]]] \in [Attempts -> [Glyphs -> Nat]]
        BY <4>1 DEF TypeOK
      <4> QED
        BY <1>2, <3>1, <4>2, Zenon DEF TypeOK, Load
    <3>2. CASE final[g] = NoFile
      BY <1>2, <3>2, Zenon DEF TypeOK, Load
    <3> QED
      BY <3>1, <3>2
  <2> QED
    BY <1>2, <2>1, <2>2, Zenon DEF TypeOK, Load
<1>3. CASE Discard(a, g)
  BY <1>0, <1>3, GoType DEF TypeOK, Discard, Files
<1>4. CASE Tier(a, g)
  <2>1. tiers[a][g] + 1 \in Nat
    BY DEF TypeOK
  <2>2. [tiers EXCEPT ![a][g] = @ + 1] \in [Attempts -> [Glyphs -> Nat]]
    BY <2>1 DEF TypeOK
  <2>3. CASE late[a]
    BY <1>0, <1>4, <2>3, GoType, Zenon DEF TypeOK, Tier
  <2>4. CASE ~late[a]
    BY <1>4, <2>2, <2>4, Zenon DEF TypeOK, Tier
  <2> QED
    BY <2>3, <2>4
<1>5. CASE Rerank(a, g)
  <2>1. pc' \in [Attempts -> [Glyphs -> Stages]]
    BY <1>0, <1>5, GoType, Zenon DEF Rerank
  <2>2. version[a] \in Nat /\ 0 \in Nat
    BY DEF TypeOK
  <2>3. got' \in [Attempts -> [Glyphs -> Nat]] /\ tiers' \in [Attempts -> [Glyphs -> Nat]]
    BY <1>5, <2>2 DEF TypeOK, Rerank
  <2> QED
    BY <1>5, <2>1, <2>3, Zenon DEF TypeOK, Rerank
<1>6. CASE OpenTmp(a, g)
  <2>1. PICK file : file = IF tmp[g] = NoFile THEN a ELSE tmp[g]
    OBVIOUS
  <2>2. file \in Attempts /\ file \in Files
    BY <2>1 DEF TypeOK, Files
  <2>3. /\ tmp' = [tmp EXCEPT ![g] = file] /\ fd' = [fd EXCEPT ![a][g] = file]
        /\ content' = [content EXCEPT ![g][file] = 0]
    BY <1>6, <2>1, Zenon DEF OpenTmp
  <2>4. /\ fd' \in [Attempts -> [Glyphs -> Files]] /\ tmp' \in [Glyphs -> Files]
        /\ content' \in [Glyphs -> [Attempts -> Nat]]
    BY <2>2, <2>3 DEF TypeOK
  <2>5. pc' \in [Attempts -> [Glyphs -> Stages]]
    BY <1>0, <1>6, GoType, Zenon DEF OpenTmp
  <2> QED
    BY <1>6, <2>4, <2>5, Zenon DEF TypeOK, OpenTmp
<1>7. CASE WriteTmp(a, g)
  <2>1. pc' \in [Attempts -> [Glyphs -> Stages]]
    BY <1>0, <1>7, GoType, Zenon DEF WriteTmp
  <2>2. content' \in [Glyphs -> [Attempts -> Nat]]
    BY <1>7 DEF TypeOK, WriteTmp
  <2> QED
    BY <1>7, <2>1, <2>2, Zenon DEF TypeOK, WriteTmp
<1>8. CASE Replace(a, g)
  <2>1. pc' \in [Attempts -> [Glyphs -> Stages]]
    BY <1>0, <1>8, GoType, Zenon DEF Replace
  <2>2. NoFile \in Files
    BY DEF Files
  <2>3. fd' \in [Attempts -> [Glyphs -> Files]]
    BY <1>8, <2>2 DEF TypeOK, Replace
  <2>4. final' \in [Glyphs -> Files] /\ tmp' \in [Glyphs -> Files] /\ banked' \in [Glyphs -> Nat]
    <3>1. CASE tmp[g] = NoFile
      BY <1>8, <2>2, <3>1 DEF TypeOK, Replace
    <3>2. CASE tmp[g] /= NoFile
      <4>1. /\ final' = [final EXCEPT ![g] = tmp[g]] /\ banked' = [banked EXCEPT ![g] = version[a]]
            /\ tmp' = [tmp EXCEPT ![g] = NoFile]
        BY <1>8, <3>2, Zenon DEF Replace
      <4> QED
        BY <2>2, <4>1 DEF TypeOK
    <3> QED
      BY <3>1, <3>2
  <2> QED
    BY <1>8, <2>1, <2>3, <2>4, Zenon DEF TypeOK, Replace
<1> QED
  BY <1>1, <1>2, <1>3, <1>4, <1>5, <1>6, <1>7, <1>8, Zenon DEF Task

LEMMA TypeStep ==
    ASSUME TypeOK, [Next]_vars
    PROVE  TypeOK'
<1>1. CASE vars' = vars
  BY <1>1 DEF vars, style, attempts, tasks, files, history, TypeOK
<1>2. CASE Finished
  BY <1>1, <1>2, Zenon DEF Finished
<1> QED
  BY <1>1, <1>2, TypeStart, TypeExpire, TypeCollect, TypeCrash, TypeTask, Zenon DEF Next

-----------------------------------------------------------------------------
(* What is written and what is formed *)

LEMMA FreshInit == Init => FreshOK
<1> SUFFICES ASSUME Init PROVE FreshOK
  OBVIOUS
<1>1. \A g \in Glyphs, f \in Attempts : content[g][f] = 0
  BY DEF Init
<1>2. \A a \in Attempts, g \in Glyphs : pc[a][g] = "none" /\ state[a] = "idle"
  BY DEF Init
<1>3. ladder = [g \in InFamily |-> Ladder(g)]
  BY Zenon DEF Init, InFamily
<1>4. "none" \notin Fitted
  BY DEF Fitted
<1>5. InFamily \subseteq Glyphs
  BY Zenon DEF Init, InFamily, Glyphs
<1>6. LadderOK /\ WrittenOK
  BY <1>1, <1>3, Zenon DEF LadderOK, WrittenOK
<1>7. \A a \in Attempts, g \in Glyphs : TaskOK(a, g)
  BY <1>2, <1>4, Zenon DEF TaskOK
<1>8. \A a \in Attempts : AttemptOK(a)
  <2>1. \A a \in Attempts : state[a] /= "forming" /\ state[a] /= "formed"
    <3>1. \A a \in Attempts : state[a] = "idle"
      BY DEF Init
    <3> QED
      BY <3>1
  <2> QED
    BY <2>1, Zenon DEF AttemptOK
<1> QED
  BY <1>6, <1>7, <1>8, Zenon DEF FreshOK

\* The first fault of an attempt is none, only if every task has its outline.
LEMMA NoFault ==
    ASSUME TypeOK, NEW a \in Attempts, Outcome(a) = "formed", \A g \in InFamily : pc[a][g] \in Settled
    PROVE  \A g \in InFamily : pc[a][g] = "done"
<1>1. PICK bad : bad = {i \in DOMAIN family : pc[a][family[i]] \in {"walled", "failed"}}
  OBVIOUS
<1>2. family \in Seq(InFamily)
  BY FamiliesAssumption, Zenon DEF TypeOK, InFamily
<1>3. bad \subseteq Nat
  BY <1>1, <1>2
<1>4. CASE bad /= {}
  <2>1. \E i \in bad : \A h \in bad : i <= h
    BY <1>3, <1>4, Least
  <2>2. Min(bad) \in bad
    BY <2>1, Zenon DEF Min
  <2>3. FirstFault(a) = pc[a][family[Min(bad)]]
    BY <1>1, <1>4, Zenon DEF FirstFault
  <2>4. FirstFault(a) \in {"walled", "failed"}
    BY <1>1, <2>2, <2>3, Zenon
  <2>5. Outcome(a) \in {"wall", "fitting"}
    BY <2>4, Zenon DEF Outcome
  <2> QED
    BY <2>5
<1>5. CASE bad = {}
  <2>1. ASSUME NEW g \in InFamily PROVE pc[a][g] = "done"
    <3>1. PICK i \in DOMAIN family : family[i] = g
      BY Zenon DEF InFamily, Range
    <3>2. pc[a][g] \notin {"walled", "failed"}
      BY <1>1, <1>5, <3>1, Zenon
    <3> QED
      BY <3>2 DEF Settled
  <2> QED
    BY <2>1
<1> QED
  BY <1>4, <1>5

LEMMA FreshStart ==
    ASSUME TypeOK, FreshOK, NEW a \in Attempts, Start(a)
    PROVE  FreshOK'
<1>1. UNCHANGED <<family, ladder, content, got, release>> /\ state[a] = "idle"
  BY DEF Start, style, files
<1>2. \A b \in Attempts : b /= a => state'[b] = state[b] /\ version'[b] = version[b] /\ pc'[b] = pc[b]
  BY DEF TypeOK, Start
<1>3. /\ state'[a] = "forming" /\ version'[a] = release
      /\ \A g \in Glyphs : pc'[a][g] = IF g \in InFamily THEN "todo" ELSE "none"
  BY DEF TypeOK, Start
<1>4. \A g \in Glyphs : pc'[a][g] \notin Fitted /\ (pc'[a][g] /= "none" => g \in InFamily)
  BY <1>3 DEF Fitted
<1>5. InFamily' = InFamily
  BY <1>1, Zenon DEF InFamily
<1>6. "forming" /= "formed"
  OBVIOUS
<1>7. ASSUME NEW b \in Attempts, NEW g \in Glyphs PROVE TaskOK(b, g)'
  <2>1. TaskOK(b, g)
    BY DEF FreshOK
  <2> QED
    BY <1>1, <1>2, <1>4, <1>5, <2>1 DEF TaskOK
<1>8. ASSUME NEW b \in Attempts PROVE AttemptOK(b)'
  <2>1. AttemptOK(b)
    BY DEF FreshOK
  <2> QED
    BY <1>1, <1>2, <1>3, <1>5, <1>6, <2>1 DEF AttemptOK
<1> QED
  BY <1>1, <1>5, <1>7, <1>8 DEF FreshOK, LadderOK, WrittenOK

LEMMA FreshExpire ==
    ASSUME FreshOK, NEW a \in Attempts, Expire(a)
    PROVE  FreshOK'
  BY DEF FreshOK, LadderOK, WrittenOK, TaskOK, AttemptOK, Expire, style, tasks, files, history, InFamily

LEMMA FreshCollect ==
    ASSUME TypeOK, FreshOK, NEW a \in Attempts, Collect(a)
    PROVE  FreshOK'
<1>1. UNCHANGED <<family, ladder, content, got, release, pc, version>>
  BY DEF Collect, style, files, tasks
<1>2. state' = [state EXCEPT ![a] = Outcome(a)] /\ \A g \in InFamily : pc[a][g] \in Settled
  BY Zenon DEF Collect
<1>3. \A b \in Attempts : state'[b] = IF b = a THEN Outcome(a) ELSE state[b]
  BY <1>2 DEF TypeOK
<1>4. Outcome(a) /= "forming"
  BY Zenon DEF Outcome
<1>5. Outcome(a) = "formed" => \A g \in InFamily : pc[a][g] = "done"
  BY <1>2, NoFault
<1>6. InFamily' = InFamily
  BY <1>1, Zenon DEF InFamily
<1>7. ASSUME NEW b \in Attempts PROVE AttemptOK(b)'
  <2>1. AttemptOK(b)
    BY DEF FreshOK
  <2> QED
    BY <1>1, <1>3, <1>4, <1>5, <1>6, <2>1 DEF AttemptOK
<1> QED
  BY <1>1, <1>6, <1>7 DEF FreshOK, LadderOK, WrittenOK, TaskOK

LEMMA FreshCrash ==
    ASSUME TypeOK, FreshOK, Crash
    PROVE  FreshOK'
<1>1. UNCHANGED <<family, ladder, content, version>>
  BY DEF Crash, style, files
<1>2. \A a \in Attempts : state'[a] = IF state[a] = "forming" THEN "dead" ELSE state[a]
  BY DEF TypeOK, Crash
<1>3. \A a \in Attempts : state'[a] /= "forming" /\ (state'[a] = "formed" => state[a] = "formed")
  BY <1>2
<1>4. \A a \in Attempts, g \in Glyphs :
        \/ state[a] /= "forming" /\ pc'[a][g] = pc[a][g] /\ got'[a][g] = got[a][g]
        \/ state[a] = "forming" /\ pc'[a][g] = "none"
  BY DEF TypeOK, Crash, Cleared
<1>5. InFamily' = InFamily /\ InFamily \subseteq Glyphs
  BY <1>1, Zenon DEF InFamily, TypeOK, Glyphs
<1>6. "none" \notin Fitted /\ "formed" /= "forming"
  BY DEF Fitted
<1>7. ASSUME NEW a \in Attempts, NEW g \in Glyphs PROVE TaskOK(a, g)'
  <2>1. TaskOK(a, g)
    BY DEF FreshOK
  <2> QED
    BY <1>1, <1>4, <1>5, <1>6, <2>1 DEF TaskOK
<1>8. ASSUME NEW a \in Attempts PROVE AttemptOK(a)'
  <2>1. AttemptOK(a)
    BY DEF FreshOK
  <2> QED
    BY <1>3, <1>4, <1>5, <1>6, <2>1 DEF AttemptOK
<1> QED
  BY <1>1, <1>5, <1>7, <1>8 DEF FreshOK, LadderOK, WrittenOK

\* The steps of a task: to a stage before the outline is there, or to one with it.
LEMMA FreshGo ==
    ASSUME TypeOK, FreshOK, NEW a \in Attempts, NEW g \in Glyphs, NEW to \in Stages, to /= "none",
           state[a] = "forming", pc[a][g] /= "none", Go(a, g, to),
           UNCHANGED <<family, ladder, release, state, version>>,
           \A h \in Glyphs, f \in Attempts : content'[h][f] /= 0 => h \in InFamily /\ ladder[h].fit.ok,
           \A b \in Attempts, h \in Glyphs : b /= a \/ h /= g => got'[b][h] = got[b][h],
           to \in Fitted => ladder[g].fit.ok /\ got'[a][g] = version[a]
    PROVE  FreshOK'
<1>1. /\ pc'[a][g] = to
      /\ \A b \in Attempts, h \in Glyphs : b /= a \/ h /= g => pc'[b][h] = pc[b][h]
  BY GoType, Zenon
<1>2. InFamily' = InFamily /\ InFamily \subseteq Glyphs
  BY Zenon DEF InFamily, TypeOK, Glyphs
<1>3. ASSUME NEW b \in Attempts, NEW h \in Glyphs PROVE TaskOK(b, h)'
  <2>1. TaskOK(b, h) /\ TaskOK(a, g)
    BY DEF FreshOK
  <2> QED
    BY <1>1, <1>2, <2>1 DEF TaskOK
<1>4. ASSUME NEW b \in Attempts PROVE AttemptOK(b)'
  <2>1. AttemptOK(b)
    BY DEF FreshOK
  <2>2. "formed" /= "forming"
    OBVIOUS
  <2> QED
    BY <1>1, <1>2, <2>1, <2>2 DEF AttemptOK
<1>5. WrittenOK'
  BY <1>2 DEF WrittenOK
<1> QED
  BY <1>2, <1>3, <1>4, <1>5 DEF FreshOK, LadderOK

LEMMA FreshTask ==
    ASSUME TypeOK, FreshOK, NEW a \in Attempts, NEW g \in Glyphs, Task(a, g)
    PROVE  FreshOK'
<1> USE DEF style, attempts, files, history
<1>0. \A to \in {"todo", "load", "stale", "fit", "open", "write", "replace", "done", "walled", "failed"} :
          to \in Stages /\ to /= "none"
  BY DEF Stages, Settled
<1>1. \A to \in {"todo", "load", "stale", "fit", "walled", "failed"} : to \notin Fitted
  BY DEF Fitted
<1>2. \A h \in Glyphs, f \in Attempts : content[h][f] /= 0 => h \in InFamily /\ ladder[h].fit.ok
  BY Zenon DEF FreshOK, WrittenOK
<1>3. CASE Begin(a, g)
  <2>1. PICK to \in {"walled", "load"} : Go(a, g, to)
    BY <1>3, Zenon DEF Begin
  <2>2. to \in Stages /\ to /= "none" /\ to \notin Fitted
    BY <1>0, <1>1
  <2> QED
    BY <1>2, <1>3, <2>1, <2>2, FreshGo, Zenon DEF Begin, At
<1>4. CASE Load(a, g)
  <2>1. CASE final[g] = NoFile
    BY <1>0, <1>1, <1>2, <1>4, <2>1, FreshGo, Zenon DEF Load, At
  <2>2. CASE final[g] /= NoFile /\ ~Valid(a, g)
    BY <1>0, <1>1, <1>2, <1>4, <2>2, FreshGo, Zenon DEF Load, At
  <2>3. CASE final[g] /= NoFile /\ Valid(a, g)
    <3>1. final[g] \in Attempts /\ version[a] /= 0
      <4>1. final[g] \in Attempts
        BY <2>3 DEF TypeOK, Files
      <4>2. version[a] = release /\ release /= 0
        BY <1>4 DEF FreshOK, AttemptOK, TypeOK, Load, At
      <4> QED
        BY <4>1, <4>2
    <3>2. content[g][final[g]] = version[a] /\ ladder[g].fit.ok
      BY <1>2, <2>3, <3>1, Zenon DEF Valid
    <3>3. got'[a][g] = version[a] /\ \A b \in Attempts, h \in Glyphs : b /= a \/ h /= g => got'[b][h] = got[b][h]
      <4>1. got' = [got EXCEPT ![a][g] = content[g][final[g]]]
        BY <1>4, <2>3, Zenon DEF Load
      <4> QED
        BY <3>2, <4>1 DEF TypeOK
    <3> QED
      BY <1>0, <1>2, <1>4, <2>3, <3>2, <3>3, FreshGo, Zenon DEF Load, At
  <2> QED
    BY <2>1, <2>2, <2>3
<1>5. CASE Discard(a, g)
  BY <1>0, <1>1, <1>2, <1>5, FreshGo, Zenon DEF Discard, At
<1>6. CASE Tier(a, g)
  <2>1. CASE late[a]
    BY <1>0, <1>1, <1>2, <1>6, <2>1, FreshGo, Zenon DEF Tier, At
  <2>2. CASE ~late[a]
    BY <1>6, <2>2 DEF Tier, FreshOK, LadderOK, WrittenOK, TaskOK, AttemptOK, InFamily
  <2> QED
    BY <2>1, <2>2
<1>7. CASE Rerank(a, g)
  <2>1. /\ got'[a][g] = IF ladder[g].fit.ok THEN version[a] ELSE 0
        /\ \A b \in Attempts, h \in Glyphs : b /= a \/ h /= g => got'[b][h] = got[b][h]
    BY <1>7 DEF TypeOK, Rerank
  <2>2. CASE ladder[g].fit.ok
    <3>1. /\ Go(a, g, "open") /\ got'[a][g] = version[a] /\ At(a, g, "fit")
          /\ UNCHANGED <<style, release, attempts, files>>
      BY <1>7, <2>1, <2>2 DEF Rerank
    <3> QED
      BY <1>0, <1>2, <2>1, <2>2, <3>1, FreshGo, Zenon DEF At
  <2>3. CASE ~ladder[g].fit.ok
    <3>1. Go(a, g, "failed") /\ At(a, g, "fit") /\ UNCHANGED <<style, release, attempts, files>>
      BY <1>7, <2>3 DEF Rerank
    <3> QED
      BY <1>0, <1>1, <1>2, <2>1, <3>1, FreshGo, Zenon DEF At
  <2> QED
    BY <2>2, <2>3
<1>8. \/ g \in InFamily /\ ladder[g].fit.ok /\ got[a][g] = version[a]
      \/ pc[a][g] \notin {"open", "write", "replace"}
  <2>1. "open" \in Fitted /\ "write" \in Fitted /\ "replace" \in Fitted
        /\ \A at \in {"open", "write", "replace"} : at /= "none"
    BY DEF Fitted
  <2> QED
    BY <2>1 DEF FreshOK, TaskOK
<1>9. CASE OpenTmp(a, g)
  <2>1. PICK file : file = IF tmp[g] = NoFile THEN a ELSE tmp[g]
    OBVIOUS
  <2>2. content' = [content EXCEPT ![g][file] = 0]
    BY <1>9, <2>1, Zenon DEF OpenTmp
  <2>3. \A h \in Glyphs, f \in Attempts : content'[h][f] /= 0 => content[h][f] /= 0
    BY <2>2 DEF TypeOK
  <2>4. \A h \in Glyphs, f \in Attempts : content'[h][f] /= 0 => h \in InFamily /\ ladder[h].fit.ok
    BY <1>2, <2>3, Zenon
  <2> QED
    BY <1>0, <1>8, <1>9, <2>4, FreshGo, Zenon DEF OpenTmp, At
<1>10. CASE WriteTmp(a, g)
  <2>1. \A h \in Glyphs, f \in Attempts : content'[h][f] /= 0 => content[h][f] /= 0 \/ h = g
    BY <1>10 DEF TypeOK, WriteTmp
  <2>2. \A h \in Glyphs, f \in Attempts : content'[h][f] /= 0 => h \in InFamily /\ ladder[h].fit.ok
    BY <1>2, <1>8, <1>10, <2>1, Zenon DEF WriteTmp, At
  <2> QED
    BY <1>0, <1>8, <1>10, <2>2, FreshGo, Zenon DEF WriteTmp, At
<1>11. CASE Replace(a, g)
  <2>1. PICK to \in {"failed", "done"} : Go(a, g, to)
    BY <1>11, Zenon DEF Replace
  <2>2. to \in Stages /\ to /= "none"
    BY <1>0
  <2> QED
    BY <1>2, <1>8, <1>11, <2>1, <2>2, FreshGo, Zenon DEF Replace, At
<1> QED
  BY <1>3, <1>4, <1>5, <1>6, <1>7, <1>9, <1>10, <1>11, Zenon DEF Task

LEMMA FreshStep ==
    ASSUME TypeOK, FreshOK, [Next]_vars
    PROVE  FreshOK'
<1>1. CASE vars' = vars
  BY <1>1 DEF vars, style, attempts, tasks, files, history, FreshOK, LadderOK, WrittenOK, TaskOK,
              AttemptOK, InFamily
<1>2. CASE Finished
  BY <1>1, <1>2, Zenon DEF Finished
<1> QED
  BY <1>1, <1>2, FreshStart, FreshExpire, FreshCollect, FreshCrash, FreshTask, Zenon DEF Next

-----------------------------------------------------------------------------
(* The files, as long as attempts do not overlap *)

LEMMA AloneInit == Init => AloneOK
<1> SUFFICES ASSUME Init PROVE AloneOK
  OBVIOUS
<1>1. \A a \in Attempts : state[a] /= "forming"
  BY DEF Init
<1>2. \A g \in Glyphs : final[g] = NoFile /\ tmp[g] = NoFile /\ banked[g] = 0 /\ release = 1
  BY DEF Init
<1>3. NoFile \notin Attempts /\ 0 < 1 /\ 0 <= 1
  BY AttemptsAssumption DEF NoFile
<1>4. \A g \in Glyphs : BankedOK(g) /\ (tmp[g] = NoFile \/ tmp[g] /= final[g])
  BY <1>2, <1>3 DEF BankedOK
<1>5. \A a \in Attempts, g \in Glyphs : a \notin {final[g], tmp[g]}
  BY <1>2, <1>3, Zenon
<1> QED
  BY <1>1, <1>4, <1>5, Zenon DEF AloneOK

\* The attempt that starts has no file yet.
LEMMA AloneStart ==
    ASSUME TypeOK, AloneOK, NEW a \in Attempts, Start(a), ~overlapped'
    PROVE  AloneOK'
<1>1. UNCHANGED <<final, tmp, content, banked, release, fd>> /\ state[a] = "idle"
  BY DEF Start, files
<1>2. \A b \in Attempts : b /= a => state'[b] = state[b] /\ version'[b] = version[b] /\ pc'[b] = pc[b]
  BY DEF TypeOK, Start
<1>3. /\ state'[a] = "forming"
      /\ \A g \in Glyphs : pc'[a][g] \in {"todo", "none"}
  BY DEF TypeOK, Start
<1>4. \A b \in Attempts : state[b] /= "forming"
  BY DEF Start
<1>5. \A b \in Attempts : state'[b] = "forming" => b = a
  BY <1>2, <1>4, Zenon
<1>6. ASSUME NEW g \in Glyphs PROVE FilesOK(a, g)'
  <2>1. a \notin {final[g], tmp[g]}
    BY <1>1, Zenon DEF AloneOK
  <2>2. pc'[a][g] \notin {"write", "replace", "stale", "fit", "open"}
    BY <1>3
  <2> QED
    BY <1>1, <2>1, <2>2 DEF FilesOK
<1>7. \A g \in Glyphs : BankedOK(g)' /\ (tmp'[g] = NoFile \/ tmp'[g] /= final'[g])
  BY <1>1 DEF AloneOK, BankedOK
<1>8. \A b \in Attempts, g \in Glyphs : state'[b] = "idle" => b \notin {final'[g], tmp'[g]}
  <2>1. \A b \in Attempts : state'[b] = "idle" => state[b] = "idle"
    BY <1>1, <1>2, Zenon
  <2> QED
    BY <1>1, <2>1 DEF AloneOK
<1> QED
  BY <1>5, <1>6, <1>7, <1>8, Zenon DEF AloneOK

\* Whoever ends leaves the files as they are.
LEMMA AloneEnds ==
    ASSUME AloneOK, UNCHANGED <<final, tmp, content, banked, version>>,
           \A g \in Glyphs : BankedOK(g)',
           \A a \in Attempts : state'[a] = "idle" => state[a] = "idle",
           \A a \in Attempts : state'[a] = "forming" =>
                state[a] = "forming" /\ release' = release /\ pc'[a] = pc[a] /\ fd'[a] = fd[a]
    PROVE  AloneOK'
<1>1. ASSUME NEW a \in Attempts, NEW g \in Glyphs, state'[a] = "forming" PROVE FilesOK(a, g)'
  <2>1. FilesOK(a, g)
    BY <1>1 DEF AloneOK
  <2> QED
    BY <1>1, <2>1 DEF FilesOK
<1>2. \A a, b \in Attempts : state'[a] = "forming" /\ state'[b] = "forming" => a = b
  BY Zenon DEF AloneOK
<1>3. \A g \in Glyphs : tmp'[g] = NoFile \/ tmp'[g] /= final'[g]
  BY DEF AloneOK
<1>4. \A a \in Attempts, g \in Glyphs : state'[a] = "idle" => a \notin {final'[g], tmp'[g]}
  BY DEF AloneOK
<1> QED
  BY <1>1, <1>2, <1>3, <1>4, Zenon DEF AloneOK

LEMMA AloneExpire ==
    ASSUME AloneOK, NEW a \in Attempts, Expire(a)
    PROVE  AloneOK'
  BY DEF AloneOK, BankedOK, FilesOK, Expire, tasks, files, history

LEMMA AloneCollect ==
    ASSUME TypeOK, AloneOK, NEW a \in Attempts, Collect(a)
    PROVE  AloneOK'
<1>1. UNCHANGED <<final, tmp, content, banked, version, release, pc, fd>>
  BY DEF Collect, files, tasks, history
<1>2. \A b \in Attempts : state'[b] = IF b = a THEN Outcome(a) ELSE state[b]
  BY DEF TypeOK, Collect
<1>3. Outcome(a) /= "forming" /\ Outcome(a) /= "idle"
  BY Zenon DEF Outcome
<1>4. \A g \in Glyphs : BankedOK(g)'
  BY <1>1 DEF AloneOK, BankedOK
<1>5. \A b \in Attempts : (state'[b] = "idle" => state[b] = "idle") /\ (state'[b] = "forming" => state[b] = "forming")
  BY <1>2, <1>3, Zenon
<1> QED
  BY <1>1, <1>4, <1>5, AloneEnds

LEMMA AloneCrash ==
    ASSUME TypeOK, AloneOK, Crash
    PROVE  AloneOK'
<1>1. UNCHANGED <<final, tmp, content, banked, version>>
  BY DEF Crash, files, history
<1>2. \A a \in Attempts : state'[a] /= "forming" /\ (state'[a] = "idle" => state[a] = "idle")
  BY DEF TypeOK, Crash
<1>3. release' \in Nat /\ release \in Nat /\ release <= release'
  BY DEF TypeOK, Crash
<1>4. ASSUME NEW g \in Glyphs PROVE BankedOK(g)'
  <2>1. BankedOK(g) /\ banked[g] \in Nat
    BY DEF AloneOK, TypeOK
  <2>2. banked[g] <= release' /\ (banked[g] < release => banked[g] < release')
    BY <1>3, <2>1 DEF BankedOK
  <2> QED
    BY <1>1, <2>1, <2>2 DEF BankedOK
<1> QED
  BY <1>1, <1>2, <1>4, AloneEnds, Zenon

\* A step of the one attempt that is forming touches the files of one glyph.
LEMMA AloneGo ==
    ASSUME TypeOK, AloneOK, NEW a \in Attempts, NEW g \in Glyphs, state[a] = "forming",
           UNCHANGED <<release, state, version>>,
           \A h \in Glyphs : h /= g =>
                /\ final'[h] = final[h] /\ tmp'[h] = tmp[h] /\ content'[h] = content[h]
                /\ banked'[h] = banked[h] /\ pc'[a][h] = pc[a][h] /\ fd'[a][h] = fd[a][h],
           BankedOK(g)', FilesOK(a, g)', tmp'[g] = NoFile \/ tmp'[g] /= final'[g],
           final'[g] \in {final[g], tmp[g], NoFile}, tmp'[g] \in {tmp[g], a, NoFile}
    PROVE  AloneOK'
<1>1. \A b \in Attempts : state[b] = "forming" => b = a
  BY DEF AloneOK
<1>2. ASSUME NEW h \in Glyphs PROVE BankedOK(h)' /\ (tmp'[h] = NoFile \/ tmp'[h] /= final'[h])
  <2>1. BankedOK(h) /\ (tmp[h] = NoFile \/ tmp[h] /= final[h])
    BY DEF AloneOK
  <2> QED
    BY <2>1 DEF BankedOK
<1>3. ASSUME NEW h \in Glyphs PROVE FilesOK(a, h)'
  <2>1. FilesOK(a, h)
    BY DEF AloneOK
  <2> QED
    BY <2>1 DEF FilesOK
<1>4. ASSUME NEW b \in Attempts, NEW h \in Glyphs, state[b] = "idle" PROVE b \notin {final'[h], tmp'[h]}
  <2>1. b \notin {final[h], tmp[h]} /\ b /= a
    BY <1>4 DEF AloneOK
  <2>2. b /= NoFile
    BY AttemptsAssumption DEF NoFile
  <2> QED
    BY <2>1, <2>2, Zenon
<1>5. state' = state
  OBVIOUS
<1>6. \A b, c \in Attempts : state'[b] = "forming" /\ state'[c] = "forming" => b = c
  BY <1>1, <1>5, Zenon
<1>7. \A b \in Attempts, h \in Glyphs : state'[b] = "idle" => b \notin {final'[h], tmp'[h]}
  BY <1>4, <1>5, Zenon
<1>8. \A b \in Attempts, h \in Glyphs : state'[b] = "forming" => FilesOK(b, h)'
  <2>1. ASSUME NEW b \in Attempts, NEW h \in Glyphs, state'[b] = "forming" PROVE FilesOK(b, h)'
    <3>1. b = a
      BY <1>1, <1>5, <2>1, Zenon
    <3> QED
      BY <1>3, <3>1
  <2> QED
    BY <2>1
<1> QED
  BY <1>2, <1>6, <1>7, <1>8, Zenon DEF AloneOK

LEMMA AloneTask ==
    ASSUME TypeOK, FreshOK, AloneOK, NEW a \in Attempts, NEW g \in Glyphs, Task(a, g)
    PROVE  AloneOK'
<1> USE DEF style, attempts, files, history
<1>0. state[a] = "forming" /\ UNCHANGED <<release, state, version>>
  BY Zenon DEF Task, Begin, Load, Discard, Tier, Rerank, OpenTmp, WriteTmp, Replace, At
<1>1. /\ BankedOK(g) /\ FilesOK(a, g) /\ (tmp[g] = NoFile \/ tmp[g] /= final[g])
  BY <1>0 DEF AloneOK
<1>2. version[a] = release
  BY <1>0 DEF FreshOK, AttemptOK
<1>3. /\ final[g] \in Attempts \/ final[g] = NoFile
      /\ tmp[g] \in Attempts \/ tmp[g] = NoFile
      /\ NoFile \notin Attempts
  BY AttemptsAssumption DEF TypeOK, Files, NoFile
<1>4. ASSUME NEW to \in Stages, Go(a, g, to), UNCHANGED <<final, tmp, content, banked, fd>>,
             to \in {"load", "walled", "done", "failed"} \/
             (to \in {"stale", "fit", "open"} /\ banked[g] < release),
             pc[a][g] \in {"todo", "load", "fit"}
      PROVE  AloneOK'
  <2>1. /\ pc'[a][g] = to
        /\ \A b \in Attempts, h \in Glyphs : b /= a \/ h /= g => pc'[b][h] = pc[b][h]
    BY <1>4, GoType, Zenon
  <2>2. a \notin {final[g], tmp[g]}
    BY <1>1, <1>4 DEF FilesOK
  <2>3. BankedOK(g)'
    BY <1>0, <1>1, <1>4 DEF BankedOK
  <2>4. FilesOK(a, g)'
    BY <1>0, <1>4, <2>1, <2>2 DEF FilesOK
  <2> QED
    BY <1>0, <1>1, <1>4, <2>1, <2>3, <2>4, AloneGo, Zenon
<1>5. \A to \in {"load", "stale", "fit", "open", "write", "replace", "done", "walled", "failed"} : to \in Stages
  BY DEF Stages, Settled
<1>6. ASSUME NEW to \in Stages, Go(a, g, to)
       PROVE  pc'[a][g] = to /\ \A h \in Glyphs : h /= g => pc'[a][h] = pc[a][h]
  BY <1>6, GoType
<1>7. CASE Begin(a, g)
  <2>1. PICK to \in {"walled", "load"} : Go(a, g, to)
    BY <1>7, Zenon DEF Begin
  <2>2. to \in Stages
    BY <1>5
  <2> QED
    BY <1>4, <1>7, <2>1, <2>2 DEF Begin, At
<1>8. CASE Load(a, g)
  <2>0. pc[a][g] = "load" /\ UNCHANGED <<final, tmp, content, banked, fd>>
    BY <1>8, Zenon DEF Load, At
  <2>1. CASE final[g] = NoFile
    <3>1. banked[g] < release
      BY <1>1, <1>3, <2>1, Zenon DEF BankedOK
    <3>2. Go(a, g, "fit")
      BY <1>8, <2>1, Zenon DEF Load
    <3> QED
      BY <1>4, <1>5, <2>0, <3>1, <3>2
  <2>2. CASE final[g] /= NoFile /\ ~Valid(a, g)
    <3>1. banked[g] < release
      <4>1. content[g][final[g]] /= release
        BY <1>2, <2>2, Zenon DEF Valid
      <4>2. banked[g] \in Nat /\ release \in Nat /\ banked[g] <= release
        BY <1>1 DEF BankedOK, TypeOK
      <4> QED
        BY <1>1, <4>1, <4>2 DEF BankedOK
    <3>2. Go(a, g, "stale")
      BY <1>8, <2>2, Zenon DEF Load
    <3> QED
      BY <1>4, <1>5, <2>0, <3>1, <3>2
  <2>3. CASE final[g] /= NoFile /\ Valid(a, g)
    <3>1. Go(a, g, "done")
      BY <1>8, <2>3, Zenon DEF Load
    <3> QED
      BY <1>4, <1>5, <2>0, <3>1
  <2> QED
    BY <2>1, <2>2, <2>3
<1>9. CASE Discard(a, g)
  <2>1. Go(a, g, "fit") /\ pc[a][g] = "stale" /\ final' = [final EXCEPT ![g] = NoFile]
        /\ UNCHANGED <<tmp, content, banked, fd>>
    BY <1>9, Zenon DEF Discard, At
  <2>2. final'[g] = NoFile /\ \A h \in Glyphs : h /= g => final'[h] = final[h]
    BY <2>1 DEF TypeOK
  <2>3. /\ pc'[a][g] = "fit" /\ \A h \in Glyphs : h /= g => pc'[a][h] = pc[a][h]
    BY <1>5, <1>6, <2>1, Zenon
  <2>4. banked[g] < release /\ a /= tmp[g] /\ a /= NoFile
    BY <1>1, <1>3, <2>1 DEF FilesOK
  <2>5. BankedOK(g)'
    BY <1>0, <1>1, <2>1, <2>4 DEF BankedOK
  <2>6. FilesOK(a, g)'
    BY <1>0, <2>1, <2>2, <2>3, <2>4 DEF FilesOK
  <2>7. tmp'[g] = NoFile \/ tmp'[g] /= final'[g]
    BY <2>1, <2>2, Zenon
  <2> QED
    BY <1>0, <2>1, <2>2, <2>3, <2>5, <2>6, <2>7, AloneGo, Zenon
<1>10. CASE Tier(a, g)
  <2>1. CASE late[a]
    <3>1. Go(a, g, "walled") /\ pc[a][g] = "fit" /\ UNCHANGED <<final, tmp, content, banked, fd>>
      BY <1>10, <2>1, Zenon DEF Tier, At
    <3> QED
      BY <1>4, <1>5, <3>1
  <2>2. CASE ~late[a]
    <3>1. UNCHANGED <<final, tmp, content, banked, fd, pc>>
      BY <1>10, <2>2, Zenon DEF Tier
    <3>2. BankedOK(g)' /\ FilesOK(a, g)'
      BY <1>0, <1>1, <3>1 DEF BankedOK, FilesOK
    <3> QED
      BY <1>0, <1>1, <3>1, <3>2, AloneGo, Zenon
  <2> QED
    BY <2>1, <2>2
<1>11. CASE Rerank(a, g)
  <2>1. PICK to \in {"open", "failed"} : Go(a, g, to)
    BY <1>11, Zenon DEF Rerank
  <2>2. pc[a][g] = "fit" /\ UNCHANGED <<final, tmp, content, banked, fd>>
    BY <1>11, Zenon DEF Rerank, At
  <2>3. banked[g] < release
    BY <1>1, <2>2 DEF FilesOK
  <2>4. to \in Stages
    BY <1>5
  <2> QED
    BY <1>4, <2>1, <2>2, <2>3, <2>4
<1>12. CASE OpenTmp(a, g)
  <2>1. PICK file : file = IF tmp[g] = NoFile THEN a ELSE tmp[g]
    OBVIOUS
  <2>2. /\ tmp' = [tmp EXCEPT ![g] = file] /\ fd' = [fd EXCEPT ![a][g] = file]
        /\ content' = [content EXCEPT ![g][file] = 0]
        /\ pc[a][g] = "open" /\ Go(a, g, "write") /\ UNCHANGED <<final, banked>>
    BY <1>12, <2>1, Zenon DEF OpenTmp, At
  <2>3. a \notin {final[g], tmp[g]} /\ banked[g] < release
    BY <1>1, <2>2 DEF FilesOK
  <2>4. file \in Attempts /\ file /= NoFile /\ file /= final[g] /\ file \in {tmp[g], a}
    BY <1>1, <1>3, <2>1, <2>3, Zenon
  <2>5. tmp'[g] = file /\ \A h \in Glyphs : h /= g => tmp'[h] = tmp[h]
    BY <2>2 DEF TypeOK
  <2>6. fd'[a][g] = file /\ \A h \in Glyphs : h /= g => fd'[a][h] = fd[a][h]
    BY <2>2 DEF TypeOK
  <2>7. /\ \A h \in Glyphs : h /= g => content'[h] = content[h]
        /\ \A f \in Attempts : f /= file => content'[g][f] = content[g][f]
    BY <2>2 DEF TypeOK
  <2>8. pc'[a][g] = "write" /\ \A h \in Glyphs : h /= g => pc'[a][h] = pc[a][h]
    BY <1>5, <1>6, <2>2, Zenon
  <2>9. BankedOK(g)'
    BY <1>0, <1>1, <2>2, <2>3 DEF BankedOK
  <2>10. FilesOK(a, g)'
    BY <1>0, <2>2, <2>3, <2>4, <2>5, <2>6, <2>8 DEF FilesOK
  <2> QED
    BY <1>0, <2>2, <2>4, <2>5, <2>6, <2>7, <2>8, <2>9, <2>10, AloneGo, Zenon
<1>13. CASE WriteTmp(a, g)
  <2>1. /\ content' = [content EXCEPT ![g][fd[a][g]] = version[a]]
        /\ pc[a][g] = "write" /\ Go(a, g, "replace") /\ UNCHANGED <<final, tmp, fd, banked>>
    BY <1>13, Zenon DEF WriteTmp, At
  <2>2. fd[a][g] = tmp[g] /\ tmp[g] /= NoFile /\ banked[g] < release
    BY <1>1, <2>1 DEF FilesOK
  <2>3. /\ content'[g][tmp[g]] = version[a]
        /\ \A h \in Glyphs : h /= g => content'[h] = content[h]
    BY <1>3, <2>1, <2>2 DEF TypeOK
  <2>4. pc'[a][g] = "replace" /\ \A h \in Glyphs : h /= g => pc'[a][h] = pc[a][h]
    BY <1>5, <1>6, <2>1, Zenon
  <2>5. BankedOK(g)'
    BY <1>0, <1>1, <2>1, <2>2 DEF BankedOK
  <2>6. FilesOK(a, g)'
    BY <1>0, <2>1, <2>2, <2>3, <2>4 DEF FilesOK
  <2> QED
    BY <1>0, <1>1, <2>1, <2>3, <2>4, <2>5, <2>6, AloneGo, Zenon
<1>14. CASE Replace(a, g)
  <2>1. pc[a][g] = "replace" /\ UNCHANGED content
    BY <1>14, Zenon DEF Replace, At
  <2>2. tmp[g] /= NoFile /\ content[g][tmp[g]] = version[a]
    BY <1>1, <2>1 DEF FilesOK
  <2>3. /\ final' = [final EXCEPT ![g] = tmp[g]] /\ banked' = [banked EXCEPT ![g] = version[a]]
        /\ tmp' = [tmp EXCEPT ![g] = NoFile] /\ fd' = [fd EXCEPT ![a][g] = NoFile] /\ Go(a, g, "done")
    BY <1>14, <2>2, Zenon DEF Replace
  <2>4. final'[g] = tmp[g] /\ \A h \in Glyphs : h /= g => final'[h] = final[h]
    BY <2>3 DEF TypeOK
  <2>5. tmp'[g] = NoFile /\ \A h \in Glyphs : h /= g => tmp'[h] = tmp[h]
    BY <2>3 DEF TypeOK
  <2>6. banked'[g] = version[a] /\ \A h \in Glyphs : h /= g => banked'[h] = banked[h]
    BY <2>3 DEF TypeOK
  <2>7. \A h \in Glyphs : h /= g => fd'[a][h] = fd[a][h]
    BY <2>3 DEF TypeOK
  <2>8. pc'[a][g] = "done" /\ \A h \in Glyphs : h /= g => pc'[a][h] = pc[a][h]
    BY <1>5, <1>6, <2>3, Zenon
  <2>9. BankedOK(g)'
    <3>1. release <= release
      BY DEF TypeOK
    <3> QED
      BY <1>0, <1>2, <1>3, <2>1, <2>2, <2>4, <2>6, <3>1 DEF BankedOK
  <2>10. FilesOK(a, g)'
    BY <2>8 DEF FilesOK
  <2> QED
    BY <1>0, <2>1, <2>4, <2>5, <2>6, <2>7, <2>8, <2>9, <2>10, AloneGo, Zenon
<1> QED
  BY <1>7, <1>8, <1>9, <1>10, <1>11, <1>12, <1>13, <1>14, Zenon DEF Task

LEMMA AloneStep ==
    ASSUME TypeOK, FreshOK, AloneOK, [Next]_vars
    PROVE  overlapped' \/ AloneOK'
<1>1. CASE vars' = vars
  BY <1>1 DEF vars, attempts, tasks, files, history, AloneOK, BankedOK, FilesOK
<1>2. CASE Finished
  BY <1>1, <1>2, Zenon DEF Finished
<1> QED
  BY <1>1, <1>2, AloneStart, AloneExpire, AloneCollect, AloneCrash, AloneTask, Zenon DEF Next

\* That attempts have overlapped stays true.
LEMMA OverlapStays ==
    ASSUME overlapped, [Next]_vars
    PROVE  overlapped'
<1>1. CASE vars' = vars
  BY <1>1 DEF vars, history
<1>2. CASE Finished
  BY <1>1, <1>2, Zenon DEF Finished
<1>3. ASSUME NEW a \in Attempts, NEW g \in Glyphs, Task(a, g) PROVE overlapped'
  BY <1>3, Zenon DEF Task, Begin, Load, Discard, Tier, Rerank, OpenTmp, WriteTmp, Replace, history
<1>4. ASSUME NEW a \in Attempts, Start(a) \/ Expire(a) \/ Collect(a) PROVE overlapped'
  BY <1>4, Zenon DEF Start, Expire, Collect, history
<1>5. CASE Crash
  BY <1>5, Zenon DEF Crash, history
<1> QED
  BY <1>1, <1>2, <1>3, <1>4, <1>5, Zenon DEF Next

-----------------------------------------------------------------------------
(* The theorems *)

LEMMA TypeInit == Init => TypeOK
<1> SUFFICES ASSUME Init PROVE TypeOK
  OBVIOUS
<1>1. "none" \in Stages /\ NoFile \in Files
  BY DEF Stages, Files
<1>2. family \in Families /\ release \in Nat \ {0} /\ overlapped \in BOOLEAN
  <2>1. family \in Families /\ overlapped = FALSE
    BY Zenon DEF Init
  <2>2. release \in Nat \ {0}
    BY DEF Init
  <2> QED
    BY <2>1, <2>2, Zenon
<1>3. /\ state \in [Attempts -> {"idle", "forming"} \cup Ended]
      /\ version \in [Attempts -> Nat] /\ late \in [Attempts -> BOOLEAN]
  BY DEF Init
<1>4. /\ pc \in [Attempts -> [Glyphs -> Stages]] /\ tiers \in [Attempts -> [Glyphs -> Nat]]
      /\ fd \in [Attempts -> [Glyphs -> Files]] /\ got \in [Attempts -> [Glyphs -> Nat]]
  BY <1>1 DEF Init
<1>5. /\ final \in [Glyphs -> Files] /\ tmp \in [Glyphs -> Files]
      /\ content \in [Glyphs -> [Attempts -> Nat]] /\ banked \in [Glyphs -> Nat]
  BY <1>1 DEF Init
<1> QED
  BY <1>2, <1>3, <1>4, <1>5, Zenon DEF TypeOK

\* In every reachable state every variable has its type, a task that has an outline has the one of its
\* attempt's release, and unless attempts overlapped the last checkpoint put in place is whole.
THEOREM Invariance == Spec => []IInv
<1>1. Init => IInv
  BY TypeInit, FreshInit, AloneInit, Zenon DEF IInv
<1>2. IInv /\ [Next]_vars => IInv'
  BY TypeStep, FreshStep, AloneStep, OverlapStays, Zenon DEF IInv
<1> QED
  BY <1>1, <1>2, PTL DEF Spec

\* Resuming, a crash in the middle of a save, a new release and a second attempt on the same directory
\* never change what is formed: every outline is the one the attempt's own release makes.
THEOREM OutlinesAreFresh == Spec => []FormedIsFresh
<1>1. IInv => FormedIsFresh
  <2> SUFFICES ASSUME IInv, NEW a \in Attempts, state[a] = "formed", NEW g \in InFamily
               PROVE  got[a][g] = version[a]
    BY Zenon DEF FormedIsFresh
  <2>1. InFamily \subseteq Glyphs
    BY Zenon DEF InFamily, IInv, TypeOK, Glyphs
  <2>2. pc[a][g] = "done" /\ "done" \in Fitted
    BY DEF IInv, FreshOK, AttemptOK, Fitted
  <2> QED
    BY <2>1, <2>2, Zenon DEF IInv, FreshOK, TaskOK
<1> QED
  BY <1>1, Invariance, PTL

\* The outline of every glyph of a formed model was fitted to all the rasters of the glyph, or is the
\* one of a glyph where an earlier tier had come to the same; or, of an easy glyph, it is inside the
\* margin on all of them - whatever the numeric fit makes of the rasters.
THEOREM OutlinesAreVouched == Spec => []Vouched
<1>1. IInv => Vouched
  <2> SUFFICES ASSUME IInv, NEW a \in Attempts, state[a] = "formed", NEW g \in InFamily
               PROVE  IF ladder[g].fit.class = "HARD"
                      THEN ladder[g].fit.out = ladder[g].complete \/ ladder[g].twin
                      ELSE ladder[g].vouched
    BY Zenon DEF Vouched
  <2>1. InFamily \subseteq Glyphs
    BY Zenon DEF InFamily, IInv, TypeOK, Glyphs
  <2>2. pc[a][g] = "done" /\ "done" \in Fitted
    BY DEF IInv, FreshOK, AttemptOK, Fitted
  <2>3. ladder[g].fit.ok
    BY <2>1, <2>2, Zenon DEF IInv, FreshOK, TaskOK
  <2>4. ladder[g] = Ladder(g)
    BY DEF IInv, FreshOK, LadderOK
  <2> QED
    BY <2>3, <2>4, LadderBacked, Zenon DEF Backed
<1> QED
  BY <1>1, Invariance, PTL

\* Unless attempts overlapped, a glyph whose checkpoint is in place is not fitted again by the same
\* release, however many attempts and crashes there were before.
THEOREM BankedIsKept == Spec => NothingRefitted
<1> DEFINE Kept1 == \A a \in Attempts, g \in Glyphs :
                      pc[a][g] = "load" /\ pc'[a][g] \in {"fit", "stale"} /\ banked[g] = version[a] => overlapped
<1>1. IInv /\ [Next]_vars => [Kept1]_vars
  <2> SUFFICES ASSUME IInv, Next, ~overlapped, NEW a \in Attempts, NEW g \in Glyphs,
                      pc[a][g] = "load", pc'[a][g] \in {"fit", "stale"}, banked[g] = version[a]
               PROVE  FALSE
    BY Zenon
  <2>1. CASE \E b \in Attempts, h \in Glyphs : Task(b, h)
    <3>1. PICK b \in Attempts, h \in Glyphs : Task(b, h)
      BY <2>1
    <3>2. TypeOK /\ FreshOK /\ AloneOK
      BY Zenon DEF IInv
    <3>3. state[b] = "forming"
      BY <3>1, Zenon DEF Task, Begin, Load, Discard, Tier, Rerank, OpenTmp, WriteTmp, Replace, At
    <3>4. AloneOK' /\ state'[b] = "forming" /\ UNCHANGED <<release, version>> /\ FreshOK
      <4>1. UNCHANGED attempts /\ UNCHANGED release
        BY <3>1, Zenon DEF Task, Begin, Load, Discard, Tier, Rerank, OpenTmp, WriteTmp, Replace
      <4> QED
        BY <3>1, <3>2, <3>3, <4>1, AloneTask DEF attempts
    <3>5. a = b /\ g = h
      <4>1. \A c \in Attempts, k \in Glyphs : c /= b \/ k /= h => pc'[c][k] = pc[c][k]
        <5>1. pc' = pc \/ \E to : Go(b, h, to)
          BY <3>1, Zenon DEF Task, Begin, Load, Discard, Tier, Rerank, OpenTmp, WriteTmp, Replace
        <5> QED
          BY <3>2, <5>1 DEF Go, TypeOK
      <4>2. pc'[a][g] /= pc[a][g]
        OBVIOUS
      <4> QED
        BY <4>1, <4>2, Zenon
    <3>6. banked'[g] = banked[g]
      <4>1. Load(a, g)
        BY <3>1, <3>5 DEF Task, Begin, Load, Discard, Tier, Rerank, OpenTmp, WriteTmp, Replace, At
      <4> QED
        BY <4>1, Zenon DEF Load, history
    <3>7. FilesOK(a, g)'
      BY <3>4, <3>5 DEF AloneOK
    <3>8. banked'[g] < release
      BY <3>4, <3>7 DEF FilesOK
    <3>9. version[a] = release /\ release \in Nat
      BY <3>2, <3>3, <3>5 DEF FreshOK, AttemptOK, TypeOK
    <3> QED
      BY <3>6, <3>8, <3>9
  <2>2. CASE Crash
    <3>1. pc'[a][g] \in {pc[a][g], "none"}
      BY <2>2 DEF IInv, TypeOK, Crash, Cleared
    <3> QED
      BY <3>1
  <2>3. CASE Finished
    BY <2>3, Zenon DEF Finished, vars, tasks
  <2>4. CASE \E b \in Attempts : Start(b) \/ Expire(b) \/ Collect(b)
    <3>1. PICK b \in Attempts : Start(b) \/ Expire(b) \/ Collect(b)
      BY <2>4
    <3>2. pc'[a][g] \in {pc[a][g], "todo", "none"}
      BY <3>1 DEF IInv, TypeOK, Start, Expire, Collect, tasks
    <3> QED
      BY <3>2
  <2> QED
    BY <2>1, <2>2, <2>3, <2>4, Zenon DEF Next
<1> QED
  BY <1>1, Invariance, PTL DEF Spec, NothingRefitted
=============================================================================
