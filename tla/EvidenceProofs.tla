----------------------------- MODULE EvidenceProofs -----------------------------
(***************************************************************************)
(* What holds of the evidence a style is built from, as it is collected    *)
(* from a page and as it is acquired.                                      *)
(*                                                                         *)
(* Collection, for every number of glyphs, fonts, browser versions, orders *)
(* cut short and changes of the page: there is one completed collection at *)
(* most, nothing changes it, and it is whole.  The argument is that an     *)
(* order writes only while nothing is completed (OneOK), so that a table   *)
(* may hold anything until the checks of finalize_source_collection look   *)
(* at it: the plan that was followed does not matter, and neither do the   *)
(* orders cut short before it.                                             *)
(*                                                                         *)
(* Acquisition, for any orders, pages, links, hits, faces and crawls that  *)
(* its assumptions allow, and whatever pages and index say: what the       *)
(* runner keeps is what they name for the ordered style, a raster of the   *)
(* render endpoint is the whole font, and bytes that fail are not made up  *)
(* for.  The argument is that every envelope an order may work with,       *)
(* cached or found, has records of known hashes, and that the lanes after  *)
(* the first work only under a family that matches (EnvelopesOK); that an  *)
(* outcome shows the font named for its style, or nothing (Shows); and     *)
(* that a crawl is complete only if its last request found nothing more.   *)
(***************************************************************************)
EXTENDS Collection, Acquisition, FiniteSetTheorems, WellFoundedInduction, TLAPS

-----------------------------------------------------------------------------
(* Collection: the inductive invariant *)

Phases == {"idle", "collecting", "ingesting", "reusing", "rebuilding"}
Hows == {"none", "direct", "provider"}

\* Every row of a raster was measured on one of the fonts.
MeasuredOK(rows) == \A b \in Browsers : \A k \in DOMAIN rows[b] : rows[b][k].measured \in Fonts

TypeOK ==
    /\ pc \in Phases /\ browser \in Browsers /\ page \in Fonts /\ font \in Fonts
    /\ collections \in [Browsers -> Hows]
    /\ DOMAIN memory = Browsers /\ DOMAIN pickle = Browsers /\ DOMAIN obs = Browsers
    /\ MeasuredOK(obs)

\* One identity is completed at most, and nobody writes once it is.
OneOK ==
    /\ \A a \in Completed : \A b \in Completed : a = b
    /\ Working => Completed = {}
    /\ pc \in {"reusing", "rebuilding"} => handed \in Completed

\* What is kept of an identity is made from its evidence, and only of a completed one.
ModelsOK ==
    \A b \in Browsers :
        /\ memory[b] # NoModels => b \in Completed /\ memory[b] = [of |-> Evidence(b)]
        /\ pickle[b] # NoModels => b \in Completed /\ pickle[b] = [of |-> Evidence(b)]

\* The conjuncts of CompletedIsWhole, each for the collection of one browser.
SlotsOK(b) ==
    \A cp \in coverage[b] :
        \E f \in Fonts :
            StoredSlots(b, cp) = ToSet(IF collections[b] = "provider" THEN ProviderSchedule
                                       ELSE DirectSchedule(f, cp))
IntactOK(b) == \A cp \in Cps : StoredSlots(b, cp) = Valid(b, cp)
PairsOK(b) ==
    /\ collections[b] = "direct" => DOMAIN pairs[b] = BoundedIn(coverage[b])
    /\ \A p \in DOMAIN pairs[b] : pairs[b][p] = DeriveMultisizeKerning(RowsOf(b, p))

WholeOK ==
    \A b \in Completed :
        /\ coverage[b] # {} /\ features[b] = Probes
        /\ SlotsOK(b) /\ IntactOK(b) /\ PairsOK(b)

IInv == TypeOK /\ OneOK /\ ModelsOK /\ WholeOK

-----------------------------------------------------------------------------
(* Least elements *)

UpTo(S, i) == {h \in S : h <= i}

LEMMA Smaller ==
    ASSUME NEW A, NEW B, NEW x, A \subseteq Nat, B \subseteq Nat, A \subseteq B, x \in B, x \notin A
    PROVE  <<A, B>> \in StrictSubsetOrdering(Nat)
<1>1. <<A, B>> \in (SUBSET Nat) \X (SUBSET Nat)
  OBVIOUS
<1>2. A # B
  OBVIOUS
<1> QED
  BY <1>1, <1>2, Zenon DEF StrictSubsetOrdering

LEMMA Least ==
    ASSUME NEW S, S \subseteq Nat, S # {}
    PROVE  \E i \in S : \A h \in S : i <= h
<1> DEFINE T == {UpTo(S, i) : i \in S}
<1>1. T \subseteq FiniteSubsetsOf(Nat)
  <2>1. ASSUME NEW i \in S PROVE UpTo(S, i) \subseteq Nat /\ IsFiniteSet(UpTo(S, i))
    <3>1. UpTo(S, i) \in SUBSET Nat /\ i \in Nat /\ \A h \in UpTo(S, i) : h <= i
      BY Zenon DEF UpTo
    <3> QED
      BY <3>1, FS_BoundedSetOfNaturals, Zenon
  <2> QED
    BY <2>1, Zenon DEF FiniteSubsetsOf
<1>2. T # {}
  BY Zenon
<1>3. \E x \in T : \A y \in T : ~(<<y, x>> \in StrictSubsetOrdering(Nat))
  <2>1. IsWellFoundedOn(StrictSubsetOrdering(Nat), FiniteSubsetsOf(Nat))
    BY FS_StrictSubsetOrderingWellFounded
  <2> HIDE DEF T
  <2> QED
    BY <1>1, <1>2, <2>1, WFMin, Zenon
<1>4. PICK i \in S : \A h \in S : ~(<<UpTo(S, h), UpTo(S, i)>> \in StrictSubsetOrdering(Nat))
  BY <1>3, Zenon
<1>5. ASSUME NEW h \in S PROVE i <= h
  <2>1. SUFFICES ASSUME h < i PROVE FALSE
    OBVIOUS
  <2>2. UpTo(S, h) \subseteq UpTo(S, i) /\ i \in UpTo(S, i) /\ i \notin UpTo(S, h)
    <3>1. i \in Nat /\ h \in Nat
      BY Zenon
    <3>2. ASSUME NEW g \in Nat, g <= h PROVE g <= i
      BY <2>1, <3>1, <3>2
    <3>3. i <= i /\ ~(i <= h)
      BY <2>1, <3>1
    <3> QED
      BY <3>2, <3>3, Zenon DEF UpTo
  <2>3. UpTo(S, h) \subseteq Nat /\ UpTo(S, i) \subseteq Nat
    BY Zenon DEF UpTo
  <2>4. <<UpTo(S, h), UpTo(S, i)>> \in StrictSubsetOrdering(Nat)
    BY <2>2, <2>3, Smaller
  <2> QED
    BY <2>4, <1>4
<1> QED
  BY <1>5

\* obs[0] exists: pairs of numbers have a first one by size and phase.
LEMMA FirstIsOne ==
    ASSUME NEW S, S \subseteq Nat \X Nat, S # {}
    PROVE  FirstOf(S) \in S
<1> DEFINE Firsts == {s[1] : s \in S}
<1>1. PICK n \in Firsts : \A m \in Firsts : n <= m
  <2>1. Firsts \subseteq Nat /\ Firsts # {}
    OBVIOUS
  <2> HIDE DEF Firsts
  <2> QED
    BY <2>1, Least
<1> DEFINE Row == {t \in S : t[1] = n}
<1> DEFINE Ends == {s[2] : s \in Row}
<1>2. PICK k \in Ends : \A m \in Ends : k <= m
  <2>1. Ends \subseteq Nat /\ Ends # {}
    OBVIOUS
  <2> HIDE DEF Ends
  <2> QED
    BY <2>1, Least
<1>3. PICK s \in S : s[1] = n /\ s[2] = k
  BY <1>2
<1>4. ASSUME NEW t \in S PROVE s[1] < t[1] \/ (s[1] = t[1] /\ s[2] <= t[2])
  <2>1. s[1] <= t[1]
    BY <1>1, <1>3
  <2>2. ASSUME t[1] = n PROVE s[2] <= t[2]
    BY <1>2, <1>3, <2>2
  <2>3. s[1] \in Nat /\ t[1] \in Nat
    OBVIOUS
  <2> HIDE DEF Firsts, Row, Ends
  <2> QED
    BY <2>1, <2>2, <2>3, <1>3
<1> HIDE DEF Firsts, Row, Ends
<1> QED
  BY <1>4 DEF FirstOf

-----------------------------------------------------------------------------
(* Schedules are of numbers *)

\* The k-th place of a grid of n rows of m lies in one of them.
LEMMA Places ==
    ASSUME NEW n \in Nat, NEW m \in Nat, NEW i \in 1..(n * m)
    PROVE  ((i - 1) \div m) + 1 \in 1..n /\ ((i - 1) % m) + 1 \in 1..m
OBVIOUS

LEMMA InSeq == ASSUME NEW T, NEW s \in Seq(T), NEW i \in 1..Len(s) PROVE s[i] \in T
OBVIOUS

LEMMA GridOfNumbers ==
    ASSUME NEW sizes \in Seq(Nat), NEW phases \in Seq(Nat)
    PROVE  Grid(sizes, phases) \in Seq(Nat \X Nat)
<1> DEFINE n == Len(sizes)
           m == Len(phases)
<1>1. n \in Nat /\ m \in Nat /\ n * m \in Nat
  OBVIOUS
<1>2. ASSUME NEW i \in 1..(n * m)
      PROVE  <<sizes[((i - 1) \div m) + 1], phases[((i - 1) % m) + 1]>> \in Nat \X Nat
  <2>1. ((i - 1) \div m) + 1 \in 1..n /\ ((i - 1) % m) + 1 \in 1..m
    BY <1>1, Places
  <2>2. PICK a \in 1..n : a = ((i - 1) \div m) + 1
    BY <2>1, Zenon
  <2>3. PICK c \in 1..m : c = ((i - 1) % m) + 1
    BY <2>1, Zenon
  <2>4. sizes[a] \in Nat /\ phases[c] \in Nat
    BY InSeq, Zenon
  <2> QED
    BY <2>2, <2>3, <2>4, Zenon
<1>3. Grid(sizes, phases) \in [1..(n * m) -> Nat \X Nat]
  BY <1>2, Zenon DEF Grid
<1> QED
  <2> HIDE DEF n, m
  <2> QED
    BY <1>1, <1>3

LEMMA ScheduleOfNumbers ==
    ASSUME NEW f, NEW cp
    PROVE  ToSet(DirectSchedule(f, cp)) \subseteq Nat \X Nat
<1>1. PhasesFor(f, cp) \in Seq(Nat) /\ FitSizes \in Seq(Nat)
      /\ HeldOutSizes \in Seq(Nat) /\ HeldOutPhases \in Seq(Nat)
  BY StoreConstants DEF PhasesFor
<1>2. Grid(FitSizes, PhasesFor(f, cp)) \in Seq(Nat \X Nat)
      /\ Grid(HeldOutSizes, HeldOutPhases) \in Seq(Nat \X Nat)
  BY <1>1, GridOfNumbers
<1>3. DirectSchedule(f, cp) \in Seq(Nat \X Nat)
  BY <1>2 DEF DirectSchedule
<1>4. DirectSchedule(f, cp) \in [1..Len(DirectSchedule(f, cp)) -> Nat \X Nat]
  BY <1>3
<1> QED
  BY <1>4 DEF ToSet

-----------------------------------------------------------------------------
(* Steps: they leave the tables, or write while nothing is completed, or complete *)

Quiet == UNCHANGED tables

\* What a reader of the store gets depends on the tables alone.
LEMMA SameViews ==
    ASSUME NEW b, Quiet
    PROVE  /\ Snapshot(b)' = Snapshot(b)
           /\ Evidence(b)' = Evidence(b)
<1>1. \A c : coverage[c]' = coverage[c] /\ metrics[c]' = metrics[c] /\ obs[c]' = obs[c]
             /\ pairSizes[c]' = pairSizes[c] /\ pairs[c]' = pairs[c] /\ features[c]' = features[c]
  BY DEF Quiet, tables
<1>2. \A c, k : HasObservation(c, k)' = HasObservation(c, k)
  BY DEF Quiet, tables, HasObservation
<1>3. \A c, cp : StoredSlots(c, cp)' = StoredSlots(c, cp)
  BY DEF Quiet, tables, StoredSlots
<1>4. \A c, cp : Valid(c, cp)' = Valid(c, cp)
  BY <1>2, <1>3 DEF Valid
<1>5. ObservedCps(b)' = ObservedCps(b)
  BY <1>4 DEF ObservedCps
<1>6. Evidence(b)' = Evidence(b)
  <2>1. \A cp : Rasters(b, cp)' = Rasters(b, cp)
    BY <1>1, <1>4 DEF Rasters
  <2> QED
    BY <1>1, <1>5, <2>1 DEF Evidence
<1> QED
  BY <1>1, <1>3, <1>6 DEF Snapshot

LEMMA SameWhole ==
    ASSUME Quiet, WholeOK
    PROVE  WholeOK' /\ Completed' = Completed
<1>1. coverage' = coverage /\ obs' = obs /\ files' = files /\ pairSizes' = pairSizes
      /\ pairs' = pairs /\ features' = features /\ collections' = collections
  BY DEF Quiet, tables
<1>2. Completed' = Completed
  BY <1>1 DEF Completed
<1>3. ASSUME NEW b \in Completed PROVE SlotsOK(b)' /\ IntactOK(b)' /\ PairsOK(b)'
  <2>1. SlotsOK(b) /\ IntactOK(b) /\ PairsOK(b)
    BY <1>3 DEF WholeOK
  <2>2. SlotsOK(b)'
    BY <1>1, <2>1 DEF SlotsOK, StoredSlots
  <2>3. IntactOK(b)'
    BY <1>1, <2>1 DEF IntactOK, StoredSlots, Valid, HasObservation
  <2>4. PairsOK(b)'
    BY <1>1, <2>1 DEF PairsOK, RowsOf, BoundedIn
  <2> QED
    BY <2>2, <2>3, <2>4
<1> QED
  BY <1>1, <1>2, <1>3 DEF WholeOK

\* The writes that are not a completion.
Write == UNCHANGED collections

\* Every step but the completion leaves the tables, or is a write of an order at work.
LEMMA Steps ==
    ASSUME [Next]_vars
    PROVE  Quiet \/ (Working /\ Write) \/ FinalizeNext
<1>1. CASE UNCHANGED vars
  BY <1>1 DEF Quiet, vars
<1>2. CASE UseCompleted
  BY <1>2 DEF UseCompleted, Quiet
<1>3. ASSUME NEW found \in SUBSET Cps, Collect(found) PROVE Quiet
  BY <1>3 DEF Collect, Quiet
<1>4. ASSUME NEW probes \in SUBSET Probes, Ingest(probes) PROVE Quiet
  BY <1>4 DEF Ingest, Quiet
<1>5. CASE Step
  <2>1. CASE SaveNext
    <3>1. Working /\ Save(Head(todo))
      BY <2>1 DEF SaveNext
    <3>2. collections' = collections
      BY <3>1 DEF Save, SaveCoverage, SaveMetricObservation, InsertObservation,
                  SavePairSizeObservation, SavePairObservation, SaveFeatureObservation
    <3> QED
      BY <3>1, <3>2 DEF Write
  <2>2. CASE CaptureNext
    <3>1. Working
      BY <2>2 DEF CaptureNext
    <3>2. collections' = collections
      BY <2>2 DEF CaptureNext, WriteRaster, tables
    <3> QED
      BY <3>1, <3>2 DEF Write
  <2>3. CASE PairsNext
    BY <2>3 DEF PairsNext, Quiet
  <2>4. CASE FinalizeFails
    BY <2>4 DEF FinalizeFails, Quiet
  <2>5. CASE Reconstruct
    BY <2>5 DEF Reconstruct, Quiet
  <2> QED
    BY <1>5, <2>1, <2>2, <2>3, <2>4, <2>5 DEF Step
<1>6. ASSUME NEW torn \in BOOLEAN, Abort(torn) PROVE Quiet \/ (Working /\ Write)
  <2>1. CASE torn
    BY <1>6, <2>1 DEF Abort, WriteRaster, Write
  <2>2. CASE ~torn
    BY <1>6, <2>2 DEF Abort, Quiet
  <2> QED
    BY <2>1, <2>2
<1>7. ASSUME NEW f \in Fonts, PageChanges(f) PROVE Quiet
  BY <1>7 DEF PageChanges, Quiet
<1>8. ASSUME NEW b \in Browsers, BrowserUpgrade(b) PROVE Quiet
  BY <1>8 DEF BrowserUpgrade, Quiet
<1> QED
  BY <1>1, <1>2, <1>3, <1>4, <1>5, <1>6, <1>7, <1>8 DEF Next

-----------------------------------------------------------------------------
(* Types *)

LEMMA SaveTypes ==
    ASSUME TypeOK, NEW w, Save(w)
    PROVE  DOMAIN obs' = Browsers /\ MeasuredOK(obs')
<1>1. CASE obs' = obs
  BY <1>1 DEF TypeOK
<1>2. CASE InsertObservation(browser, w.cp, w.slot, PathOf(w), Png(font, By), font)
  <2>1. PICK key, path, png :
            obs' = [obs EXCEPT ![browser] = Put(@, key, [path |-> path, png |-> png, measured |-> font])]
    BY <1>2 DEF InsertObservation
  <2> DEFINE row == [path |-> path, png |-> png, measured |-> font]
  <2>2. DOMAIN obs' = Browsers /\ obs'[browser] = Put(obs[browser], key, row)
        /\ \A b \in Browsers : b # browser => obs'[b] = obs[b]
    BY <2>1 DEF TypeOK
  <2>3. DOMAIN Put(obs[browser], key, row) = DOMAIN obs[browser] \cup {key}
        /\ \A k \in DOMAIN obs[browser] \cup {key} :
              Put(obs[browser], key, row)[k] = IF k = key THEN row ELSE obs[browser][k]
    BY DEF Put
  <2>4. row.measured \in Fonts
    BY DEF TypeOK
  <2> HIDE DEF row
  <2>5. ASSUME NEW b \in Browsers, NEW k \in DOMAIN obs'[b] PROVE obs'[b][k].measured \in Fonts
    BY <2>2, <2>3, <2>4 DEF TypeOK, MeasuredOK
  <2> QED
    BY <2>2, <2>5 DEF MeasuredOK
<1> QED
  BY <1>1, <1>2 DEF Save, SaveCoverage, SaveMetricObservation, SavePairSizeObservation,
                    SavePairObservation, SaveFeatureObservation

LEMMA TypeStep ==
    ASSUME TypeOK, [Next]_vars
    PROVE  TypeOK'
<1>1. CASE UNCHANGED vars
  BY <1>1 DEF vars, tables, TypeOK
<1>2. CASE UseCompleted
  BY <1>2 DEF UseCompleted, Keep, tables, TypeOK, Phases
<1>3. ASSUME NEW found \in SUBSET Cps, Collect(found) PROVE TypeOK'
  BY <1>3 DEF Collect, Keep, tables, TypeOK, Phases
<1>4. ASSUME NEW probes \in SUBSET Probes, Ingest(probes) PROVE TypeOK'
  BY <1>4 DEF Ingest, Keep, tables, TypeOK, Phases
<1>5. CASE SaveNext
  <2>1. DOMAIN obs' = Browsers /\ MeasuredOK(obs')
    BY <1>5, SaveTypes DEF SaveNext
  <2>2. collections' = collections
    BY <1>5 DEF SaveNext, Save, SaveCoverage, SaveMetricObservation, InsertObservation,
                SavePairSizeObservation, SavePairObservation, SaveFeatureObservation
  <2>3. UNCHANGED <<pc, browser, page, font, memory, pickle>>
    BY <1>5 DEF SaveNext, Keep
  <2> QED
    BY <2>1, <2>2, <2>3 DEF TypeOK, MeasuredOK
<1>6. CASE CaptureNext
  <2>1. UNCHANGED <<pc, browser, page, font, memory, pickle, obs, collections>>
    BY <1>6 DEF CaptureNext, Keep, WriteRaster, tables
  <2> QED
    BY <2>1 DEF TypeOK, MeasuredOK
<1>7. CASE PairsNext
  BY <1>7 DEF PairsNext, Keep, tables, TypeOK
<1>8. CASE FinalizeNext
  <2>1. UNCHANGED <<browser, page, font, pickle, obs>>
    BY <1>8 DEF FinalizeNext, Keep, RecordSourceCollectionCompleted
  <2>2. pc' \in Phases /\ DOMAIN memory' = Browsers
    BY <1>8 DEF FinalizeNext, TypeOK, Phases
  <2>3. collections' = [collections EXCEPT ![browser] = How] /\ How \in Hows
    BY <1>8 DEF FinalizeNext, RecordSourceCollectionCompleted, How, Hows
  <2> QED
    BY <2>1, <2>2, <2>3 DEF TypeOK, MeasuredOK
<1>9. CASE FinalizeFails
  BY <1>9 DEF FinalizeFails, Keep, tables, TypeOK, Phases
<1>10. CASE Reconstruct
  <2>1. UNCHANGED <<browser, page, font, collections, obs>> /\ pc' = "idle"
    BY <1>10 DEF Reconstruct, Keep, tables
  <2>2. DOMAIN memory' = Browsers /\ DOMAIN pickle' = Browsers
    BY <1>10 DEF Reconstruct, TypeOK
  <2> QED
    BY <2>1, <2>2 DEF TypeOK, MeasuredOK, Phases
<1>11. ASSUME NEW torn \in BOOLEAN, Abort(torn) PROVE TypeOK'
  <2>1. UNCHANGED <<browser, page, font, pickle, obs, collections>> /\ pc' = "idle"
    BY <1>11 DEF Abort, WriteRaster, tables
  <2>2. memory' = [b \in Browsers |-> NoModels]
    BY <1>11 DEF Abort
  <2> QED
    BY <2>1, <2>2 DEF TypeOK, MeasuredOK, Phases
<1>12. ASSUME NEW f \in Fonts, PageChanges(f) PROVE TypeOK'
  BY <1>12 DEF PageChanges, tables, TypeOK
<1>13. ASSUME NEW b \in Browsers, BrowserUpgrade(b) PROVE TypeOK'
  BY <1>13 DEF BrowserUpgrade, tables, TypeOK
<1> QED
  BY <1>1, <1>2, <1>3, <1>4, <1>5, <1>6, <1>7, <1>8, <1>9, <1>10, <1>11, <1>12, <1>13
     DEF Next, Step

-----------------------------------------------------------------------------
(* What is completed *)

\* A set of at most one element has the cardinality 0 or 1, and 1 is the one with an element.
LEMMA Few ==
    ASSUME OneOK
    PROVE  /\ IsFiniteSet(Completed)
           /\ Cardinality(Completed) <= 1
           /\ Cardinality(Completed) = 1 <=> Completed # {}
<1>1. CASE Completed = {}
  BY <1>1, FS_EmptySet
<1>2. CASE Completed # {}
  <2>1. PICK a \in Completed : TRUE
    BY <1>2
  <2>2. Completed = {a}
    BY <2>1 DEF OneOK
  <2>3. IsFiniteSet(Completed) /\ Cardinality(Completed) = 1
    BY <2>2, FS_Singleton
  <2> QED
    BY <1>2, <2>3
<1> QED
  BY <1>1, <1>2

\* An order starts to write only when nothing is completed.
LEMMA StartsEmpty ==
    ASSUME OneOK
    PROVE  /\ \A found \in SUBSET Cps : Collect(found) => Completed = {}
           /\ \A probes \in SUBSET Probes : Ingest(probes) => Completed = {}
BY Few DEF Collect, Ingest, Reusable

\* What a completion completes.
LEMMA Completes ==
    ASSUME TypeOK, OneOK, FinalizeNext
    PROVE  Completed = {} /\ Completed' = {browser}
<1>1. Completed = {}
  BY DEF FinalizeNext, OneOK
<1>2. collections' = [collections EXCEPT ![browser] = How] /\ How # "none"
  BY DEF FinalizeNext, RecordSourceCollectionCompleted, How
<1> QED
  BY <1>1, <1>2 DEF Completed, TypeOK

LEMMA SameCompleted ==
    ASSUME collections' = collections
    PROVE  Completed' = Completed
BY DEF Completed

LEMMA OneStep ==
    ASSUME TypeOK, OneOK, [Next]_vars
    PROVE  OneOK'
<1>1. CASE UNCHANGED vars
  BY <1>1, SameCompleted DEF vars, tables, OneOK, Working
<1>2. CASE UseCompleted
  <2>1. Completed' = Completed /\ pc' = "reusing"
    BY <1>2, SameCompleted DEF UseCompleted, tables
  <2>2. Completed # {}
    BY <1>2, Few DEF UseCompleted, Reusable
  <2>3. handed' \in Completed
    BY <1>2, <2>2 DEF UseCompleted, Reusable
  <2> QED
    BY <2>1, <2>3 DEF OneOK, Working
<1>3. ASSUME NEW found \in SUBSET Cps, Collect(found) PROVE OneOK'
  BY <1>3, StartsEmpty, SameCompleted DEF Collect, tables, OneOK, Working
<1>4. ASSUME NEW probes \in SUBSET Probes, Ingest(probes) PROVE OneOK'
  BY <1>4, StartsEmpty, SameCompleted DEF Ingest, tables, OneOK, Working
<1>5. CASE SaveNext
  <2>1. collections' = collections
    BY <1>5 DEF SaveNext, Save, SaveCoverage, SaveMetricObservation, InsertObservation,
                SavePairSizeObservation, SavePairObservation, SaveFeatureObservation
  <2> QED
    BY <1>5, <2>1, SameCompleted DEF SaveNext, OneOK, Working
<1>6. CASE CaptureNext
  <2>1. collections' = collections
    BY <1>6 DEF CaptureNext, WriteRaster, tables
  <2> QED
    BY <1>6, <2>1, SameCompleted DEF CaptureNext, OneOK, Working
<1>7. CASE PairsNext
  BY <1>7, SameCompleted DEF PairsNext, tables, OneOK, Working
<1>8. CASE FinalizeNext
  <2>1. Completed' = {browser} /\ handed' = browser /\ pc' \in {"rebuilding", "idle"}
    BY <1>8, Completes DEF FinalizeNext
  <2> QED
    BY <2>1 DEF OneOK, Working
<1>9. CASE FinalizeFails
  BY <1>9, SameCompleted DEF FinalizeFails, tables, OneOK, Working
<1>10. CASE Reconstruct
  BY <1>10, SameCompleted DEF Reconstruct, tables, OneOK, Working
<1>11. ASSUME NEW torn \in BOOLEAN, Abort(torn) PROVE OneOK'
  <2>1. collections' = collections /\ pc' = "idle"
    BY <1>11 DEF Abort, WriteRaster, tables
  <2> QED
    BY <2>1, SameCompleted DEF OneOK, Working
<1>12. ASSUME NEW f \in Fonts, PageChanges(f) PROVE OneOK'
  BY <1>12, SameCompleted DEF PageChanges, tables, OneOK, Working
<1>13. ASSUME NEW b \in Browsers, BrowserUpgrade(b) PROVE OneOK'
  BY <1>13, SameCompleted DEF BrowserUpgrade, tables, OneOK, Working
<1> QED
  BY <1>1, <1>2, <1>3, <1>4, <1>5, <1>6, <1>7, <1>8, <1>9, <1>10, <1>11, <1>12, <1>13
     DEF Next, Step

-----------------------------------------------------------------------------
(* The models that are kept *)

\* A model that is kept is of a completed identity and made from its evidence.
OfOwn(m, b) == m # NoModels => b \in Completed /\ m = [of |-> Evidence(b)]

LEMMA OwnStays ==
    ASSUME Quiet, NEW m, NEW b, OfOwn(m, b), NEW n, n \in {m, NoModels}
    PROVE  n # NoModels => b \in Completed' /\ n = [of |-> Evidence(b)']
<1>1. Evidence(b)' = Evidence(b) /\ Completed' = Completed
  BY SameViews, SameCompleted DEF Quiet, tables
<1> QED
  BY <1>1 DEF OfOwn

\* The models stay as they are or are dropped.
Dropped ==
    \A b \in Browsers :
        /\ memory'[b] \in {memory[b], NoModels}
        /\ pickle'[b] \in {pickle[b], NoModels}

LEMMA ModelsStay ==
    ASSUME ModelsOK, Dropped, Quiet \/ Completed = {}
    PROVE  ModelsOK'
<1>1. ASSUME NEW b \in Browsers
      PROVE  /\ memory'[b] # NoModels => b \in Completed' /\ memory'[b] = [of |-> Evidence(b)']
             /\ pickle'[b] # NoModels => b \in Completed' /\ pickle'[b] = [of |-> Evidence(b)']
  <2>1. OfOwn(memory[b], b) /\ OfOwn(pickle[b], b)
    BY DEF ModelsOK, OfOwn
  <2>2. CASE Quiet
    BY <2>1, <2>2, OwnStays DEF Dropped
  <2>3. CASE Completed = {}
    BY <2>1, <2>3 DEF OfOwn, Dropped
  <2> QED
    BY <2>2, <2>3
<1> QED
  BY <1>1 DEF ModelsOK

LEMMA ReconstructModels ==
    ASSUME TypeOK, OneOK, ModelsOK, Reconstruct
    PROVE  ModelsOK'
<1>0. PICK h : h = handed /\ handed' = h
  BY DEF Reconstruct
<1>1. h \in Completed /\ h \in Browsers
  BY <1>0 DEF Reconstruct, OneOK, Completed
<1>2. Quiet /\ Completed' = Completed
  BY SameCompleted DEF Reconstruct, Quiet, tables
<1>3. OfOwn(memory[h], h) /\ OfOwn(pickle[h], h)
  BY <1>1 DEF ModelsOK, OfOwn
<1> DEFINE Kept == IF memory[h] # NoModels THEN memory[h]
                   ELSE IF pc = "reusing" /\ pickle[h] # NoModels
                           /\ DOMAIN pickle[h].of = coverage[h]
                        THEN pickle[h]
                   ELSE NoModels
<1> DEFINE Models == IF Kept # NoModels THEN Kept ELSE [of |-> Evidence(h)]
<1>4. Models = [of |-> Evidence(h)]
  <2>1. Kept \in {memory[h], pickle[h], NoModels}
    OBVIOUS
  <2>2. OfOwn(Kept, h)
    BY <1>3, <2>1 DEF OfOwn
  <2> HIDE DEF Kept
  <2> QED
    BY <2>2 DEF OfOwn
<1>5. memory' = [memory EXCEPT ![h] = Models]
  BY <1>0 DEF Reconstruct
<1>6. pickle' = [pickle EXCEPT ![h] = Models] \/ pickle' = pickle
  BY <1>0 DEF Reconstruct
<1> HIDE DEF Models
<1>7. DOMAIN memory = Browsers /\ DOMAIN pickle = Browsers
  BY DEF TypeOK
<1>8. Evidence(h)' = Evidence(h)
  BY <1>2, SameViews
<1>9. ASSUME NEW b \in Browsers
      PROVE  /\ memory'[b] # NoModels => b \in Completed' /\ memory'[b] = [of |-> Evidence(b)']
             /\ pickle'[b] # NoModels => b \in Completed' /\ pickle'[b] = [of |-> Evidence(b)']
  <2>1. OfOwn(memory[b], b) /\ OfOwn(pickle[b], b)
    BY DEF ModelsOK, OfOwn
  <2>2. CASE b = h
    <3>1. memory'[b] = Models /\ pickle'[b] \in {Models, pickle[b]}
      BY <1>5, <1>6, <1>7, <2>2
    <3>2. Models = [of |-> Evidence(b)'] /\ b \in Completed'
      BY <1>1, <1>2, <1>4, <1>8, <2>2
    <3>3. pickle[b] # NoModels => pickle[b] = [of |-> Evidence(b)']
      BY <1>8, <2>1, <2>2 DEF OfOwn
    <3> QED
      BY <3>1, <3>2, <3>3
  <2>3. CASE b # h
    <3>1. memory'[b] = memory[b] /\ pickle'[b] = pickle[b]
      BY <1>5, <1>6, <1>7, <2>3
    <3> QED
      BY <1>2, <2>1, <3>1, OwnStays
  <2> QED
    BY <2>2, <2>3
<1> QED
  BY <1>9 DEF ModelsOK

LEMMA ModelsStep ==
    ASSUME TypeOK, OneOK, ModelsOK, [Next]_vars
    PROVE  ModelsOK'
<1>1. CASE Reconstruct
  BY <1>1, ReconstructModels
<1>2. CASE FinalizeNext
  <2>1. Completed = {}
    BY <1>2, Completes
  <2>2. Dropped
    BY <1>2 DEF FinalizeNext, Dropped, TypeOK
  <2> QED
    BY <2>1, <2>2, ModelsStay
<1>3. CASE ~Reconstruct /\ ~FinalizeNext
  <2>1. memory' = memory \/ memory' = [b \in Browsers |-> NoModels]
    BY <1>3 DEF Next, Step, vars, UseCompleted, Collect, Ingest, SaveNext, CaptureNext, PairsNext,
                FinalizeFails, Abort, PageChanges, BrowserUpgrade
  <2>2. pickle' = pickle
    BY <1>3 DEF Next, Step, vars, UseCompleted, Collect, Ingest, SaveNext, CaptureNext, PairsNext,
                FinalizeFails, Abort, PageChanges, BrowserUpgrade
  <2>3. Dropped
    BY <2>1, <2>2 DEF Dropped
  <2>4. Quiet \/ Working
    BY <1>3, Steps
  <2>5. Quiet \/ Completed = {}
    BY <2>4 DEF OneOK
  <2> QED
    BY <2>3, <2>5, ModelsStay
<1> QED
  BY <1>1, <1>2, <1>3

-----------------------------------------------------------------------------
(* A completion is whole *)

\* The font whose metrics set the schedule of a glyph is one that was measured: obs[0] exists.
LEMMA MeasuredFont ==
    ASSUME TypeOK, NEW b \in Browsers, NEW cp, Valid(b, cp) # {},
           StoredSlots(b, cp) \subseteq Nat \X Nat
    PROVE  obs[b][<<cp, FirstOf(Valid(b, cp))>>].measured \in Fonts
<1>1. Valid(b, cp) \subseteq Nat \X Nat
  BY DEF Valid
<1>2. PICK s : s = FirstOf(Valid(b, cp)) /\ s \in Valid(b, cp)
  BY <1>1, FirstIsOne
<1>3. <<cp, s>> \in DOMAIN obs[b]
  BY <1>2 DEF Valid, HasObservation
<1> QED
  BY <1>2, <1>3 DEF TypeOK, MeasuredOK

LEMMA CheckedSlots ==
    ASSUME TypeOK, NEW b \in Browsers, NEW how \in {"direct", "provider"}, RastersWhole(b, how),
           NEW cp \in coverage[b]
    PROVE  \E f \in Fonts :
              StoredSlots(b, cp) = ToSet(IF how = "provider" THEN ProviderSchedule
                                         ELSE DirectSchedule(f, cp))
<1>1. StoredSlots(b, cp) = ScheduleOf(b, cp, how)
  BY DEF RastersWhole
<1>2. CASE how = "provider"
  BY <1>1, <1>2 DEF ScheduleOf, TypeOK
<1>3. CASE how = "direct"
  <2> DEFINE f == obs[b][<<cp, FirstOf(Valid(b, cp))>>].measured
  <2>1. StoredSlots(b, cp) = ToSet(DirectSchedule(f, cp))
    BY <1>1, <1>3 DEF ScheduleOf
  <2>2. StoredSlots(b, cp) \subseteq Nat \X Nat
    <3> HIDE DEF f
    <3> QED
      BY <2>1, ScheduleOfNumbers
  <2>3. Valid(b, cp) # {}
    BY DEF RastersWhole, ObservedCps
  <2>4. f \in Fonts
    BY <2>2, <2>3, MeasuredFont
  <2> HIDE DEF f
  <2> QED
    BY <1>3, <2>1, <2>4
<1> QED
  BY <1>2, <1>3

LEMMA CheckedIntact ==
    ASSUME NEW b, NEW how, RastersWhole(b, how)
    PROVE  IntactOK(b)
<1>1. ASSUME NEW cp \in Cps PROVE StoredSlots(b, cp) = Valid(b, cp)
  <2>1. Valid(b, cp) \subseteq StoredSlots(b, cp)
    BY DEF Valid
  <2>2. CASE cp \in coverage[b]
    BY <2>1, <2>2 DEF RastersWhole
  <2>3. CASE cp \notin coverage[b]
    BY <2>1, <2>3 DEF RastersWhole
  <2> QED
    BY <2>2, <2>3
<1> QED
  BY <1>1 DEF IntactOK

LEMMA FinalizeWhole ==
    ASSUME TypeOK, OneOK, FinalizeNext
    PROVE  WholeOK'
<1>1. PICK b \in Browsers : b = browser
  BY DEF TypeOK
<1>2. Completed' = {b}
  BY <1>1, Completes
<1>3. PICK how \in {"direct", "provider"} : how = How
  BY DEF How
<1>4. FinalizeChecks(b, how)
  BY <1>1, <1>3 DEF FinalizeNext
<1>5. collections'[b] = how
  BY <1>1, <1>3 DEF FinalizeNext, RecordSourceCollectionCompleted, TypeOK
<1>6. coverage' = coverage /\ obs' = obs /\ files' = files /\ pairSizes' = pairSizes
      /\ pairs' = pairs /\ features' = features
  BY DEF FinalizeNext, RecordSourceCollectionCompleted
<1>7. coverage[b] # {} /\ features[b] = Probes /\ RastersWhole(b, how)
      /\ PairsWhole(b, ExpectedPairs(b, how))
  BY <1>4 DEF FinalizeChecks
<1>8. SlotsOK(b)'
  <2>1. \A cp : StoredSlots(b, cp)' = StoredSlots(b, cp)
    BY <1>6 DEF StoredSlots
  <2> QED
    BY <1>5, <1>6, <1>7, <2>1, CheckedSlots DEF SlotsOK
<1>9. IntactOK(b)'
  <2>1. IntactOK(b)
    BY <1>7, CheckedIntact
  <2> QED
    BY <1>6, <2>1 DEF IntactOK, StoredSlots, Valid, HasObservation
<1>10. PairsOK(b)'
  <2>1. how = "direct" => DOMAIN pairs[b] = BoundedIn(coverage[b])
    BY <1>7 DEF PairsWhole, ExpectedPairs
  <2>2. \A p \in DOMAIN pairs[b] : pairs[b][p] = DeriveMultisizeKerning(RowsOf(b, p))
    BY <1>7 DEF PairsWhole
  <2> QED
    BY <1>5, <1>6, <2>1, <2>2 DEF PairsOK, RowsOf, BoundedIn
<1> QED
  BY <1>2, <1>6, <1>7, <1>8, <1>9, <1>10 DEF WholeOK

LEMMA WholeStep ==
    ASSUME TypeOK, OneOK, WholeOK, [Next]_vars
    PROVE  WholeOK'
<1>1. CASE Quiet
  BY <1>1, SameWhole
<1>2. CASE Working /\ Write
  <2>1. Completed' = {}
    BY <1>2, SameCompleted DEF OneOK, Write
  <2> QED
    BY <2>1 DEF WholeOK
<1>3. CASE FinalizeNext
  BY <1>3, FinalizeWhole
<1> QED
  BY <1>1, <1>2, <1>3, Steps

-----------------------------------------------------------------------------
(* The invariant *)

LEMMA InitInv == Init => IInv
<1> SUFFICES ASSUME Init PROVE IInv
  OBVIOUS
<1>1. Completed = {}
  BY DEF Init, StoreInit, Completed
<1>2. browser \in Browsers
  BY StoreConstants DEF Init
<1>3. MeasuredOK(obs)
  BY DEF Init, StoreInit, MeasuredOK
<1>4. TypeOK
  BY <1>2, <1>3 DEF Init, StoreInit, TypeOK, Phases, Hows
<1>5. OneOK
  BY <1>1 DEF Init, OneOK, Working
<1>6. ModelsOK
  BY DEF Init, ModelsOK
<1> QED
  BY <1>1, <1>4, <1>5, <1>6 DEF IInv, WholeOK

LEMMA NextInv == IInv /\ [Next]_vars => IInv'
BY TypeStep, OneStep, ModelsStep, WholeStep DEF IInv

\* The inductive invariant: the code reuses, hands over and reconstructs from completed
\* collections only, and writes to the store only while there is none.
THEOREM Invariance == Spec => []IInv
BY InitInv, NextInv, PTL DEF Spec

\* However orders are cut short, whatever the lanes find and whichever browser runs, one
\* collection of a style is completed at most: completed[0] of the runner and the single
\* match of acquire_source are the same one.
THEOREM IdentityIsOne == Spec => []OneIdentity
<1>1. IInv => OneIdentity
  BY Few DEF IInv, OneIdentity
<1> QED
  BY <1>1, Invariance, PTL

\* Nothing that is done later, for another browser, under the path that ingested rasters
\* share or in an order that is cut short, changes what a completed collection shows.
THEOREM CompletedStays == Spec => CompletedIsFrozen
<1>1. IInv /\ [Next]_vars => [\A b \in Completed : Snapshot(b)' = Snapshot(b)]_vars
  <2> SUFFICES ASSUME IInv, [Next]_vars, NEW b \in Completed PROVE Snapshot(b)' = Snapshot(b)
    OBVIOUS
  <2>1. ~Working
    BY DEF IInv, OneOK
  <2>2. Quiet
    BY <2>1, Steps DEF FinalizeNext
  <2> QED
    BY <2>2, SameViews
<1> QED
  BY <1>1, Invariance, PTL DEF Spec, CompletedIsFrozen

\* A completed collection is whole although several orders may have put it together that saw
\* different fonts, and the models kept of it are made from it: finalize_source_collection
\* and the reconstruction caches.
THEOREM WholeWhenCompleted == Spec => []CompletedIsWhole
<1>1. IInv => CompletedIsWhole
  <2> SUFFICES ASSUME IInv, NEW b \in Completed
               PROVE  /\ coverage[b] # {} /\ features[b] = Probes
                      /\ SlotsOK(b) /\ IntactOK(b) /\ PairsOK(b)
                      /\ {memory[b], pickle[b]} \subseteq {NoModels, [of |-> Evidence(b)]}
    BY DEF CompletedIsWhole, SlotsOK, IntactOK, PairsOK
  <2>1. coverage[b] # {} /\ features[b] = Probes /\ SlotsOK(b) /\ IntactOK(b) /\ PairsOK(b)
    BY DEF IInv, WholeOK
  <2>2. {memory[b], pickle[b]} \subseteq {NoModels, [of |-> Evidence(b)]}
    <3>1. b \in Browsers
      BY DEF Completed
    <3> QED
      BY <3>1 DEF IInv, ModelsOK
  <2> QED
    BY <2>1, <2>2
<1> QED
  BY <1>1, Invariance, PTL

-----------------------------------------------------------------------------
(* Acquisition: the inductive invariant *)

Stages == {"idle", "preflight", "preflight_stealth", "dump", "stealth_binary", "stealth_raster",
           "cdn", "handover", "finish", "failed"}

\* The stages in which a style is worked on, or will be.
AtStyle == {"preflight", "preflight_stealth", "dump", "stealth_binary", "stealth_raster", "cdn",
            "handover"}

Links(cands) ==
    /\ IsList(cands)
    /\ \A k \in DOMAIN cands : ~cands[k].embedded =>
            \A s \in Served : cands[k].at \in DOMAIN s /\ IsFont(s[cands[k].at])

\* Records whose hashes are of known fonts.
Records(recs) ==
    IsList(recs) /\ \A i \in DOMAIN recs : recs[i].md5 \in {NoHash} \cup DOMAIN Crawls

EnvelopeOK(e) == Records(e.styles) /\ \A i \in DOMAIN e.styles : Links(e.styles[i].cands)

DumpOK(d) == \A k \in DOMAIN d : IsFont(d[k])

\* An outcome shows nothing, or what fits the style.
Shows(o, name) == o.kind = "insufficient" \/ Fits(o, name)

StageOK ==
    /\ stage \in Stages /\ spoiled \in BOOLEAN
    /\ stage # "idle" => asked \in Orders
    /\ IsList(taken)
    /\ stage \in {"preflight", "preflight_stealth"} => taken = <<>>
    /\ stage \in AtStyle => at \in DOMAIN asked.styles /\ at = Len(taken) + 1

LanesOK ==
    /\ stage = "preflight" => lanes = {}
    /\ stage = "preflight_stealth" => lanes = {"dump"}

EnvelopesOK ==
    /\ EnvelopeOK(env) /\ EnvelopeOK(cachedEnv) /\ DumpOK(cachedDump)
    /\ stage \in {"stealth_binary", "stealth_raster", "cdn"} => FamilyMatches

OutcomeOK == stage = "handover" => Shows(outcome, Style.name)

AcquisitionInv ==
    /\ StageOK /\ LanesOK /\ EnvelopesOK /\ OutcomeOK
    /\ NoSilentDegrade /\ KeptIsNamed /\ AuthorisedIsWhole

-----------------------------------------------------------------------------
(* Records and binaries *)

LEMMA ListDomain ==
    ASSUME NEW s, IsList(s)
    PROVE  Len(s) \in Nat /\ DOMAIN s = 1..Len(s)
BY DEF IsList

LEMMA FirstOfList ==
    ASSUME NEW n \in Nat, NEW S, S \subseteq 1..n, S # {}
    PROVE  (CHOOSE i \in S : \A k \in S : i <= k) \in S
<1>1. S \subseteq Nat
  OBVIOUS
<1>2. \E i \in S : \A k \in S : i <= k
  BY <1>1, Least, Zenon
<1> QED
  BY <1>2, Zenon

\* A record that answers for a name is one of the envelope.
LEMMA RecordIsListed ==
    ASSUME NEW recs, IsList(recs), NEW id, NEW name
    PROVE  LET rec == GetStyleRecord(recs, id, name)
           IN  rec = NoRecord \/ \E i \in DOMAIN recs : rec = recs[i]
<1> DEFINE exact == {i \in DOMAIN recs : recs[i].key = id}
           near == {i \in DOMAIN recs : Resembles(recs[i], id, name)}
           first(S) == CHOOSE i \in S : \A k \in S : i <= k
<1>1. DOMAIN recs = 1..Len(recs) /\ Len(recs) \in Nat
  BY DEF IsList
<1>2. exact # {} => first(exact) \in exact
  BY <1>1, FirstOfList
<1>3. near # {} => first(near) \in near
  BY <1>1, FirstOfList
<1>4. GetStyleRecord(recs, id, name) =
        IF exact # {} THEN recs[first(exact)] ELSE IF near # {} THEN recs[first(near)] ELSE NoRecord
  BY Zenon DEF GetStyleRecord
<1>5. \A i \in exact \cup near : i \in DOMAIN recs
  OBVIOUS
<1> HIDE DEF exact, near, first
<1> QED
  BY <1>2, <1>3, <1>4, <1>5

\* The hash of the record that answers for a name is among those given for the name.
LEMMA HashIsNamed ==
    ASSUME NEW recs, Records(recs), NEW name
    PROVE  LET rec == GetStyleRecord(recs, name, name)
           IN  rec # NoRecord => /\ rec.md5 \in HashesFor(recs, name)
                                 /\ rec.md5 \in {NoHash} \cup DOMAIN Crawls
<1> DEFINE at1 == {i \in DOMAIN recs : recs[i].key = name}
           at2 == {i \in DOMAIN recs : Resembles(recs[i], name, name)}
           first(S) == CHOOSE i \in S : \A k \in S : i <= k
           all == {recs[i] : i \in DOMAIN recs}
           exact == {r \in all : r.key = name}
           near == {r \in all : Resembles(r, name, name)}
<1>1. DOMAIN recs = 1..Len(recs) /\ Len(recs) \in Nat
  BY DEF Records, IsList
<1>2. at1 # {} => first(at1) \in at1
  BY <1>1, FirstOfList
<1>3. at2 # {} => first(at2) \in at2
  BY <1>1, FirstOfList
<1>4. GetStyleRecord(recs, name, name) =
        IF at1 # {} THEN recs[first(at1)] ELSE IF at2 # {} THEN recs[first(at2)] ELSE NoRecord
  BY Zenon DEF GetStyleRecord
<1>5. HashesFor(recs, name) = {r.md5 : r \in IF exact # {} THEN exact ELSE near}
  BY Zenon DEF HashesFor
<1>6. (\A i \in at1 : recs[i] \in exact) /\ (at1 = {} => exact = {}) /\ (\A i \in at2 : recs[i] \in near)
  OBVIOUS
<1>7. \A i \in at1 \cup at2 : recs[i].md5 \in {NoHash} \cup DOMAIN Crawls
  BY DEF Records
<1> HIDE DEF at1, at2, first, all, exact, near
<1>8. CASE at1 # {}
  <2>1. GetStyleRecord(recs, name, name) = recs[first(at1)] /\ first(at1) \in at1
    BY <1>2, <1>4, <1>8
  <2>2. recs[first(at1)] \in exact
    BY <1>6, <2>1, Zenon
  <2>3. recs[first(at1)].md5 \in HashesFor(recs, name)
    BY <1>5, <2>2
  <2> QED
    BY <1>7, <2>1, <2>3
<1>9. CASE at1 = {} /\ at2 # {}
  <2>1. GetStyleRecord(recs, name, name) = recs[first(at2)] /\ first(at2) \in at2
    BY <1>3, <1>4, <1>9
  <2>2. recs[first(at2)] \in near /\ exact = {}
    BY <1>6, <1>9, <2>1, Zenon
  <2>3. recs[first(at2)].md5 \in HashesFor(recs, name)
    BY <1>5, <2>2
  <2> QED
    BY <1>7, <2>1, <2>3
<1>10. CASE at1 = {} /\ at2 = {}
  BY <1>4, <1>10
<1> QED
  BY <1>8, <1>9, <1>10

\* The candidates lead to a font or to nothing.
LEMMA ExtractedIsFont ==
    ASSUME NEW cands, Links(cands), NEW inline, DumpOK(inline), NEW served \in Served
    PROVE  IsFont(ExtractBinary(cands, inline, served))
<1>1. ASSUME NEW i \in DOMAIN cands PROVE IsFont(Payload(cands[i], inline, served))
  BY DEF Payload, Links, DumpOK, IsFont, NoFont
<1>2. IsFont(NoFont)
  BY DEF IsFont, NoFont
<1> DEFINE fonts == {i \in DOMAIN cands : Payload(cands[i], inline, served) # NoFont}
           least == CHOOSE i \in fonts : \A k \in fonts : i <= k
<1>3. ASSUME fonts # {} PROVE least \in DOMAIN cands
  <2>1. fonts \subseteq 1..Len(cands) /\ Len(cands) \in Nat
    BY DEF Links, IsList
  <2>2. least \in fonts
    BY <1>3, <2>1, FirstOfList
  <2> QED
    BY <2>2
<1>4. ExtractBinary(cands, inline, served) =
        IF fonts = {} THEN NoFont ELSE Payload(cands[least], inline, served)
  BY Zenon DEF ExtractBinary
<1> HIDE DEF fonts, least
<1> QED
  BY <1>1, <1>2, <1>3, <1>4

LEMMA VerifiedIsOrdered ==
    ASSUME NEW f, IsFont(f), NEW name, VerifyAcquiredBinary(f, Family, name) = "VALID"
    PROVE  f = [fam |-> Family, sty |-> name]
<1>1. f.fam = Family /\ f.sty = name
  BY DEF VerifyAcquiredBinary
<1> QED
  BY <1>1 DEF IsFont

\* What discovery makes of a page.
LEMMA FoundIsOK ==
    ASSUME NEW p \in Pages, NEW by
    PROVE  EnvelopeOK(ParseFamilyDiscovery(p, by))
<1> DEFINE rows == PageRows(p)
           Rec(r) == [key |-> r.key, name |-> r.name, md5 |-> r.md5, cands |-> p.cands]
           styles == [i \in DOMAIN rows |-> Rec(rows[i])]
<1>1. IsList(rows) /\ Links(p.cands)
      /\ \A i \in DOMAIN rows : rows[i].md5 \in {NoHash} \cup DOMAIN Crawls
  BY PagesAssumption, Zenon DEF Links
<1>2. ParseFamilyDiscovery(p, by) = [family |-> p.family, styles |-> styles, by |-> by]
  BY Zenon DEF ParseFamilyDiscovery
<1>3. ASSUME NEW r PROVE Rec(r).md5 = r.md5
  OBVIOUS
<1> HIDE DEF rows
<1>4. IsList(styles)
  <2>1. PICK n \in Nat : n = Len(rows) /\ DOMAIN rows = 1..n
    BY <1>1 DEF IsList
  <2> DEFINE F(i) == Rec(rows[i])
  <2>2. styles = [i \in 1..n |-> F(i)]
    BY <2>1
  <2> HIDE DEF F
  <2>3. Len(styles) = n
    BY <2>2
  <2>4. styles = [i \in 1..n |-> styles[i]]
    BY <2>2
  <2> HIDE DEF styles
  <2> QED
    BY <2>3, <2>4 DEF IsList
<1>5. \A i \in DOMAIN styles : i \in DOMAIN rows /\ styles[i] = Rec(rows[i]) /\ styles[i].cands = p.cands
  OBVIOUS
<1> HIDE DEF styles, Rec
<1>6. \A i \in DOMAIN styles : Links(styles[i].cands)
  BY <1>1, <1>5, Zenon
<1>7. Records(styles)
  BY <1>1, <1>3, <1>4, <1>5, Zenon DEF Records
<1>8. [family |-> p.family, styles |-> styles, by |-> by].styles = styles
  OBVIOUS
<1> QED
  BY <1>2, <1>6, <1>7, <1>8, Zenon DEF EnvelopeOK

LEMMA EmptyIsOK ==
    ASSUME NEW e, e.styles = <<>>
    PROVE  EnvelopeOK(e)
BY DEF EnvelopeOK, Records, IsList

LEMMA DumpOfPage ==
    /\ \A p \in Pages : DumpOK(p.inline)
    /\ DumpOK(NoDump) /\ DumpOK(<<>>)
<1>1. DumpOK(NoDump) /\ DumpOK(<<>>)
  BY DEF DumpOK, NoDump, IsFont, NoFont
<1> QED
  BY <1>1, PagesAssumption DEF DumpOK

LEMMA WholeUnlessRaster ==
    ASSUME NEW o, o.kind # "raster_authorized" \/ o.lane = "playwright_stealth_persistent", outcome' = o
    PROVE  AuthorisedIsWhole'
BY DEF AuthorisedIsWhole

LEMMA WholeStays ==
    ASSUME AuthorisedIsWhole, UNCHANGED outcome
    PROVE  AuthorisedIsWhole'
BY DEF AuthorisedIsWhole, Shown

LEMMA KeptStays ==
    ASSUME KeptIsNamed, UNCHANGED <<asked, taken, env>>
    PROVE  KeptIsNamed'
BY DEF KeptIsNamed, Fits, NamedRaster, RecordFor, FamilyMatches

-----------------------------------------------------------------------------
(* Crawls *)

LEMMA ImageIsFinite ==
    ASSUME NEW n \in Nat, NEW f, DOMAIN f = 1..n
    PROVE  IsFiniteSet({f[i] : i \in 1..n})
<1> DEFINE T == {f[i] : i \in 1..n}
<1>1. IsFiniteSet(1..n)
  BY FS_Interval
<1> DEFINE g == [i \in 1..n |-> f[i]]
<1>2. g \in Surjection(1..n, T)
  BY DEF Surjection
<1> HIDE DEF T, g
<1> QED
  BY <1>1, <1>2, FS_Surjection, Zenon DEF T

LEMMA SameEnd ==
    ASSUME NEW m \in Nat, NEW n \in Nat, 1..m = 1..n
    PROVE  m = n
<1>1. m >= 1 => m \in 1..n
  OBVIOUS
<1>2. n >= 1 => n \in 1..m
  OBVIOUS
<1> QED
  BY <1>1, <1>2

\* What a page that was taken says of the answer it was made of.
LEMMA ParsedPage ==
    ASSUME NEW a, NEW i \in Nat \ {0}, NEW pt, NEW md5, ParsePage(a, i, pt, md5) # NoPage
    PROVE  LET p == ParsePage(a, i, pt, md5)
           IN  /\ a.ok /\ p.idx = i /\ p.pt = pt /\ p.glyphs = Mapped(a.slots)
               /\ p.final <=> a.slots = <<>>
               /\ p.next = 0 <=> a.slots = <<>>
               /\ a.slots # <<>> => Mapped(a.slots) # <<>>
<1> DEFINE end == IF a.slots = <<>> THEN 0 ELSE i + 1
<1>1. a.ok /\ (a.slots # <<>> => Mapped(a.slots) # <<>>)
  BY Zenon DEF ParsePage
<1>2. ParsePage(a, i, pt, md5) =
        [idx |-> i, pt |-> pt, md5 |-> md5, by |-> "monotype_render_105",
         glyphs |-> Mapped(a.slots), final |-> a.slots = <<>>, next |-> end, tofu |-> a.tofu]
  BY Zenon DEF ParsePage
<1>3. end = 0 <=> a.slots = <<>>
  OBVIOUS
<1> HIDE DEF end
<1> DEFINE p == ParsePage(a, i, pt, md5)
<1>4. p.idx = i /\ p.pt = pt /\ p.glyphs = Mapped(a.slots) /\ p.next = end
  BY <1>2
<1>5. p.final <=> a.slots = <<>>
  <2>1. PICK f : f = (a.slots = <<>>)
    OBVIOUS
  <2>2. p = [idx |-> i, pt |-> pt, md5 |-> md5, by |-> "monotype_render_105",
             glyphs |-> Mapped(a.slots), final |-> f, next |-> end, tofu |-> a.tofu]
    BY <1>2, <2>1, Zenon
  <2>3. p.final = f
    BY <2>2
  <2> HIDE DEF p
  <2>4. CASE a.slots = <<>>
    BY <2>1, <2>3, <2>4, Zenon
  <2>5. CASE a.slots # <<>>
    BY <2>1, <2>3, <2>5, Zenon
  <2> QED
    BY <2>4, <2>5, Zenon
<1> QED
  BY <1>1, <1>3, <1>4, <1>5, Zenon

\* A size that is complete ends with the page that has nothing to show.
LEMMA SizeIsWhole ==
    ASSUME NEW md5 \in DOMAIN Crawls, NEW answers \in Crawls[md5], NEW pt \in Sizes,
           SizeComplete(FetchSize(answers[pt], pt, md5))
    PROVE  CodePoints(FetchSize(answers[pt], pt, md5)) = FontCps(md5)
<1> DEFINE a == answers[pt]
           got(i) == ParsePage(a[i], i, pt, md5)
           stop(i) == got(i) = NoPage \/ got(i).final \/ i = MaxSpritePages
           last == CHOOSE i \in 1..MaxSpritePages : stop(i) /\ \A k \in 1..(i - 1) : ~stop(k)
           ps == {got(i) : i \in 1..last} \ {NoPage}
<1>1. FetchSize(a, pt, md5) = ps
  BY Zenon DEF FetchSize
<1>2. last \in 1..MaxSpritePages /\ stop(last) /\ \A k \in 1..(last - 1) : ~stop(k)
  <2> DEFINE S == {i \in 1..MaxSpritePages : stop(i)}
  <2>1. MaxSpritePages \in S /\ S \subseteq Nat
    BY MaxSpritePagesAssumption
  <2>2. PICK i \in S : \A h \in S : i <= h
    <3> HIDE DEF S
    <3> QED
      BY <2>1, Least
  <2>3. ASSUME NEW k \in 1..(i - 1) PROVE ~stop(k)
    <3>1. k \in 1..MaxSpritePages /\ ~(i <= k)
      BY <2>2, MaxSpritePagesAssumption
    <3> QED
      BY <2>2, <3>1
  <2>4. \E j \in 1..MaxSpritePages : stop(j) /\ \A k \in 1..(j - 1) : ~stop(k)
    BY <2>2, <2>3
  <2> HIDE DEF stop
  <2> QED
    BY <2>4
<1>3. ASSUME NEW i \in 1..last, got(i) # NoPage
      PROVE  /\ a[i].ok /\ got(i).idx = i /\ got(i).glyphs = Mapped(a[i].slots)
             /\ got(i).final <=> a[i].slots = <<>>
             /\ got(i).next = 0 <=> a[i].slots = <<>>
             /\ a[i].slots # <<>> => Mapped(a[i].slots) # <<>>
  <2>1. i \in Nat \ {0}
    <3> HIDE DEF last
    <3> QED
      BY <1>2, MaxSpritePagesAssumption
  <2> HIDE DEF a
  <2> QED
    BY <1>3, <2>1, ParsedPage
<1>4. last \in Nat \ {0}
  <2> HIDE DEF last
  <2> QED
    BY <1>2, MaxSpritePagesAssumption
<1>5. ASSUME NEW k \in 1..(last - 1)
      PROVE  /\ k \in 1..last /\ got(k) # NoPage /\ got(k) \in ps /\ a[k].slots # <<>>
             /\ Mapped(a[k].slots) # <<>>
  <2>1. k \in 1..last
    BY <1>4
  <2>2. got(k) # NoPage /\ ~got(k).final
    BY <1>2
  <2> HIDE DEF got
  <2> QED
    BY <1>3, <2>1, <2>2
<1>6. Cardinality(ps) \in Nat
  <2> DEFINE f == [i \in 1..last |-> got(i)]
  <2>1. IsFiniteSet({f[i] : i \in 1..last})
    <3>1. DOMAIN f = 1..last
      OBVIOUS
    <3> HIDE DEF f
    <3> QED
      BY <1>4, <3>1, ImageIsFinite
  <2>2. ps \in SUBSET {f[i] : i \in 1..last}
    <3> HIDE DEF got
    <3> QED
      OBVIOUS
  <2> HIDE DEF ps, f
  <2> QED
    BY <2>1, <2>2, FS_Subset, FS_CardinalityType
<1> HIDE DEF a, stop, last
<1>7. /\ {p.idx : p \in ps} = 1..Cardinality(ps)
      /\ \A p \in ps :
            IF p.idx < Cardinality(ps) THEN ~p.final /\ p.next # 0 /\ p.glyphs # <<>>
            ELSE p.final \/ p.next = 0 \/ p.glyphs = <<>>
      /\ \E p \in ps : p.glyphs # <<>>
  BY <1>1, Zenon DEF SizeComplete, Numbered, a
<1> HIDE DEF got
<1>8. ASSUME NEW n \in 1..last, \A p \in ps : \E i \in 1..n : p = got(i),
             \A i \in 1..n : got(i) \in ps /\ got(i) # NoPage
      PROVE  a[n].slots = <<>>
  <2>1. {p.idx : p \in ps} = 1..n
    <3>1. \A i \in 1..n : got(i) \in ps /\ got(i).idx = i
      <4>1. \A i \in 1..n : i \in 1..last
        BY <1>4
      <4> QED
        BY <1>3, <1>8, <4>1
    <3>2. \A p \in ps : p.idx \in 1..n
      BY <1>8, <3>1
    <3> HIDE DEF ps
    <3> QED
      BY <3>1, <3>2
  <2>2. n = Cardinality(ps) /\ n \in Nat
    <3> HIDE DEF ps
    <3>1. n \in Nat
      BY <1>4
    <3>2. 1..n = 1..Cardinality(ps)
      BY <1>7, <2>1, Zenon
    <3> QED
      BY <1>6, <3>1, <3>2, SameEnd
  <2>3. got(n) \in ps /\ got(n) # NoPage /\ got(n).idx = n
    BY <1>3, <1>4, <1>8
  <2>4. got(n).final \/ got(n).next = 0 \/ got(n).glyphs = <<>>
    <3> HIDE DEF ps
    <3> QED
      BY <1>7, <2>2, <2>3
  <2> QED
    BY <1>3, <2>3, <2>4
<1>9. got(last) # NoPage
  <2> SUFFICES ASSUME got(last) = NoPage PROVE FALSE
    OBVIOUS
  <2>1. \A p \in ps : \E i \in 1..(last - 1) : p = got(i)
    <3> SUFFICES ASSUME NEW i \in 1..last, got(i) # NoPage PROVE i \in 1..(last - 1)
      BY Zenon
    <3>1. i # last
      OBVIOUS
    <3> QED
      BY <1>4, <3>1
  <2>2. last - 1 \in 1..last
    <3>1. PICK i \in 1..(last - 1) : TRUE
      BY <1>7, <2>1
    <3> QED
      BY <1>4, <3>1
  <2>3. a[last - 1].slots = <<>>
    BY <1>5, <1>8, <2>1, <2>2
  <2>4. last - 1 \in 1..(last - 1)
    BY <1>4, <2>2
  <2> QED
    BY <1>5, <2>3, <2>4
<1>10. last \in 1..last /\ \A i \in 1..last : got(i) \in ps /\ got(i) # NoPage
  <2>1. \A i \in 1..last : i = last \/ i \in 1..(last - 1)
    BY <1>4
  <2>2. last \in 1..last
    BY <1>4
  <2> QED
    BY <1>5, <1>9, <2>1, <2>2
<1>11. a[last].slots = <<>> /\ a[last].ok
  <2>1. \A p \in ps : \E i \in 1..last : p = got(i)
    OBVIOUS
  <2> QED
    BY <1>3, <1>8, <1>10, <2>1
<1>12. UNION {CodePointsOf(Mapped(a[i].slots)) : i \in 1..last} = FontCps(md5)
  <2>1. \A i \in 1..(last - 1) : a[i].ok /\ Mapped(a[i].slots) # <<>>
    BY <1>3, <1>5
  <2>2. last \in 1..MaxSpritePages
    BY <1>2
  <2>3. /\ \A i \in 1..(last - 1) : answers[pt][i].ok /\ Mapped(answers[pt][i].slots) # <<>>
        /\ answers[pt][last].ok /\ answers[pt][last].slots = <<>>
    BY <1>11, <2>1, Zenon DEF a
  <2>4. UNION {CodePointsOf(Mapped(answers[pt][i].slots)) : i \in 1..last} = FontCps(md5)
    BY <2>2, <2>3, CrawlsAssumption
  <2> QED
    BY <2>4 DEF a
<1>13. CodePoints(ps) = UNION {CodePointsOf(Mapped(a[i].slots)) : i \in 1..last}
  <2>1. CodePoints(ps) = UNION {CodePointsOf(p.glyphs) : p \in ps}
    BY Zenon DEF CodePoints
  <2>2. {CodePointsOf(p.glyphs) : p \in ps} = {CodePointsOf(Mapped(a[i].slots)) : i \in 1..last}
    <3>1. \A p \in ps : \E i \in 1..last : p = got(i) /\ p.glyphs = Mapped(a[i].slots)
      BY <1>3
    <3>2. \A i \in 1..last : got(i) \in ps /\ got(i).glyphs = Mapped(a[i].slots)
      BY <1>3, <1>10
    <3> HIDE DEF ps
    <3> QED
      BY <3>1, <3>2
  <2> QED
    BY <2>1, <2>2
<1> QED
  BY <1>1, <1>12, <1>13 DEF a

\* No crawl that was cut short is authorised.
LEMMA CrawlIsWhole ==
    ASSUME NEW md5 \in DOMAIN Crawls, NEW answers \in Crawls[md5], NEW pages,
           pages = FetchAllSpritePages(answers, Sizes, md5),
           IsCompleteRasterPages(pages, Sizes, md5), NEW pt \in Sizes
    PROVE  CodePoints(OfSize(pages, pt)) = FontCps(md5)
<1> DEFINE crawl(z) == FetchSize(answers[z], z, md5)
           all == UNION {crawl(z) : z \in Sizes}
<1>1. pages = all
  <2>1. pages # {}
    BY Zenon DEF IsCompleteRasterPages
  <2> QED
    BY <2>1, Zenon DEF FetchAllSpritePages, Failed
<1>2. ASSUME NEW z \in Sizes, NEW p \in crawl(z) PROVE p.pt = z
  <2> DEFINE got(i) == ParsePage(answers[z][i], i, z, md5)
  <2>1. PICK n : crawl(z) = {got(i) : i \in 1..n} \ {NoPage}
    BY Zenon DEF FetchSize
  <2>2. PICK i \in 1..n : p = got(i) /\ p # NoPage
    BY <2>1
  <2> QED
    BY <2>2 DEF ParsePage
<1> HIDE DEF crawl
<1>3. OfSize(pages, pt) = crawl(pt)
  BY <1>1, <1>2 DEF OfSize
<1>4. SizeComplete(crawl(pt))
  BY <1>3, Zenon DEF IsCompleteRasterPages
<1> QED
  BY <1>3, <1>4, SizeIsWhole, Zenon DEF crawl

-----------------------------------------------------------------------------
(* Acquisition: every step keeps the invariant *)

LEMMA AcquisitionInitInv == AcquisitionInit => AcquisitionInv
<1> SUFFICES ASSUME AcquisitionInit PROVE AcquisitionInv
  OBVIOUS
<1>1. EnvelopeOK(NoEnvelope)
  BY EmptyIsOK DEF NoEnvelope
<1>2. IsList(<<>>)
  BY DEF IsList
<1>3. StageOK /\ LanesOK /\ OutcomeOK /\ NoSilentDegrade
  BY <1>2 DEF AcquisitionInit, StageOK, LanesOK, OutcomeOK, NoSilentDegrade, Stages, AtStyle
<1>4. EnvelopesOK
  BY <1>1, DumpOfPage DEF AcquisitionInit, EnvelopesOK
<1>5. KeptIsNamed /\ AuthorisedIsWhole
  BY DEF AcquisitionInit, KeptIsNamed, AuthorisedIsWhole, Undecided
<1> QED
  BY <1>3, <1>4, <1>5 DEF AcquisitionInv

LEMMA StartInv ==
    ASSUME AcquisitionInv, NEW o \in Orders, Start(o)
    PROVE  AcquisitionInv'
<1>1. EnvelopeOK(NoEnvelope)
  BY EmptyIsOK DEF NoEnvelope
<1>2. IsList(<<>>) /\ Len(<<>>) = 0
  BY DEF IsList
<1>3. 1 \in DOMAIN o.styles
  <2>1. IsList(o.styles) /\ Len(o.styles) > 0
    BY OrdersAssumption
  <2>2. DOMAIN o.styles = 1..Len(o.styles) /\ Len(o.styles) \in Nat
    BY <2>1, ListDomain, Zenon
  <2> QED
    BY <2>1, <2>2
<1>4. StageOK'
  <2>1. asked' = o /\ at' = 1 /\ taken' = <<>> /\ stage' = "preflight" /\ spoiled' = FALSE
    BY DEF Start
  <2>2. IsList(taken') /\ at' \in DOMAIN asked'.styles /\ at' = Len(taken') + 1
    BY <1>2, <1>3, <2>1
  <2> QED
    BY <2>1, <2>2 DEF StageOK, Stages, AtStyle
<1>5. LanesOK' /\ OutcomeOK' /\ NoSilentDegrade'
  BY DEF Start, LanesOK, OutcomeOK, NoSilentDegrade
<1>6. EnvelopesOK'
  BY <1>1 DEF AcquisitionInv, Start, EnvelopesOK
<1>7. KeptIsNamed' /\ AuthorisedIsWhole'
  BY WholeUnlessRaster DEF Start, KeptIsNamed, Undecided
<1> QED
  BY <1>4, <1>5, <1>6, <1>7 DEF AcquisitionInv

LEMMA PreflightInv ==
    ASSUME AcquisitionInv,
           \/ PreflightCached
           \/ \E dom \in Doms : PreflightDump(dom)
           \/ \E dom \in Doms : PreflightStealth(dom)
    PROVE  AcquisitionInv'
<1> USE DEF AcquisitionInv
<1>1. UNCHANGED <<asked, at, taken, spoiled, outcome>> /\ stage \in {"preflight", "preflight_stealth"}
      /\ stage' \in {"preflight_stealth", "dump"}
  BY DEF PreflightCached, PreflightDump, PreflightStealth, Discovered
<1>2. StageOK' /\ OutcomeOK' /\ NoSilentDegrade'
  BY <1>1 DEF StageOK, OutcomeOK, NoSilentDegrade, Stages, AtStyle
<1>3. KeptIsNamed' /\ AuthorisedIsWhole'
  <2>1. taken' = <<>>
    BY <1>1 DEF StageOK
  <2> QED
    BY <1>1, <2>1, WholeStays DEF KeptIsNamed
<1>4. LanesOK'
  BY DEF LanesOK, PreflightCached, PreflightDump, PreflightStealth, Discovered
<1>5. EnvelopesOK'
  <2>1. CASE PreflightCached
    BY <2>1 DEF EnvelopesOK, PreflightCached
  <2>2. ASSUME NEW dom \in Doms, PreflightDump(dom) PROVE EnvelopesOK'
    <3>1. CASE dom = NoDom
      BY <2>2, <3>1, EmptyIsOK DEF EnvelopesOK, PreflightDump, NoEnvelope
    <3>2. CASE dom # NoDom
      <4>1. dom \in Pages
        BY <3>2 DEF Doms
      <4> DEFINE e == ParseFamilyDiscovery(dom, "dump_dom_binary")
      <4>2. EnvelopeOK(e) /\ DumpOK(dom.inline)
        BY <4>1, FoundIsOK, DumpOfPage
      <4>3. env' = e /\ cachedDump' = dom.inline /\ cachedEnv' \in {e, cachedEnv}
            /\ stage' \in {"preflight_stealth", "dump"}
        BY <2>2, <3>2, Zenon DEF PreflightDump, Discovered
      <4> HIDE DEF e
      <4> QED
        BY <4>2, <4>3 DEF EnvelopesOK
    <3> QED
      BY <3>1, <3>2
  <2>3. ASSUME NEW dom \in Doms, PreflightStealth(dom) PROVE EnvelopesOK'
    <3> DEFINE e == ParseFamilyDiscovery(dom, "playwright_stealth_persistent")
               empty == [family |-> Family, styles |-> <<>>, by |-> "none"]
    <3>1. EnvelopeOK(empty) /\ (dom # NoDom => EnvelopeOK(e))
      BY EmptyIsOK, FoundIsOK DEF Doms
    <3>2. env' = cachedEnv' /\ UNCHANGED cachedDump /\ stage' = "dump"
          /\ (env' = empty \/ env' = env \/ (dom # NoDom /\ env' = e))
      BY <2>3, Zenon DEF PreflightStealth, Discovered
    <3> HIDE DEF e, empty
    <3> QED
      BY <3>1, <3>2 DEF EnvelopesOK
  <2> QED
    BY <2>1, <2>2, <2>3
<1> QED
  BY <1>2, <1>3, <1>4, <1>5

\* A lane leaves the order as it is: what matters is what it decides.
LEMMA LaneInv ==
    ASSUME AcquisitionInv, OrderKept, stage \in {"dump", "stealth_binary", "stealth_raster", "cdn"},
           DumpOK(cachedDump'), stage' \in {"stealth_binary", "stealth_raster", "cdn", "handover"},
           stage' # "handover" => FamilyMatches,
           stage' = "handover" => Shows(outcome', Style.name),
           spoiled' \in BOOLEAN, NoSilentDegrade', AuthorisedIsWhole'
    PROVE  AcquisitionInv'
<1> USE DEF AcquisitionInv
<1>1. UNCHANGED <<asked, env, cachedEnv, at, taken>>
  BY DEF OrderKept
<1>2. StageOK' /\ LanesOK'
  BY <1>1 DEF StageOK, LanesOK, Stages, AtStyle
<1>3. EnvelopesOK'
  BY <1>1 DEF EnvelopesOK, FamilyMatches
<1>4. OutcomeOK'
  BY <1>1 DEF OutcomeOK, Style, Shows, Fits, NamedRaster, RecordFor, FamilyMatches
<1>5. KeptIsNamed'
  BY <1>1, KeptStays, Zenon
<1> QED
  BY <1>2, <1>3, <1>4, <1>5

\* Bytes are of the style, or the search for it ends, or there are none.
LEMMA VerifiedStep ==
    ASSUME ~spoiled, AuthorisedIsWhole, FamilyMatches, NEW f, IsFont(f), NEW lane, NEW next \in {"stealth_binary", "stealth_raster"},
           Verified(f, lane, next)
    PROVE  /\ stage' = next \/ (stage' = "handover" /\ Shows(outcome', Style.name))
           /\ spoiled' \in BOOLEAN /\ NoSilentDegrade' /\ AuthorisedIsWhole'
<1> DEFINE status == VerifyAcquiredBinary(f, Family, Style.name)
<1>1. status \in {"ABSENT", "INTEGRITY_FAILED", "VALID"}
  BY DEF VerifyAcquiredBinary
<1>2. spoiled' = (spoiled \/ status = "INTEGRITY_FAILED")
  BY Zenon DEF Verified
<1>3. status = "VALID" => Decide(Binary(f, lane))
  BY DEF Verified
<1>4. status = "INTEGRITY_FAILED" => Decide(Insufficient("INTEGRITY_FAILED"))
  BY DEF Verified
<1>5. status = "ABSENT" => stage' = next /\ UNCHANGED outcome
  BY DEF Verified
<1>6. status = "VALID" => f = [fam |-> Family, sty |-> Style.name]
  BY VerifiedIsOrdered, Zenon
<1> HIDE DEF status
<1>7. CASE status = "VALID"
  <2>1. stage' = "handover" /\ outcome' = Binary(f, lane) /\ spoiled' = FALSE
    BY <1>2, <1>3, <1>7 DEF Decide
  <2>2. Shows(outcome', Style.name)
    BY <1>6, <1>7, <2>1 DEF Shows, Fits, Binary
  <2>3. AuthorisedIsWhole'
    BY <2>1, WholeUnlessRaster DEF Binary
  <2> QED
    BY <2>1, <2>2, <2>3 DEF NoSilentDegrade
<1>8. CASE status = "INTEGRITY_FAILED"
  <2>1. stage' = "handover" /\ outcome' = Insufficient("INTEGRITY_FAILED") /\ spoiled' = TRUE
    BY <1>2, <1>4, <1>8 DEF Decide
  <2>2. Shows(outcome', Style.name)
    BY <2>1 DEF Shows, Insufficient
  <2>3. NoSilentDegrade'
    BY <2>1, Zenon DEF NoSilentDegrade
  <2>4. AuthorisedIsWhole'
    BY <2>1, WholeUnlessRaster DEF Insufficient
  <2> QED
    BY <2>1, <2>2, <2>3, <2>4
<1>9. CASE status = "ABSENT"
  <2>1. AuthorisedIsWhole'
    BY <1>5, <1>9, WholeStays
  <2> QED
    BY <1>2, <1>5, <1>9, <2>1 DEF NoSilentDegrade
<1> QED
  BY <1>1, <1>7, <1>8, <1>9

LEMMA FamilyMismatchInv ==
    ASSUME AcquisitionInv, FamilyMismatch
    PROVE  AcquisitionInv'
<1>1. outcome' = Insufficient("INTEGRITY_FAILED") /\ stage' = "handover" /\ stage = "dump"
      /\ OrderKept /\ UNCHANGED <<cachedDump, spoiled>>
  BY DEF FamilyMismatch, Decide
<1>2. Shows(outcome', Style.name) /\ AuthorisedIsWhole'
  BY <1>1, WholeUnlessRaster DEF Shows, Insufficient
<1>3. NoSilentDegrade' /\ spoiled' \in BOOLEAN
  BY <1>1 DEF AcquisitionInv, StageOK, NoSilentDegrade
<1>4. DumpOK(cachedDump')
  BY <1>1 DEF AcquisitionInv, EnvelopesOK
<1> QED
  BY <1>1, <1>2, <1>3, <1>4, LaneInv

LEMMA DumpBinaryInv ==
    ASSUME AcquisitionInv, NEW dom \in Doms, NEW served \in Served, DumpBinary(dom, served)
    PROVE  AcquisitionInv'
<1> DEFINE inline == IF cachedDump # NoDump THEN cachedDump ELSE IF dom = NoDom THEN <<>> ELSE dom.inline
           f == IF Record = NoRecord THEN NoFont ELSE ExtractBinary(Record.cands, inline, served)
<1>1. stage = "dump" /\ FamilyMatches /\ OrderKept /\ Verified(f, "dump_dom_binary", "stealth_binary")
      /\ cachedDump' = IF cachedDump = NoDump /\ dom # NoDom THEN dom.inline ELSE cachedDump
  BY Zenon DEF DumpBinary
<1>2. DumpOK(inline) /\ DumpOK(cachedDump')
  BY <1>1, DumpOfPage DEF Doms, AcquisitionInv, EnvelopesOK
<1>3. ~spoiled /\ AuthorisedIsWhole
  BY <1>1 DEF AcquisitionInv, NoSilentDegrade
<1> HIDE DEF inline
<1>4. IsFont(f)
  <2>1. CASE Record = NoRecord
    BY <2>1 DEF IsFont, NoFont
  <2>2. CASE Record # NoRecord
    <3>1. IsList(env.styles) /\ \A i \in DOMAIN env.styles : Links(env.styles[i].cands)
      BY DEF AcquisitionInv, EnvelopesOK, EnvelopeOK, Records
    <3>2. PICK i \in DOMAIN env.styles : Record = env.styles[i]
      BY <2>2, <3>1, RecordIsListed, Zenon DEF Record, RecordFor
    <3>3. Links(Record.cands)
      BY <3>1, <3>2
    <3> QED
      BY <1>2, <2>2, <3>3, ExtractedIsFont
  <2> QED
    BY <2>1, <2>2
<1> HIDE DEF f
<1>5. /\ stage' = "stealth_binary" \/ (stage' = "handover" /\ Shows(outcome', Style.name))
      /\ spoiled' \in BOOLEAN /\ NoSilentDegrade' /\ AuthorisedIsWhole'
  BY <1>1, <1>3, <1>4, VerifiedStep
<1> QED
  BY <1>1, <1>2, <1>5, LaneInv

LEMMA StealthBinaryInv ==
    ASSUME AcquisitionInv, NEW f \in {NoFont, Corrupt} \cup DOMAIN Crawls, StealthBinary(f)
    PROVE  AcquisitionInv'
<1>1. stage = "stealth_binary" /\ OrderKept /\ UNCHANGED cachedDump
      /\ Verified(f, "playwright_stealth_persistent", "stealth_raster")
  BY DEF StealthBinary
<1>2. IsFont(f)
  BY FontsAssumption DEF IsFont, NoFont
<1>3. ~spoiled /\ AuthorisedIsWhole /\ FamilyMatches /\ DumpOK(cachedDump')
  BY <1>1 DEF AcquisitionInv, NoSilentDegrade, EnvelopesOK
<1>4. /\ stage' = "stealth_raster" \/ (stage' = "handover" /\ Shows(outcome', Style.name))
      /\ spoiled' \in BOOLEAN /\ NoSilentDegrade' /\ AuthorisedIsWhole'
  BY <1>1, <1>2, <1>3, VerifiedStep
<1> QED
  BY <1>1, <1>3, <1>4, LaneInv

\* The hash of the style at work is one the envelope gives for it.
LEMMA HashAtWork ==
    ASSUME AcquisitionInv, Md5Of(Record) # NoHash
    PROVE  /\ Md5Of(Record) \in HashesFor(env.styles, Style.name)
           /\ Md5Of(Record) \in DOMAIN Crawls
<1>1. Records(env.styles)
  BY DEF AcquisitionInv, EnvelopesOK, EnvelopeOK
<1> DEFINE rec == GetStyleRecord(env.styles, Style.name, Style.name)
<1>2. Record = rec
  BY DEF Record, RecordFor
<1>3. rec # NoRecord => rec.md5 \in HashesFor(env.styles, Style.name) /\ rec.md5 \in {NoHash} \cup DOMAIN Crawls
  BY <1>1, HashIsNamed, Zenon
<1> HIDE DEF rec
<1> QED
  BY <1>2, <1>3 DEF Md5Of

LEMMA StealthRasterInv ==
    ASSUME AcquisitionInv, NEW faces, NEW observed, NEW alike, StealthRaster(faces, observed, alike)
    PROVE  AcquisitionInv'
<1> DEFINE md5 == Md5Of(Record)
           candidates == Candidates(faces, DescOf(Style.name), md5, observed)
           pages == CapturedPages(md5, candidates, alike)
           drawn == IF pages = Failed THEN NoFont ELSE (CHOOSE f \in candidates : TRUE).md5
           o == Raster(pages, "playwright_stealth_persistent", env.styles, drawn)
           whole == IsCompleteRasterPages(pages, Sizes, md5)
<1>1. stage = "stealth_raster" /\ OrderKept /\ UNCHANGED <<cachedDump, spoiled>>
  BY DEF StealthRaster
<1>2. IF md5 # NoHash /\ whole THEN Decide(o) ELSE stage' = "cdn" /\ UNCHANGED outcome
  BY Zenon DEF StealthRaster
<1>3. FamilyMatches /\ DumpOK(cachedDump') /\ spoiled' = FALSE /\ NoSilentDegrade'
  BY <1>1 DEF AcquisitionInv, StageOK, EnvelopesOK, NoSilentDegrade
<1>4. ASSUME md5 # NoHash, whole PROVE drawn = md5
  <2>1. pages # Failed
    BY <1>4, Zenon DEF IsCompleteRasterPages, Failed
  <2>2. Cardinality(candidates) = 1
    BY <2>1, Zenon DEF CapturedPages
  <2>3. candidates # {}
    BY <2>2, FS_EmptySet
  <2>4. \A f \in candidates : f.md5 = md5
    BY DEF Candidates
  <2> QED
    BY <2>1, <2>3, <2>4, Zenon
<1>5. md5 # NoHash => md5 \in HashesFor(env.styles, Style.name)
  BY HashAtWork
<1> HIDE DEF md5, whole, drawn, pages
<1>6. CASE md5 # NoHash /\ whole
  <2>1. stage' = "handover" /\ outcome' = o
    BY <1>2, <1>6 DEF Decide
  <2>2. Shows(outcome', Style.name)
    <3>1. o.kind = "raster_authorized" /\ o.lane = "playwright_stealth_persistent" /\ o.drawn = md5
      BY <1>4, <1>6 DEF Raster
    <3>2. NamedRaster(o, Style.name)
      BY <1>5, <1>6, <3>1 DEF NamedRaster
    <3> QED
      BY <1>3, <2>1, <3>2 DEF Shows, Fits
  <2>3. AuthorisedIsWhole'
    BY <2>1, WholeUnlessRaster DEF Raster
  <2> QED
    BY <1>1, <1>3, <2>1, <2>2, <2>3, LaneInv
<1>7. CASE ~(md5 # NoHash /\ whole)
  <2>1. stage' = "cdn" /\ UNCHANGED outcome
    BY <1>2, <1>7
  <2>2. AuthorisedIsWhole'
    BY <2>1, WholeStays DEF AcquisitionInv
  <2> QED
    BY <1>1, <1>3, <2>1, <2>2, LaneInv
<1> QED
  BY <1>6, <1>7

\* A crawl shows the font of its hash, and all of it.
LEMMA CrawlInv ==
    ASSUME AcquisitionInv, stage = "cdn", OrderKept, UNCHANGED <<cachedDump, spoiled>>,
           NEW md5 \in DOMAIN Crawls, NEW answers \in Crawls[md5], NEW lane, NEW told,
           Crawl(md5, answers, lane, told), NamedRaster(Raster(FetchAllSpritePages(answers, Sizes, md5), lane, told, md5), Style.name)
    PROVE  AcquisitionInv'
<1> DEFINE pages == FetchAllSpritePages(answers, Sizes, md5)
           whole == IsCompleteRasterPages(pages, Sizes, md5)
<1>1. DumpOK(cachedDump') /\ spoiled' = FALSE /\ NoSilentDegrade'
  BY DEF AcquisitionInv, StageOK, EnvelopesOK, NoSilentDegrade
<1>2. stage' = "handover" /\ outcome' = IF whole THEN Raster(pages, lane, told, md5)
                                        ELSE Insufficient("ACQUISITION_INSUFFICIENT")
  BY Zenon DEF Crawl, Decide
<1>3. Shows(outcome', Style.name)
  <2>1. FamilyMatches
    BY DEF AcquisitionInv, EnvelopesOK
  <2>2. CASE whole
    BY <1>2, <2>1, <2>2, Zenon DEF Shows, Fits
  <2>3. CASE ~whole
    BY <1>2, <2>3 DEF Shows, Insufficient
  <2> QED
    BY <2>2, <2>3
<1>4. AuthorisedIsWhole'
  <2>1. CASE whole
    <3>1. \A pt \in Sizes : CodePoints(OfSize(pages, pt)) = FontCps(md5)
      BY <2>1, CrawlIsWhole, Zenon
    <3> HIDE DEF pages
    <3>2. outcome'.pages = pages /\ Shown(outcome') = md5
      BY <1>2, <2>1 DEF Raster, Shown
    <3> QED
      BY <3>1, <3>2, Zenon DEF AuthorisedIsWhole, Shown
  <2>2. CASE ~whole
    BY <1>2, <2>2, WholeUnlessRaster DEF Insufficient
  <2> QED
    BY <2>1, <2>2
<1> QED
  BY <1>1, <1>2, <1>3, <1>4, LaneInv

LEMMA CdnInv ==
    ASSUME AcquisitionInv,
           (\E answers : DirectCdn(answers)) \/ (\E hits \in HitLists : Algolia(hits))
    PROVE  AcquisitionInv'
<1>1. ASSUME NEW answers, DirectCdn(answers) PROVE AcquisitionInv'
  <2>1. /\ stage = "cdn" /\ OrderKept /\ UNCHANGED <<cachedDump, spoiled>> /\ Md5Of(Record) # NoHash
        /\ answers \in Crawls[Md5Of(Record)]
        /\ Crawl(Md5Of(Record), answers, "monotype_authorized_raster", env.styles)
    BY <1>1, Zenon DEF DirectCdn
  <2>2. Md5Of(Record) \in HashesFor(env.styles, Style.name) /\ Md5Of(Record) \in DOMAIN Crawls
    BY <2>1, HashAtWork
  <2>3. NamedRaster(Raster(FetchAllSpritePages(answers, Sizes, Md5Of(Record)),
                           "monotype_authorized_raster", env.styles, Md5Of(Record)), Style.name)
    BY <2>1, <2>2 DEF NamedRaster, Raster
  <2> QED
    BY <2>1, <2>2, <2>3, CrawlInv, Zenon
<1>2. ASSUME NEW hits \in HitLists, Algolia(hits) PROVE AcquisitionInv'
  <2> DEFINE found == ParseHits(hits).styles
             rec == GetStyleRecord(found, Style.name, Style.name)
  <2>1. stage = "cdn" /\ Md5Of(Record) = NoHash /\ OrderKept /\ UNCHANGED <<cachedDump, spoiled>>
    BY <1>2, Zenon DEF Algolia
  <2>2. IF rec = NoRecord THEN Decide(Insufficient("ACQUISITION_INSUFFICIENT"))
        ELSE \E answers \in Crawls[rec.md5] : Crawl(rec.md5, answers, "algolia_metadata_cdn", found)
    BY <1>2, Zenon DEF Algolia
  <2>3. CASE rec = NoRecord
    <3>1. stage' = "handover" /\ outcome' = Insufficient("ACQUISITION_INSUFFICIENT")
      BY <2>2, <2>3, Zenon DEF Decide
    <3>2. Shows(outcome', Style.name) /\ AuthorisedIsWhole'
      BY <3>1, WholeUnlessRaster DEF Shows, Insufficient
    <3>3. DumpOK(cachedDump') /\ spoiled' = FALSE /\ NoSilentDegrade'
      BY <2>1 DEF AcquisitionInv, StageOK, EnvelopesOK, NoSilentDegrade
    <3> QED
      BY <2>1, <3>1, <3>2, <3>3, LaneInv
  <2>4. CASE rec # NoRecord
    <3>1. PICK answers \in Crawls[rec.md5] : Crawl(rec.md5, answers, "algolia_metadata_cdn", found)
      BY <2>2, <2>4, Zenon
    <3>2. IsList(found) /\ \A i \in DOMAIN found : found[i].md5 \in DOMAIN Crawls \ {NoHash}
      BY HitsAssumption, Zenon
    <3>3. Records(found)
      BY <3>2 DEF Records
    <3>4. rec.md5 \in HashesFor(found, Style.name)
      BY <2>4, <3>3, HashIsNamed, Zenon
    <3>5. PICK i \in DOMAIN found : rec = found[i]
      BY <2>4, <3>2, RecordIsListed, Zenon
    <3>6. rec.md5 \in DOMAIN Crawls /\ rec.md5 # NoHash
      BY <3>2, <3>5
    <3> HIDE DEF rec, found
    <3>7. Md5Of(RecordFor(Style.name)) = NoHash
      BY <2>1 DEF Record
    <3>8. NamedRaster(Raster(FetchAllSpritePages(answers, Sizes, rec.md5), "algolia_metadata_cdn", found,
                             rec.md5), Style.name)
      BY <3>4, <3>6, <3>7 DEF NamedRaster, Raster
    <3> QED
      BY <2>1, <3>1, <3>6, <3>8, CrawlInv, Zenon
  <2> QED
    BY <2>3, <2>4
<1> QED
  BY <1>1, <1>2

\* What is appended is what was shown of the style at work.
LEMMA AppendInv ==
    ASSUME AcquisitionInv, stage = "handover", Advance, NEW o, taken' = Append(taken, o),
           o.kind # "none" => Fits(o, Style.name) /\ (o.kind = "binary" => asked.mode = "ORIGINAL")
    PROVE  StageOK' /\ KeptIsNamed'
<1>1. PICK n \in Nat : n = Len(taken) /\ taken = [i \in 1..n |-> taken[i]]
  BY DEF AcquisitionInv, StageOK, IsList
<1>2. at \in DOMAIN asked.styles /\ at = n + 1 /\ asked \in Orders /\ spoiled \in BOOLEAN
  BY <1>1 DEF AcquisitionInv, StageOK, AtStyle
<1>3. at' = at + 1 /\ UNCHANGED <<asked, spoiled, env>> /\ stage' = NextStyle
  BY DEF Advance
<1>4. Len(taken') = n + 1 /\ taken' = [i \in 1..(n + 1) |-> taken'[i]] /\ DOMAIN taken' = 1..(n + 1)
      /\ (\A i \in 1..n : taken'[i] = taken[i]) /\ taken'[n + 1] = o
  <2> DEFINE S == {taken[i] : i \in 1..n} \cup {o}
  <2>1. taken \in Seq(S)
    <3>1. \A i \in 1..n : taken[i] \in S
      OBVIOUS
    <3> HIDE DEF S
    <3>2. taken \in [1..n -> S]
      BY <1>1, <3>1, Zenon
    <3> QED
      BY <3>2
  <2>2. o \in S
    OBVIOUS
  <2> HIDE DEF S
  <2>3. taken' \in Seq(S) /\ Len(taken') = n + 1
    BY <1>1, <2>1, <2>2
  <2> QED
    BY <1>1, <2>1, <2>2, <2>3
<1>5. StageOK'
  <2>1. IsList(taken')
    BY <1>4 DEF IsList
  <2>2. stage' \in {"dump", "finish"} /\ (stage' = "dump" => at < Len(asked.styles))
    BY <1>3 DEF NextStyle
  <2>3. DOMAIN asked.styles = 1..Len(asked.styles) /\ Len(asked.styles) \in Nat
    BY <1>2, OrdersAssumption, ListDomain
  <2>4. stage' = "dump" => at' \in DOMAIN asked'.styles
    BY <1>1, <1>2, <1>3, <2>2, <2>3
  <2>5. at' = Len(taken') + 1
    BY <1>2, <1>3, <1>4
  <2> QED
    BY <1>2, <1>3, <2>1, <2>2, <2>4, <2>5 DEF StageOK, Stages, AtStyle
<1>6. KeptIsNamed'
  <2> SUFFICES ASSUME NEW i \in 1..(n + 1), taken'[i].kind # "none"
               PROVE  /\ Fits(taken[i], asked.styles[i].name)'
                      /\ taken'[i].kind = "binary" => asked'.mode = "ORIGINAL"
    BY <1>4 DEF KeptIsNamed
  <2>1. CASE i \in 1..n
    <3>1. i \in DOMAIN taken /\ taken'[i] = taken[i]
      BY <1>1, <1>4, <2>1
    <3>2. Fits(taken[i], asked.styles[i].name) /\ (taken[i].kind = "binary" => asked.mode = "ORIGINAL")
      BY <3>1 DEF AcquisitionInv, KeptIsNamed
    <3> QED
      BY <1>3, <3>1, <3>2 DEF Fits, NamedRaster, RecordFor, FamilyMatches
  <2>2. CASE i = n + 1
    <3>1. taken'[i] = o /\ i = at
      BY <1>2, <1>4, <2>2
    <3>2. asked'.styles[i] = Style
      BY <1>3, <3>1 DEF Style
    <3>3. Fits(o, Style.name) /\ (o.kind = "binary" => asked.mode = "ORIGINAL")
      BY <2>2, <3>1, Zenon
    <3> QED
      BY <1>3, <3>1, <3>2, <3>3 DEF Fits, NamedRaster, RecordFor, FamilyMatches
  <2>3. i \in 1..n \/ i = n + 1
    OBVIOUS
  <2> QED
    BY <2>1, <2>2, <2>3, Zenon
<1> QED
  BY <1>5, <1>6

\* An error ends the order with nothing changed.
LEMMA FailInv ==
    ASSUME AcquisitionInv, stage' \in {"idle", "failed"}, stage \in {"handover", "finish", "failed"},
           UNCHANGED <<number, asked, env, lanes, cachedEnv, cachedDump, at, outcome, spoiled, taken, toBrowser>>
    PROVE  AcquisitionInv'
<1> USE DEF AcquisitionInv
<1>1. StageOK' /\ LanesOK' /\ OutcomeOK' /\ NoSilentDegrade'
  BY DEF StageOK, LanesOK, OutcomeOK, NoSilentDegrade, Stages, AtStyle
<1>2. EnvelopesOK'
  BY DEF EnvelopesOK
<1>3. KeptIsNamed' /\ AuthorisedIsWhole'
  BY KeptStays, WholeStays, Zenon
<1> QED
  BY <1>1, <1>2, <1>3

LEMMA AdvanceInv ==
    ASSUME AcquisitionInv, stage = "handover", Advance, ~spoiled, StageOK', KeptIsNamed'
    PROVE  AcquisitionInv'
<1>1. UNCHANGED <<env, cachedEnv, cachedDump, lanes, spoiled>> /\ stage' \in {"dump", "finish"}
  BY DEF Advance, NextStyle
<1>2. LanesOK' /\ OutcomeOK' /\ EnvelopesOK'
  BY <1>1 DEF AcquisitionInv, LanesOK, OutcomeOK, EnvelopesOK
<1>3. NoSilentDegrade'
  BY <1>1 DEF NoSilentDegrade
<1>4. AuthorisedIsWhole'
  BY WholeUnlessRaster DEF Advance, Undecided
<1> QED
  BY <1>2, <1>3, <1>4 DEF AcquisitionInv

LEMMA HandoverInv ==
    ASSUME AcquisitionInv, TakeBinary \/ TakeRaster \/ TakeNothing
    PROVE  AcquisitionInv'
<1>1. stage = "handover" /\ Shows(outcome, Style.name) /\ NoSilentDegrade /\ spoiled \in BOOLEAN
  BY DEF AcquisitionInv, TakeBinary, TakeRaster, TakeNothing, OutcomeOK, StageOK
<1>2. Undecided.kind = "none"
  BY DEF Undecided
<1>3. CASE TakeBinary
  <2>1. outcome.kind = "binary" /\ Advance
    BY <1>3 DEF TakeBinary
  <2>2. taken' = Append(taken, IF asked.mode = "ORIGINAL" THEN outcome ELSE Undecided)
    BY <1>3, Zenon DEF TakeBinary
  <2>3. ~spoiled
    BY <1>1, <2>1 DEF NoSilentDegrade, Insufficient
  <2>4. Fits(outcome, Style.name)
    BY <1>1, <2>1 DEF Shows
  <2>5. StageOK' /\ KeptIsNamed'
    <3>1. CASE asked.mode = "ORIGINAL"
      BY <1>1, <2>1, <2>2, <2>4, <3>1, AppendInv
    <3>2. CASE asked.mode # "ORIGINAL"
      BY <1>1, <1>2, <2>1, <2>2, <3>2, AppendInv
    <3> QED
      BY <3>1, <3>2
  <2> QED
    BY <1>1, <2>1, <2>3, <2>5, AdvanceInv
<1>4. CASE TakeRaster
  <2>1. outcome.kind = "raster_authorized"
    BY <1>4 DEF TakeRaster
  <2>2. CASE Ingestible(outcome.pages, SizeSchedule(Resolutions))
    <3>1. taken' = Append(taken, outcome) /\ Advance
      BY <1>4, <2>2, Zenon DEF TakeRaster
    <3>2. ~spoiled
      BY <1>1, <2>1 DEF NoSilentDegrade, Insufficient
    <3>3. StageOK' /\ KeptIsNamed'
      <4>1. Fits(outcome, Style.name)
        BY <1>1, <2>1 DEF Shows
      <4>2. outcome.kind # "binary"
        BY <2>1
      <4> QED
        BY <1>1, <3>1, <4>1, <4>2, AppendInv, Zenon
    <3> QED
      BY <1>1, <3>1, <3>2, <3>3, AdvanceInv
  <2>3. CASE ~Ingestible(outcome.pages, SizeSchedule(Resolutions))
    <3>1. /\ stage' = "failed"
          /\ UNCHANGED <<number, asked, env, lanes, cachedEnv, cachedDump, at, outcome, spoiled, taken, toBrowser>>
      BY <1>4, <2>3, Zenon DEF TakeRaster
    <3> QED
      BY <1>1, <3>1, FailInv
  <2> QED
    BY <2>2, <2>3
<1>5. CASE TakeNothing
  <2>1. CASE outcome.lane = "INTEGRITY_FAILED"
    <3>1. /\ stage' = "failed"
          /\ UNCHANGED <<number, asked, env, lanes, cachedEnv, cachedDump, at, outcome, spoiled, taken, toBrowser>>
      BY <1>5, <2>1, Zenon DEF TakeNothing
    <3> QED
      BY <1>1, <3>1, FailInv
  <2>2. CASE outcome.lane # "INTEGRITY_FAILED"
    <3>1. taken' = Append(taken, Undecided) /\ Advance
      BY <1>5, <2>2, Zenon DEF TakeNothing
    <3>2. ~spoiled
      BY <1>1, <2>2 DEF NoSilentDegrade, Insufficient
    <3>3. StageOK' /\ KeptIsNamed'
      BY <1>1, <1>2, <3>1, AppendInv
    <3> QED
      BY <1>1, <3>1, <3>2, <3>3, AdvanceInv
  <2> QED
    BY <2>1, <2>2
<1> QED
  BY <1>3, <1>4, <1>5

LEMMA AcquisitionNextInv == AcquisitionInv /\ [AcquisitionNext]_acquisitionVars => AcquisitionInv'
<1> SUFFICES ASSUME AcquisitionInv, [AcquisitionNext]_acquisitionVars PROVE AcquisitionInv'
  OBVIOUS
<1>1. CASE UNCHANGED acquisitionVars
  BY <1>1 DEF acquisitionVars, AcquisitionInv, StageOK, LanesOK, EnvelopesOK, OutcomeOK, Style,
     FamilyMatches, NoSilentDegrade, KeptIsNamed, Fits, NamedRaster, RecordFor, Shows,
     AuthorisedIsWhole, Shown
<1>2. CASE \E o \in Orders : Start(o)
  BY <1>2, StartInv
<1>3. CASE \/ PreflightCached
           \/ \E dom \in Doms : PreflightDump(dom)
           \/ \E dom \in Doms : PreflightStealth(dom)
  BY <1>3, PreflightInv, Zenon
<1>4. CASE FamilyMismatch
  BY <1>4, FamilyMismatchInv, Zenon
<1>5. CASE \E dom \in Doms, served \in Served : DumpBinary(dom, served)
  BY <1>5, DumpBinaryInv, Zenon
<1>6. CASE \E f \in {NoFont, Corrupt} \cup DOMAIN Crawls : StealthBinary(f)
  BY <1>6, StealthBinaryInv, Zenon
<1>7. CASE \E faces, observed, alike : StealthRaster(faces, observed, alike)
  BY <1>7, StealthRasterInv, Zenon
<1>8. CASE (\E answers : DirectCdn(answers)) \/ (\E hits \in HitLists : Algolia(hits))
  BY <1>8, CdnInv, Zenon
<1>9. CASE TakeBinary \/ TakeRaster \/ TakeNothing
  BY <1>9, HandoverInv, Zenon
<1>10. CASE Finish
  <2>1. stage \in {"finish", "failed"} /\ stage' = "idle"
    BY <1>10 DEF Finish
  <2> QED
    BY <1>10, <2>1, FailInv DEF Finish
<1> QED
  BY <1>1, <1>2, <1>3, <1>4, <1>5, <1>6, <1>7, <1>8, <1>9, <1>10, Zenon DEF AcquisitionNext

-----------------------------------------------------------------------------
(* Acquisition: theorems *)

\* The invariant of acquire_family_preflight, acquire and the runner's loop over the styles.
THEOREM AcquisitionInvariance == AcquisitionSpec => []AcquisitionInv
<1>1. AcquisitionInit => AcquisitionInv
  BY AcquisitionInitInv
<1>2. AcquisitionInv /\ [AcquisitionNext]_acquisitionVars => AcquisitionInv'
  BY AcquisitionNextInv
<1> QED
  BY <1>1, <1>2, PTL DEF AcquisitionSpec

\* Whatever pages, links, hits and the caches of an earlier order offer: bytes that a lane of
\* acquire hands over are of the ordered family and style, a raster is of the font that the
\* page, or without a hash there the search index, named for the style, and the runner keeps
\* nothing else, bytes for an ORIGINAL order only.
THEOREM OnlyNamedEvidence == AcquisitionSpec => []EvidenceIsNamed
<1>1. AcquisitionInv => AuthorisedIsNamed
  BY DEF AcquisitionInv, OutcomeOK, AuthorisedIsNamed, Shows
<1>2. AcquisitionInv => EvidenceIsNamed
  BY <1>1 DEF AcquisitionInv, EvidenceIsNamed
<1> QED
  BY <1>2, AcquisitionInvariance, PTL

\* Bytes that failed their verification end the style and the order.
THEOREM FailedBytesEndIt == AcquisitionSpec => []NoSilentDegrade
<1>1. AcquisitionInv => NoSilentDegrade
  BY DEF AcquisitionInv
<1> QED
  BY <1>1, AcquisitionInvariance, PTL

\* No order leaves the preflight with an incomplete envelope before it asked both lanes.
THEOREM BothLanesAreAsked == AcquisitionSpec => IncompleteOnlyAfterAsking
<1> DEFINE A == (stage \in {"preflight", "preflight_stealth"} /\ stage' = "dump")
                    => (HasCompleteMapFor(env', asked.styles) \/ lanes' = {"dump", "stealth"})
<1>1. ASSUME AcquisitionInv, AcquisitionNext PROVE A
  <2> SUFFICES ASSUME stage \in {"preflight", "preflight_stealth"}, stage' = "dump"
               PROVE  HasCompleteMapFor(env', asked.styles) \/ lanes' = {"dump", "stealth"}
    OBVIOUS
  <2>1. LanesOK
    BY <1>1 DEF AcquisitionInv
  <2>2. PreflightCached \/ (\E dom \in Doms : PreflightDump(dom)) \/ (\E dom \in Doms : PreflightStealth(dom))
    BY <1>1 DEF AcquisitionNext, Start, FamilyMismatch, DumpBinary, StealthBinary, StealthRaster,
       DirectCdn, Algolia, TakeBinary, TakeRaster, TakeNothing, Finish
  <2>3. CASE PreflightCached
    BY <2>3, Zenon DEF PreflightCached, CacheServes
  <2>4. ASSUME NEW dom \in Doms, PreflightDump(dom) PROVE HasCompleteMapFor(env', asked.styles)
    <3>1. dom # NoDom /\ HasCompleteMapFor(ParseFamilyDiscovery(dom, "dump_dom_binary"), asked.styles)
      BY <2>4 DEF PreflightDump
    <3> QED
      BY <2>4, <3>1, Zenon DEF PreflightDump, Discovered
  <2>5. ASSUME NEW dom \in Doms, PreflightStealth(dom) PROVE lanes' = {"dump", "stealth"}
    <3>1. stage = "preflight_stealth" /\ lanes' = lanes \cup {"stealth"}
      BY <2>5, Zenon DEF PreflightStealth
    <3> QED
      BY <2>1, <3>1 DEF LanesOK
  <2> QED
    BY <2>2, <2>3, <2>4, <2>5
<1>2. AcquisitionInv /\ [AcquisitionNext]_acquisitionVars => [A]_acquisitionVars
  BY <1>1
<1> QED
  BY <1>2, AcquisitionInvariance, PTL DEF AcquisitionSpec, IncompleteOnlyAfterAsking

\* No crawl that an error, a page without code points or the page limit cut short passes for
\* the whole font.
THEOREM RastersAreWhole == AcquisitionSpec => []AuthorisedIsWhole
<1>1. AcquisitionInv => AuthorisedIsWhole
  BY DEF AcquisitionInv
<1> QED
  BY <1>1, AcquisitionInvariance, PTL
=============================================================================
