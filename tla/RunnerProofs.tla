---------------------------- MODULE RunnerProofs ----------------------------
(***************************************************************************)
(* What holds of the agent's node for every number of jobs, attempts and   *)
(* files: a message leaves the queue only when its job is settled or the   *)
(* attempt that drops it has lost the job, and the files delivered and     *)
(* archived fit the orders they are for.                                   *)
(***************************************************************************)
EXTENDS Runner, FiniteSetTheorems, WellFoundedInduction, TLAPS

Families == {Family[j] : j \in Jobs}

Modes == {"ORIGINAL", "VIETNAMESE"}

Fmts == UNION {{Items[j][i].fmt : i \in DOMAIN Items[j]} : j \in Jobs}

Ware == Families \X Modes \X Styles \X Fmts

Font == [of : Ware, run : Attempts, from : {"binary", "atlas"}]

Place == Attempts \cup {Durable}

Codes == {Null, "terminal", "retryable", "fenced", "wall"}

BuildThread ==
    [pc : {"none", "item", "run", "put", "insert", "attest", "seal", "check", "done", "raised"},
     made : Seq(Font), at : Seq(Place), fresh : SUBSET (Nat \ {0}), found : SUBSET Styles,
     code : Codes]

Node ==
    [pc : {"idle", "claim", "probe", "acquire", "build", "upload", "complete", "finish", "upfail",
           "fail", "ack", "giveback"},
     batch : SUBSET Jobs, leased : SUBSET Jobs, job : Jobs \cup {Null}, n : Nat, i : Nat \ {0},
     found : SUBSET Styles, code : Codes]

Job == [status : {"READY", "PROCESSING", "COMPLETED", "FAILED"}, n : Nat, got : Seq(Font)]

Run == [family : Families, mode : Modes, by : Attempts, at : Place]

Row == [font : Font, attested : SUBSET Font]

-----------------------------------------------------------------------------
(* The inductive invariant *)

FilesFit(files, j) ==
    /\ Len(files) <= Len(Items[j])
    /\ \A i \in 1..Len(files) : StandsFor(files[i], Identity(j, i))

WholeOrder(files, j) == FilesFit(files, j) /\ Len(files) = Len(Items[j])

\* Of a job as the edge keeps it: while it waits for a claim it has an attempt left, and what
\* it has got, once it is completed, are its files.
Kept(e, j) ==
    /\ e.n <= MaxAttempts[j]
    /\ e.status = "READY" => e.n < MaxAttempts[j]
    /\ e.status = "COMPLETED" => WholeOrder(e.got, j)

EdgeOK == edge \in [Jobs -> Job] /\ \A j \in Jobs : Kept(edge[j], j)

MessagesOK ==
    /\ queued \in [Jobs -> Nat] /\ held \in [Jobs -> Nat]
    /\ \A j \in node.leased : held[j] > 0

\* The message at hand is one of the batch; past the claim it has an attempt, which was granted.
NodeOK ==
    /\ node \in Node
    /\ node.leased \subseteq node.batch
    /\ node.pc # "idle" => node.job \in node.batch
    /\ node.pc \in {"idle", "claim"} => node.n = 0
    /\ node.n > 0 => This \in Attempts /\ node.n <= edge[node.job].n
    /\ node.pc \notin {"idle", "claim", "ack", "giveback"} => node.n > 0

\* The attempt at hand has lost its job for good.
Lost == node.n > 0 /\ ~Holder(This)

AckOK == node.pc \in {"ack", "finish"} => Settled(node.job) \/ Lost

\* A thread's files fit the order so far, and past the files they are all there.
Sound(t, j) ==
    /\ FilesFit(t.made, j)
    /\ \A i \in t.fresh : i <= Len(t.made)
    /\ Len(t.at) = Len(t.made)
    /\ t.pc = "run" => Len(t.made) < Len(Items[j])
    /\ t.pc \in {"put", "insert", "attest"} => t.fresh # {}
    /\ t.pc \in {"put", "insert", "attest", "seal", "check", "done"} => WholeOrder(t.made, j)

ThreadsOK ==
    thread \in [Attempts -> BuildThread] /\ \A a \in Attempts : Sound(thread[a], a[1])

BuiltOK == node.pc \in {"upload", "complete"} => thread[This].pc = "done"

LocalOK ==
    /\ fenced \subseteq Attempts /\ beating \subseteq Attempts /\ dirs \subseteq Attempts
    /\ wall \in [Attempts -> {"open", "near", "over"}]
    /\ faults \in Nat

\* A run that is remembered is of the order it was made for, which asked for its style.
MemoryOK ==
    /\ DOMAIN memory \subseteq Styles
    /\ \A s \in DOMAIN memory :
          /\ memory[s] \in Run
          /\ LET maker == memory[s].by[1]
             IN  /\ memory[s].family = Family[maker] /\ memory[s].mode = Mode[maker]
                 /\ s \in Ordered(maker)

ArchiveOK ==
    /\ DOMAIN archive \subseteq Ware
    /\ \A k \in DOMAIN archive : archive[k] \in Row /\ StandsFor(archive[k].font, k)

SourcesOK ==
    /\ observed \subseteq Sources
    /\ binaries \in [Sources -> {Null, "good", "damaged"}]

IInv ==
    /\ EdgeOK /\ MessagesOK /\ NodeOK /\ AckOK /\ ThreadsOK /\ BuiltOK /\ LocalOK
    /\ MemoryOK /\ ArchiveOK /\ SourcesOK

TypeOK ==
    /\ edge \in [Jobs -> Job] /\ queued \in [Jobs -> Nat] /\ held \in [Jobs -> Nat]
    /\ node \in Node /\ thread \in [Attempts -> BuildThread]
    /\ fenced \subseteq Attempts /\ beating \subseteq Attempts /\ dirs \subseteq Attempts
    /\ wall \in [Attempts -> {"open", "near", "over"}]
    /\ DOMAIN memory \subseteq Styles /\ \A s \in DOMAIN memory : memory[s] \in Run
    /\ DOMAIN archive \subseteq Ware /\ \A k \in DOMAIN archive : archive[k] \in Row
    /\ observed \subseteq Sources /\ binaries \in [Sources -> {Null, "good", "damaged"}]
    /\ faults \in Nat

-----------------------------------------------------------------------------
(* Least elements, attempts and identities *)

\* The elements of S up to i.
UpTo(S, i) == {h \in S : h <= i}

LEMMA Smaller ==
    ASSUME NEW A, NEW B, NEW x, A \subseteq Nat, B \subseteq Nat, A \subseteq B, x \in B, x \notin A
    PROVE  <<A, B>> \in StrictSubsetOrdering(Nat)
<1>1. <<A, B>> \in (SUBSET Nat) \X (SUBSET Nat)
  OBVIOUS
<1>2. A # B
  OBVIOUS
<1> QED
  BY <1>1, <1>2, Zenon DEF StrictSubsetOrdering

LEMMA Least ==
    ASSUME NEW S, S \subseteq Nat, S # {}
    PROVE  \E i \in S : \A h \in S : i <= h
<1> DEFINE T == {UpTo(S, i) : i \in S}
<1>1. T \subseteq FiniteSubsetsOf(Nat)
  <2>1. ASSUME NEW i \in S PROVE UpTo(S, i) \subseteq Nat /\ IsFiniteSet(UpTo(S, i))
    <3>1. UpTo(S, i) \in SUBSET Nat /\ i \in Nat /\ \A h \in UpTo(S, i) : h <= i
      BY Zenon DEF UpTo
    <3> QED
      BY <3>1, FS_BoundedSetOfNaturals, Zenon
  <2> QED
    BY <2>1, Zenon DEF FiniteSubsetsOf
<1>2. T # {}
  BY Zenon
<1>3. \E x \in T : \A y \in T : ~(<<y, x>> \in StrictSubsetOrdering(Nat))
  <2>1. IsWellFoundedOn(StrictSubsetOrdering(Nat), FiniteSubsetsOf(Nat))
    BY FS_StrictSubsetOrderingWellFounded
  <2> HIDE DEF T
  <2> QED
    BY <1>1, <1>2, <2>1, WFMin, Zenon
<1>4. PICK i \in S : \A h \in S : ~(<<UpTo(S, h), UpTo(S, i)>> \in StrictSubsetOrdering(Nat))
  BY <1>3, Zenon
<1>5. ASSUME NEW h \in S PROVE i <= h
  <2>1. SUFFICES ASSUME h < i PROVE FALSE
    OBVIOUS
  <2>2. UpTo(S, h) \subseteq UpTo(S, i) /\ i \in UpTo(S, i) /\ i \notin UpTo(S, h)
    <3>1. i \in Nat /\ h \in Nat
      BY Zenon
    <3>2. ASSUME NEW g \in Nat, g <= h PROVE g <= i
      BY <2>1, <3>1, <3>2
    <3>3. i <= i /\ ~(i <= h)
      BY <2>1, <3>1
    <3> QED
      BY <3>2, <3>3, Zenon DEF UpTo
  <2>3. UpTo(S, h) \subseteq Nat /\ UpTo(S, i) \subseteq Nat
    BY Zenon DEF UpTo
  <2>4. <<UpTo(S, h), UpTo(S, i)>> \in StrictSubsetOrdering(Nat)
    BY <2>2, <2>3, Smaller
  <2> QED
    BY <2>4, <1>4
<1> QED
  BY <1>5

LEMMA JobFacts ==
    ASSUME NEW j \in Jobs
    PROVE  /\ Mode[j] \in Modes /\ MaxAttempts[j] \in 1..10
           /\ Len(Items[j]) \in Nat \ {0} /\ DOMAIN Items[j] = 1..Len(Items[j])
BY RunnerConstants, Zenon DEF Modes

LEMMA AttemptFacts ==
    ASSUME NEW a
    PROVE  a \in Attempts <=> /\ a \in Jobs \X (1..10)
                              /\ a[2] <= MaxAttempts[a[1]]
BY Zenon DEF Attempts

LEMMA AttemptParts ==
    ASSUME NEW a \in Attempts
    PROVE  /\ a = <<a[1], a[2]>> /\ a[1] \in Jobs /\ a[2] \in Nat \ {0}
           /\ a[2] <= MaxAttempts[a[1]]
<1>1. a \in Jobs \X (1..10) /\ a[2] <= MaxAttempts[a[1]]
  BY AttemptFacts
<1> QED
  BY <1>1

LEMMA AttemptOf ==
    ASSUME NEW j \in Jobs, NEW n \in Nat \ {0}, n <= MaxAttempts[j]
    PROVE  <<j, n>> \in Attempts
<1>1. n \in 1..10
  BY JobFacts
<1> QED
  BY <1>1, AttemptFacts

LEMMA IdentityParts ==
    ASSUME NEW j \in Jobs, NEW i \in 1..Len(Items[j])
    PROVE  /\ Identity(j, i)[1] = Family[j] /\ Identity(j, i)[2] = Mode[j]
           /\ Identity(j, i)[3] = Items[j][i].style /\ Identity(j, i)[4] = Items[j][i].fmt
           /\ Items[j][i].style \in Ordered(j) /\ Items[j][i].style \in Styles
           /\ Identity(j, i) \in Ware
<1>1. i \in DOMAIN Items[j] /\ Mode[j] \in Modes
  BY JobFacts
<1>2. Items[j][i].style \in Ordered(j) /\ Items[j][i].style \in Styles
      /\ Items[j][i].fmt \in Fmts /\ Family[j] \in Families
  <2>1. Items[j][i].style \in {Items[j][h].style : h \in DOMAIN Items[j]}
        /\ Items[j][i].fmt \in {Items[j][h].fmt : h \in DOMAIN Items[j]}
    BY <1>1, Zenon
  <2>2. {Items[j][h].style : h \in DOMAIN Items[j]} \subseteq Styles
    BY Zenon DEF Styles
  <2>3. {Items[j][h].fmt : h \in DOMAIN Items[j]} \subseteq Fmts
    BY Zenon DEF Fmts
  <2> QED
    BY <2>1, <2>2, <2>3, Zenon DEF Ordered, Families
<1> QED
  BY <1>1, <1>2 DEF Identity, Ware

-----------------------------------------------------------------------------
(* Steps of the edge *)

\* The edge goes on: no count of attempts falls, a settled job stays settled, and an attempt
\* that is not the holder of its job does not become it.
Onward ==
    \A j \in Jobs :
        /\ edge[j].n <= edge[j].n'
        /\ Settled(j) => Settled(j)'
        /\ \A n \in Nat : n <= edge[j].n /\ ~Holder(<<j, n>>) => ~Holder(<<j, n>>)'

\* The job j turns into e.
Turns(j, e) ==
    /\ e \in Job /\ Kept(e, j)
    /\ edge[j].n <= e.n
    /\ edge[j].status \in {"READY", "PROCESSING"}
    /\ e.status = "PROCESSING" => edge[j].n < e.n
    /\ edge' = [edge EXCEPT ![j] = e]

EdgeStep == edge' = edge \/ \E j \in Jobs : \E e : Turns(j, e)

LEMMA EdgeGoesOn ==
    ASSUME EdgeOK, EdgeStep
    PROVE  EdgeOK' /\ Onward
<1>1. CASE edge' = edge
  <2>1. EdgeOK'
    BY <1>1, Zenon DEF EdgeOK, Kept, WholeOrder, FilesFit
  <2>2. \A j \in Jobs : edge[j].n \in Nat
    BY DEF EdgeOK, Job
  <2>3. Onward
    BY <1>1, <2>2 DEF Onward, Settled, Holder
  <2> QED
    BY <2>1, <2>3
<1>2. ASSUME NEW j \in Jobs, NEW e, Turns(j, e) PROVE EdgeOK' /\ Onward
  <2>1. /\ edge' = [edge EXCEPT ![j] = e] /\ edge \in [Jobs -> Job] /\ e \in Job /\ Kept(e, j)
        /\ edge[j].n <= e.n /\ edge[j].status \in {"READY", "PROCESSING"}
        /\ e.status = "PROCESSING" => edge[j].n < e.n
        /\ \A l \in Jobs : Kept(edge[l], l)
    BY <1>2, Zenon DEF Turns, EdgeOK
  <2>2. edge' \in [Jobs -> Job]
    BY <2>1
  <2>3. \A l \in Jobs : edge'[l] = IF l = j THEN e ELSE edge[l]
    BY <2>1
  <2>4. \A l \in Jobs : Kept(edge'[l], l)
    BY <2>1, <2>3, Zenon
  <2>5. ASSUME NEW l \in Jobs
        PROVE  /\ edge[l].n <= edge'[l].n
               /\ edge[l].status \in {"COMPLETED", "FAILED"}
                    => edge'[l].status \in {"COMPLETED", "FAILED"}
               /\ \A n \in Nat : n <= edge[l].n /\ ~(edge[l].status = "PROCESSING" /\ edge[l].n = n)
                    => ~(edge'[l].status = "PROCESSING" /\ edge'[l].n = n)
    <3>1. edge[l].n \in Nat /\ e.n \in Nat
      BY <2>1 DEF Job
    <3>2. CASE l = j
      BY <2>1, <2>3, <3>1, <3>2
    <3>3. CASE l # j
      BY <2>3, <3>1, <3>3
    <3> QED
      BY <3>2, <3>3
  <2>6. EdgeOK'
    BY <2>2, <2>4, Zenon DEF EdgeOK, Kept, WholeOrder, FilesFit
  <2>7. Onward
    BY <2>5 DEF Onward, Settled, Holder
  <2> QED
    BY <2>6, <2>7
<1> QED
  BY <1>1, <1>2 DEF EdgeStep

-----------------------------------------------------------------------------
(* What a step leaves alone *)

LEMMA MessageStays ==
    ASSUME EdgeOK, MessagesOK, NodeOK, AckOK, UNCHANGED <<edge, queued, held, node>>
    PROVE  EdgeOK' /\ MessagesOK' /\ NodeOK' /\ AckOK'
<1>1. edge' = edge /\ queued' = queued /\ held' = held /\ node' = node
  OBVIOUS
<1>2. EdgeOK'
  BY <1>1, EdgeGoesOn DEF EdgeStep
<1>3. MessagesOK'
  BY <1>1, Zenon DEF MessagesOK
<1>4. NodeOK'
  BY <1>1, Zenon DEF NodeOK, This
<1>5. AckOK'
  BY <1>1, Zenon DEF AckOK, Settled, Lost, Holder, This
<1> QED
  BY <1>2, <1>3, <1>4, <1>5

LEMMA StoresStay ==
    /\ MemoryOK /\ UNCHANGED memory => MemoryOK'
    /\ ArchiveOK /\ UNCHANGED archive => ArchiveOK'
    /\ SourcesOK /\ UNCHANGED <<observed, binaries>> => SourcesOK'
<1>1. ASSUME MemoryOK, UNCHANGED memory PROVE MemoryOK'
  BY <1>1, Zenon DEF MemoryOK
<1>2. ASSUME ArchiveOK, UNCHANGED archive PROVE ArchiveOK'
  BY <1>2, Zenon DEF ArchiveOK
<1>3. ASSUME SourcesOK, UNCHANGED <<observed, binaries>> PROVE SourcesOK'
  <2>1. observed' = observed /\ binaries' = binaries
    BY <1>3
  <2> QED
    BY <1>3, <2>1, Zenon DEF SourcesOK
<1> QED
  BY <1>1, <1>2, <1>3

LEMMA ThreadsStay ==
    ASSUME ThreadsOK, thread' = thread
    PROVE  ThreadsOK'
BY Zenon DEF ThreadsOK, Sound, WholeOrder, FilesFit

-----------------------------------------------------------------------------
(* Steps of a build thread *)

\* The thread of attempt a turns into t.
ThreadTurns(a, t) ==
    /\ a \in Attempts /\ t \in BuildThread /\ Sound(t, a[1])
    /\ thread' = [thread EXCEPT ![a] = t]

LEMMA ThreadGoesOn ==
    ASSUME ThreadsOK, NEW a, NEW t, ThreadTurns(a, t)
    PROVE  ThreadsOK' /\ \A b \in Attempts : b # a => thread'[b] = thread[b]
<1>1. /\ a \in Attempts /\ t \in BuildThread /\ Sound(t, a[1])
      /\ thread' = [thread EXCEPT ![a] = t] /\ thread \in [Attempts -> BuildThread]
      /\ \A b \in Attempts : Sound(thread[b], b[1])
  BY Zenon DEF ThreadTurns, ThreadsOK
<1>2. thread' \in [Attempts -> BuildThread]
  BY <1>1
<1>3. \A b \in Attempts : thread'[b] = IF b = a THEN t ELSE thread[b]
  BY <1>1
<1>4. \A b \in Attempts : Sound(thread'[b], b[1])
  BY <1>1, <1>3, Zenon
<1>5. ThreadsOK'
  BY <1>2, <1>4, Zenon DEF ThreadsOK, Sound, WholeOrder, FilesFit
<1> QED
  BY <1>3, <1>5, Zenon

\* A step of the build thread of a that leaves the event loop alone.
Works(a) ==
    /\ a \in Attempts /\ thread[a].pc # "done"
    /\ \E t : ThreadTurns(a, t)
    /\ UNCHANGED <<edge, messages, node>>

LEMMA WorksOn ==
    ASSUME IInv, NEW a, Works(a)
    PROVE  EdgeOK' /\ MessagesOK' /\ NodeOK' /\ AckOK' /\ ThreadsOK' /\ BuiltOK'
<1>1. /\ a \in Attempts /\ thread[a].pc # "done" /\ node' = node
      /\ UNCHANGED <<edge, queued, held, node>>
  BY DEF Works, messages
<1>2. PICK t : ThreadTurns(a, t)
  BY Zenon DEF Works
<1>3. ThreadsOK' /\ \A b \in Attempts : b # a => thread'[b] = thread[b]
  <2>1. ThreadsOK
    BY DEF IInv
  <2> QED
    BY <1>2, <2>1, ThreadGoesOn
<1>4. EdgeOK' /\ MessagesOK' /\ NodeOK' /\ AckOK'
  BY <1>1, MessageStays DEF IInv
<1>5. BuiltOK'
  <2>1. SUFFICES ASSUME node.pc \in {"upload", "complete"} PROVE thread'[This].pc = "done"
    BY <1>1, Zenon DEF BuiltOK, This
  <2>2. thread[This].pc = "done"
    BY <2>1, Zenon DEF IInv, BuiltOK
  <2>3. node.n > 0 /\ This \in Attempts
    BY <2>1 DEF IInv, NodeOK
  <2> QED
    BY <1>1, <1>3, <2>2, <2>3, Zenon
<1> QED
  BY <1>3, <1>4, <1>5

\* A thread keeps its files and turns to pc.
LEMMA PcTurns ==
    ASSUME ThreadsOK, NEW a \in Attempts, NEW pc, NEW code \in Codes,
           pc \in {"raised", "item", "run", "put", "insert", "attest", "seal", "check", "done"},
           pc = "run" => Missing(a),
           pc \in {"put", "insert", "attest"} => thread[a].fresh # {},
           pc \in {"put", "insert", "attest", "seal", "check", "done"}
             => WholeOrder(thread[a].made, a[1]),
           thread' = [thread EXCEPT ![a] = [thread[a] EXCEPT !.pc = pc, !.code = code]]
    PROVE  \E t : ThreadTurns(a, t)
<1> DEFINE t == [thread[a] EXCEPT !.pc = pc, !.code = code]
<1>1. thread[a] \in BuildThread /\ Sound(thread[a], a[1])
  BY Zenon DEF ThreadsOK
<1>2. t \in BuildThread
  BY <1>1 DEF BuildThread
<1>3. t.pc = pc /\ t.made = thread[a].made /\ t.at = thread[a].at /\ t.fresh = thread[a].fresh
  BY <1>1 DEF BuildThread
<1> HIDE DEF t
<1>4. Sound(t, a[1])
  BY <1>1, <1>3, Zenon DEF Sound, Missing
<1>5. thread' = [thread EXCEPT ![a] = t]
  BY DEF t
<1> QED
  BY <1>2, <1>4, <1>5, Zenon DEF ThreadTurns

LEMMA FailingTurns ==
    ASSUME ThreadsOK, NEW a \in Attempts, NEW code \in Codes, Failing(a, code)
    PROVE  \E t : ThreadTurns(a, t)
<1>1. thread' = [thread EXCEPT ![a] = [thread[a] EXCEPT !.pc = "raised", !.code = code]]
  BY Zenon DEF Failing, Step
<1>2. "raised" \notin {"run"} \cup {"put", "insert", "attest", "seal", "check", "done"}
      /\ "raised" \in {"raised", "item", "run", "put", "insert", "attest", "seal", "check", "done"}
  OBVIOUS
<1> QED
  BY <1>1, <1>2, PcTurns

LEMMA StepTurns ==
    ASSUME ThreadsOK, NEW a \in Attempts, NEW pc,
           pc \in {"item", "run", "put", "insert", "attest", "seal", "check", "done"},
           pc = "run" => Missing(a),
           pc \in {"put", "insert", "attest"} => thread[a].fresh # {},
           pc \in {"put", "insert", "attest", "seal", "check", "done"}
             => WholeOrder(thread[a].made, a[1]),
           Step(a, [thread[a] EXCEPT !.pc = pc])
    PROVE  \E t : ThreadTurns(a, t)
<1>1. thread[a] \in BuildThread
  BY DEF ThreadsOK
<1>2. thread[a].code \in Codes
        /\ [thread[a] EXCEPT !.pc = pc] = [thread[a] EXCEPT !.pc = pc, !.code = thread[a].code]
  BY <1>1 DEF BuildThread
<1>3. PICK code \in Codes :
          [thread[a] EXCEPT !.pc = pc] = [thread[a] EXCEPT !.pc = pc, !.code = code]
  BY <1>2
<1>4. thread' = [thread EXCEPT ![a] = [thread[a] EXCEPT !.pc = pc, !.code = code]]
  BY <1>3, Zenon DEF Step
<1> QED
  BY <1>4, PcTurns, Zenon

-----------------------------------------------------------------------------
(* The actions of a build thread *)

LEMMA ThreadWorks ==
    ASSUME IInv, NEW a, Works(a), dirs' \subseteq Attempts,
           UNCHANGED <<fenced, beating, wall, faults>>,
           MemoryOK', ArchiveOK', SourcesOK'
    PROVE  IInv'
<1>1. EdgeOK' /\ MessagesOK' /\ NodeOK' /\ AckOK' /\ ThreadsOK' /\ BuiltOK'
  BY WorksOn
<1>2. LocalOK'
  BY DEF IInv, LocalOK
<1> QED
  BY <1>1, <1>2, Zenon DEF IInv

\* A step that touches no store.
LEMMA ThreadWorksAlone ==
    ASSUME IInv, NEW a, Works(a), dirs' \subseteq Attempts,
           UNCHANGED <<fenced, beating, wall, faults>>, UNCHANGED caches
    PROVE  IInv'
<1>1. MemoryOK' /\ ArchiveOK' /\ SourcesOK'
  <2>1. UNCHANGED memory /\ UNCHANGED archive /\ UNCHANGED <<observed, binaries>>
    BY DEF caches
  <2> QED
    BY <2>1, StoresStay, Zenon DEF IInv
<1> QED
  BY <1>1, ThreadWorks

LEMMA DirsFacts ==
    ASSUME IInv, NEW a \in Attempts
    PROVE  /\ dirs \subseteq Attempts /\ dirs \cup {a} \subseteq Attempts
           /\ dirs \ {a} \subseteq Attempts
BY DEF IInv, LocalOK

LEMMA ThreadFacts ==
    ASSUME IInv, NEW a \in Attempts
    PROVE  /\ ThreadsOK /\ thread[a] \in BuildThread /\ Sound(thread[a], a[1])
           /\ Len(thread[a].made) \in Nat /\ thread[a].made \in Seq(Font)
           /\ a[1] \in Jobs /\ Len(Items[a[1]]) \in Nat \ {0}
<1>1. ThreadsOK
  BY DEF IInv
<1>2. thread[a] \in BuildThread /\ Sound(thread[a], a[1])
  BY <1>1, Zenon DEF ThreadsOK
<1>3. thread[a].made \in Seq(Font)
  BY <1>2 DEF BuildThread
<1>4. a[1] \in Jobs
  BY AttemptParts
<1> QED
  BY <1>1, <1>2, <1>3, <1>4, JobFacts

LEMMA WantedFacts ==
    ASSUME IInv, NEW a \in Attempts, Missing(a)
    PROVE  /\ Len(thread[a].made) + 1 \in 1..Len(Items[a[1]])
           /\ Wanted(a) \in Ware /\ Wanted(a)[1] = Family[a[1]] /\ Wanted(a)[2] = Mode[a[1]]
           /\ Wanted(a)[3] \in Ordered(a[1]) /\ Wanted(a)[3] \in Styles
<1>1. Len(thread[a].made) + 1 \in 1..Len(Items[a[1]])
  BY ThreadFacts DEF Missing
<1> QED
  BY <1>1, ThreadFacts, IdentityParts DEF Wanted

LEMMA FreshFont ==
    ASSUME IInv, NEW a \in Attempts, Missing(a), NEW from \in {"binary", "atlas"}
    PROVE  FontOf(Wanted(a), a, from) \in Font /\ StandsFor(FontOf(Wanted(a), a, from), Wanted(a))
<1>1. PICK f : f = FontOf(Wanted(a), a, from)
  OBVIOUS
<1>2. PICK k : k = Wanted(a)
  OBVIOUS
<1>3. f.of = k /\ f.run = a /\ f.from = from /\ f \in Font
  BY <1>1, <1>2, WantedFacts DEF FontOf, Font
<1>4. k = <<Family[a[1]], Mode[a[1]], k[3], k[4]>>
  BY <1>2, WantedFacts DEF Ware
<1>5. StandsFor(f, k)
  BY <1>3, <1>4, Zenon DEF StandsFor
<1> QED
  BY <1>1, <1>2, <1>3, <1>5

LEMMA MadeTurns ==
    ASSUME IInv, NEW a \in Attempts, Missing(a), NEW f \in Font, NEW p \in Place,
           StandsFor(f, Wanted(a)), NEW gated, Made(a, f, p, gated)
    PROVE  \E t : ThreadTurns(a, t)
<1> DEFINE i == Len(thread[a].made) + 1
           fresh == IF gated /\ Archiving THEN thread[a].fresh \cup {i} ELSE thread[a].fresh
           t == [thread[a] EXCEPT !.pc = "item", !.made = Append(thread[a].made, f),
                                  !.at = Append(thread[a].at, p), !.fresh = fresh]
<1>1. /\ thread[a] \in BuildThread /\ thread[a].made \in Seq(Font) /\ thread[a].at \in Seq(Place)
      /\ thread[a].fresh \in SUBSET (Nat \ {0}) /\ Sound(thread[a], a[1])
  BY ThreadFacts DEF BuildThread
<1>2. thread' = [thread EXCEPT ![a] = t]
  BY <1>1, Zenon DEF Made, Step
<1>3. /\ t.pc = "item" /\ t.made = Append(thread[a].made, f) /\ t.at = Append(thread[a].at, p)
      /\ t.fresh = fresh /\ t.found = thread[a].found /\ t.code = thread[a].code
  BY <1>1 DEF BuildThread
<1>4. Len(thread[a].made) \in Nat /\ i \in Nat \ {0} /\ fresh \in SUBSET (Nat \ {0})
      /\ i \in 1..Len(Items[a[1]])
  <2>1. Len(thread[a].made) \in Nat
    BY <1>1
  <2>2. i \in 1..Len(Items[a[1]])
    BY WantedFacts
  <2>3. i \in Nat \ {0}
    BY <2>1
  <2> HIDE DEF i
  <2>4. fresh \in SUBSET (Nat \ {0})
    BY <1>1, <2>3
  <2> QED
    BY <2>1, <2>2, <2>3, <2>4
<1>5. Append(thread[a].made, f) \in Seq(Font) /\ Append(thread[a].at, p) \in Seq(Place)
  BY <1>1
<1>6. t \in BuildThread
  BY <1>1, <1>4, <1>5 DEF BuildThread
<1>7. FilesFit(t.made, a[1])
  <2>1. Len(t.made) = i /\ i <= Len(Items[a[1]])
    BY <1>1, <1>3, <1>4, ThreadFacts
  <2>2. ASSUME NEW h \in 1..i PROVE StandsFor(t.made[h], Identity(a[1], h))
    <3>1. CASE h = i
      <4>1. t.made[h] = f
        BY <1>1, <1>3, <3>1
      <4> QED
        BY <3>1, <4>1, Zenon DEF Wanted
    <3>2. CASE h # i
      <4>1. h \in 1..Len(thread[a].made) /\ t.made[h] = thread[a].made[h]
        BY <1>1, <1>3, <1>4, <3>2
      <4> QED
        BY <1>1, <4>1, Zenon DEF Sound, FilesFit
    <3> QED
      BY <3>1, <3>2
  <2> QED
    BY <2>1, <2>2, Zenon DEF FilesFit
<1>8. \A h \in t.fresh : h <= Len(t.made)
  <2>1. \A h \in thread[a].fresh : h \in Nat /\ h <= Len(thread[a].made)
    BY <1>1, Zenon DEF Sound
  <2>2. Len(t.made) = i
    BY <1>1, <1>3
  <2>3. \A h \in thread[a].fresh : h <= i
    BY <1>4, <2>1
  <2>4. t.fresh \subseteq thread[a].fresh \cup {i} /\ i <= i
    BY <1>3, <1>4
  <2> QED
    BY <2>2, <2>3, <2>4, Zenon
<1>9. Len(t.at) = Len(t.made)
  <2>1. Len(thread[a].at) = Len(thread[a].made)
    BY <1>1, Zenon DEF Sound
  <2> QED
    BY <1>1, <1>3, <2>1
<1> HIDE DEF t
<1>10. Sound(t, a[1])
  BY <1>3, <1>7, <1>8, <1>9, Zenon DEF Sound
<1> QED
  BY <1>2, <1>6, <1>10, Zenon DEF ThreadTurns

LEMMA ThreadStopsKeeps ==
    ASSUME IInv, NEW a \in Attempts, ThreadStops(a)
    PROVE  IInv'
<1>1. PICK code \in Codes : Failing(a, code)
  BY DEF ThreadStops, Codes
<1>2. Works(a)
  BY <1>1, FailingTurns, ThreadFacts DEF ThreadStops, Works
<1>3. dirs' \subseteq Attempts
  BY DirsFacts DEF ThreadStops
<1> QED
  BY <1>2, <1>3, ThreadWorksAlone DEF ThreadStops

LEMMA ThreadRaisesKeeps ==
    ASSUME IInv, NEW a \in Attempts, ThreadRaises(a)
    PROVE  IInv'
<1>1. PICK code \in Codes : Failing(a, code)
  BY DEF ThreadRaises, Codes
<1>2. Works(a)
  BY <1>1, FailingTurns, ThreadFacts DEF ThreadRaises, Works
<1> QED
  BY <1>2, DirsFacts, ThreadWorksAlone DEF ThreadRaises

LEMMA TakeArchivedKeeps ==
    ASSUME IInv, NEW a \in Attempts, TakeArchived(a)
    PROVE  IInv'
<1>1. Missing(a) /\ Hit(Wanted(a)) /\ thread[a].pc # "done" /\ Durable \in Place
      /\ Made(a, archive[Wanted(a)].font, Durable, FALSE)
  BY DEF TakeArchived, Place
<1>2. archive[Wanted(a)] \in Row /\ StandsFor(archive[Wanted(a)].font, Wanted(a))
  BY <1>1, Zenon DEF Hit, IInv, ArchiveOK
<1>3. archive[Wanted(a)].font \in Font
  BY <1>2 DEF Row
<1>4. \E t : ThreadTurns(a, t)
  BY <1>1, <1>2, <1>3, MadeTurns
<1>5. Works(a)
  BY <1>1, <1>4 DEF TakeArchived, Works
<1> QED
  BY <1>5, DirsFacts, ThreadWorksAlone DEF TakeArchived

LEMMA TakeBinaryKeeps ==
    ASSUME IInv, NEW a \in Attempts, TakeBinary(a)
    PROVE  IInv'
<1>1. Missing(a) /\ thread[a].pc # "done" /\ a \in Place
      /\ Made(a, FontOf(Wanted(a), a, "binary"), a, TRUE)
  BY DEF TakeBinary, Place
<1>2. \E t : ThreadTurns(a, t)
  BY <1>1, FreshFont, MadeTurns
<1>3. Works(a)
  BY <1>1, <1>2 DEF TakeBinary, Works
<1>4. dirs' \subseteq Attempts
  BY DirsFacts DEF TakeBinary
<1> QED
  BY <1>3, <1>4, ThreadWorksAlone DEF TakeBinary

LEMMA RunFont ==
    ASSUME IInv, NEW a \in Attempts, Missing(a), Wanted(a)[3] \in DOMAIN memory,
           NEW f, f = FontOf(<<memory[Wanted(a)[3]].family, memory[Wanted(a)[3]].mode,
                               Wanted(a)[3], Wanted(a)[4]>>, memory[Wanted(a)[3]].by, "atlas")
    PROVE  f \in Font /\ memory[Wanted(a)[3]].at \in Place /\ StandsFor(f, Wanted(a))
<1>1. Wanted(a) \in Ware
  BY WantedFacts
<1>2. Wanted(a)[3] \in Styles /\ Wanted(a)[4] \in Fmts
  BY <1>1 DEF Ware
<1>3. PICK s : s = Wanted(a)[3]
  OBVIOUS
<1>4. memory[s] \in Run
  BY <1>3, Zenon DEF IInv, MemoryOK
<1>5. /\ memory[s].family \in Families /\ memory[s].mode \in Modes /\ memory[s].by \in Attempts
      /\ memory[s].at \in Place
  BY <1>4 DEF Run
<1>6. PICK j : j = memory[s].by[1]
  OBVIOUS
<1>7. memory[s].family = Family[j] /\ memory[s].mode = Mode[j] /\ s \in Ordered(j)
  BY <1>3, <1>6, Zenon DEF IInv, MemoryOK
<1>8. f.of = <<memory[s].family, memory[s].mode, s, Wanted(a)[4]>> /\ f.run = memory[s].by
      /\ f.from = "atlas" /\ f = [of |-> f.of, run |-> f.run, from |-> f.from]
  BY <1>3 DEF FontOf
<1>9. f.of \in Ware
  BY <1>2, <1>3, <1>5, <1>8 DEF Ware
<1>10. f \in Font
  BY <1>5, <1>8, <1>9 DEF Font
<1>11. StandsFor(f, Wanted(a))
  BY <1>3, <1>6, <1>7, <1>8, Zenon DEF StandsFor
<1> QED
  BY <1>3, <1>5, <1>10, <1>11

LEMMA TakeRunKeeps ==
    ASSUME IInv, NEW a \in Attempts, TakeRun(a)
    PROVE  IInv'
<1>1. Missing(a) /\ thread[a].pc # "done"
  BY DEF TakeRun
<1>2. \E t : ThreadTurns(a, t)
  <2>1. CASE Step(a, [thread[a] EXCEPT !.pc = "run"])
    BY <1>1, <2>1, ThreadFacts, StepTurns
  <2>2. CASE \E p : /\ Wanted(a)[3] \in DOMAIN memory /\ p = memory[Wanted(a)[3]].at
                    /\ Made(a, FontOf(<<memory[Wanted(a)[3]].family, memory[Wanted(a)[3]].mode,
                                        Wanted(a)[3], Wanted(a)[4]>>, memory[Wanted(a)[3]].by,
                                    "atlas"), p, TRUE)
    <3>1. PICK f : f = FontOf(<<memory[Wanted(a)[3]].family, memory[Wanted(a)[3]].mode,
                                Wanted(a)[3], Wanted(a)[4]>>, memory[Wanted(a)[3]].by, "atlas")
      OBVIOUS
    <3>2. PICK p : /\ Wanted(a)[3] \in DOMAIN memory /\ p = memory[Wanted(a)[3]].at
                   /\ Made(a, f, p, TRUE)
      BY <2>2, <3>1, Zenon
    <3>3. f \in Font /\ p \in Place /\ StandsFor(f, Wanted(a))
      BY <1>1, <3>1, <3>2, RunFont
    <3> QED
      BY <1>1, <3>2, <3>3, MadeTurns
  <2>3. CASE Failing(a, "retryable")
    BY <2>3, FailingTurns, ThreadFacts DEF Codes
  <2> QED
    BY <2>1, <2>2, <2>3, Zenon DEF TakeRun
<1>3. Works(a)
  BY <1>1, <1>2 DEF TakeRun, Works
<1> QED
  BY <1>3, DirsFacts, ThreadWorksAlone DEF TakeRun

LEMMA RunEndsKeeps ==
    ASSUME IInv, NEW a \in Attempts, RunEnds(a)
    PROVE  IInv'
<1>1. thread[a].pc = "run" /\ ThreadsOK /\ Sound(thread[a], a[1]) /\ a[1] \in Jobs
  BY ThreadFacts DEF RunEnds
<1>2. Missing(a)
  BY <1>1, Zenon DEF Missing, Sound
<1>3. PICK p \in {a, Durable} :
          /\ memory' = With(memory, Wanted(a)[3], [family |-> Wanted(a)[1], mode |-> Wanted(a)[2],
                                                   by |-> a, at |-> p])
          /\ Made(a, FontOf(Wanted(a), a, "atlas"), p, TRUE)
          /\ dirs' = IF p = a THEN dirs \cup {a} ELSE dirs
  BY Zenon DEF RunEnds
<1>4. p \in Place
  BY DEF Place
<1>5. \E t : ThreadTurns(a, t)
  BY <1>2, <1>3, <1>4, FreshFont, MadeTurns
<1>6. Works(a)
  BY <1>1, <1>5 DEF RunEnds, Works
<1>7. MemoryOK'
  <2>1. PICK r : r = [family |-> Wanted(a)[1], mode |-> Wanted(a)[2], by |-> a, at |-> p]
    OBVIOUS
  <2>2. Wanted(a)[1] \in Families /\ Wanted(a)[2] \in Modes
    BY <1>2, WantedFacts DEF Ware
  <2>3. r \in Run /\ r.family = Wanted(a)[1] /\ r.mode = Wanted(a)[2] /\ r.by[1] = a[1]
    BY <1>4, <2>1, <2>2 DEF Run
  <2>4. PICK s : s = Wanted(a)[3]
    OBVIOUS
  <2>5. s \in Styles /\ s \in Ordered(a[1]) /\ r.family = Family[a[1]] /\ r.mode = Mode[a[1]]
    BY <1>2, <2>3, <2>4, WantedFacts
  <2>6. DOMAIN memory' = DOMAIN memory \cup {s}
        /\ \A y \in DOMAIN memory \cup {s} : memory'[y] = IF y = s THEN r ELSE memory[y]
    BY <1>3, <2>1, <2>4 DEF With
  <2>7. DOMAIN memory \subseteq Styles
        /\ \A y \in DOMAIN memory : memory[y] \in Run
              /\ memory[y].family = Family[memory[y].by[1]] /\ memory[y].mode = Mode[memory[y].by[1]]
              /\ y \in Ordered(memory[y].by[1])
    BY Zenon DEF IInv, MemoryOK
  <2>8. ASSUME NEW y \in DOMAIN memory'
        PROVE  memory'[y] \in Run
               /\ memory'[y].family = Family[memory'[y].by[1]]
               /\ memory'[y].mode = Mode[memory'[y].by[1]] /\ y \in Ordered(memory'[y].by[1])
    <3>1. CASE y = s
      BY <1>1, <2>3, <2>5, <2>6, <3>1, Zenon
    <3>2. CASE y # s
      BY <2>6, <2>7, <3>2, Zenon
    <3> QED
      BY <3>1, <3>2
  <2>9. DOMAIN memory' \subseteq Styles
    BY <2>5, <2>6, <2>7
  <2> QED
    BY <2>8, <2>9, Zenon DEF MemoryOK
<1>8. dirs' \subseteq Attempts
  BY <1>3, DirsFacts
<1>9. ArchiveOK' /\ SourcesOK'
  <2>1. UNCHANGED archive /\ UNCHANGED <<observed, binaries>>
    BY DEF RunEnds
  <2> QED
    BY <2>1, StoresStay, Zenon DEF IInv
<1> QED
  BY <1>6, <1>7, <1>8, <1>9, ThreadWorks DEF RunEnds

LEMMA GatesPassedKeeps ==
    ASSUME IInv, NEW a \in Attempts, GatesPassed(a)
    PROVE  IInv'
<1>1. thread[a].pc # "done" /\ ~Missing(a)
      /\ Step(a, [thread[a] EXCEPT !.pc = IF thread[a].fresh = {} THEN "seal" ELSE "put"])
  BY DEF GatesPassed
<1>2. WholeOrder(thread[a].made, a[1])
  <2>1. FilesFit(thread[a].made, a[1])
    BY ThreadFacts, Zenon DEF Sound
  <2>2. Len(thread[a].made) <= Len(Items[a[1]])
    BY <2>1, Zenon DEF FilesFit
  <2>3. Len(thread[a].made) = Len(Items[a[1]])
    BY <1>1, <2>2, ThreadFacts DEF Missing
  <2> QED
    BY <2>1, <2>3, Zenon DEF WholeOrder
<1>3. \E t : ThreadTurns(a, t)
  BY <1>1, <1>2, ThreadFacts, StepTurns
<1>4. Works(a)
  BY <1>1, <1>3 DEF GatesPassed, Works
<1> QED
  BY <1>4, DirsFacts, ThreadWorksAlone DEF GatesPassed

\* The file that is archived next is one of the files.
LEMMA NextFreshFacts ==
    ASSUME IInv, NEW a \in Attempts, thread[a].fresh # {}, WholeOrder(thread[a].made, a[1])
    PROVE  /\ NextFresh(a) \in thread[a].fresh /\ NextFresh(a) \in 1..Len(Items[a[1]])
           /\ thread[a].made[NextFresh(a)] \in Font /\ Entry(a) \in Ware
           /\ StandsFor(thread[a].made[NextFresh(a)], Entry(a))
<1>1. thread[a].fresh \subseteq Nat /\ thread[a].fresh \subseteq Nat \ {0}
  BY ThreadFacts DEF BuildThread
<1>2. \E i \in thread[a].fresh : \A h \in thread[a].fresh : i <= h
  BY <1>1, Least
<1>3. NextFresh(a) \in thread[a].fresh
  BY <1>2, Zenon DEF NextFresh
<1>4. PICK i : i = NextFresh(a)
  OBVIOUS
<1>5. Len(thread[a].made) = Len(Items[a[1]]) /\ FilesFit(thread[a].made, a[1])
  BY Zenon DEF WholeOrder
<1>6. i \in Nat \ {0} /\ i <= Len(thread[a].made)
  BY <1>1, <1>3, <1>4, ThreadFacts DEF Sound
<1>7. i \in 1..Len(thread[a].made)
  BY <1>6, ThreadFacts
<1>8. StandsFor(thread[a].made[i], Identity(a[1], i))
  BY <1>5, <1>7, Zenon DEF FilesFit
<1>9. thread[a].made[i] \in Font
  BY <1>7, ThreadFacts
<1>10. Identity(a[1], i) \in Ware
  BY <1>5, <1>7, ThreadFacts, IdentityParts
<1> QED
  BY <1>3, <1>4, <1>5, <1>7, <1>8, <1>9, <1>10 DEF Entry

LEMMA Archives ==
    ASSUME IInv, NEW a \in Attempts, thread[a].pc \in {"put", "insert", "attest"}
    PROVE  thread[a].fresh # {} /\ WholeOrder(thread[a].made, a[1])
BY ThreadFacts, Zenon DEF Sound

LEMMA ArchiveLooksKeeps ==
    ASSUME IInv, NEW a \in Attempts, ArchiveLooks(a)
    PROVE  IInv'
<1>1. thread[a].pc = "put"
  BY DEF ArchiveLooks
<1>2. thread[a].fresh # {} /\ WholeOrder(thread[a].made, a[1])
  BY <1>1, Archives
<1>3. \E t : ThreadTurns(a, t)
  <2>1. CASE Failing(a, "retryable")
    BY <2>1, FailingTurns, ThreadFacts DEF Codes
  <2>2. CASE \E pc \in {"attest", "insert"} : Step(a, [thread[a] EXCEPT !.pc = pc])
    BY <1>2, <2>2, ThreadFacts, StepTurns
  <2> QED
    BY <2>1, <2>2 DEF ArchiveLooks
<1>4. Works(a)
  BY <1>1, <1>3 DEF ArchiveLooks, Works
<1> QED
  BY <1>4, DirsFacts, ThreadWorksAlone DEF ArchiveLooks

LEMMA ArchiveInsertsKeeps ==
    ASSUME IInv, NEW a \in Attempts, ArchiveInserts(a)
    PROVE  IInv'
<1>1. thread[a].pc = "insert"
  BY DEF ArchiveInserts
<1>2. thread[a].fresh # {} /\ WholeOrder(thread[a].made, a[1])
  BY <1>1, Archives
<1>3. \E t : ThreadTurns(a, t)
  BY <1>2, ThreadFacts, StepTurns DEF ArchiveInserts
<1>4. Works(a)
  BY <1>1, <1>3 DEF ArchiveInserts, Works
<1>5. ArchiveOK'
  <2>1. PICK r, k : r = [font |-> thread[a].made[NextFresh(a)], attested |-> {}] /\ k = Entry(a)
    OBVIOUS
  <2>2. r.font = thread[a].made[NextFresh(a)]
    BY <2>1
  <2>3. r \in Row
    BY <1>2, <2>1, NextFreshFacts DEF Row
  <2>4. k \in Ware /\ StandsFor(r.font, k)
    BY <1>2, <2>1, <2>2, NextFreshFacts, Zenon
  <2>5. DOMAIN archive' = DOMAIN archive \cup {k}
        /\ \A y \in DOMAIN archive \cup {k} : archive'[y] = IF y = k THEN r ELSE archive[y]
    BY <2>1 DEF ArchiveInserts, With
  <2>6. DOMAIN archive \subseteq Ware
        /\ \A y \in DOMAIN archive : archive[y] \in Row /\ StandsFor(archive[y].font, y)
    BY Zenon DEF IInv, ArchiveOK
  <2>7. ASSUME NEW y \in DOMAIN archive'
        PROVE  archive'[y] \in Row /\ StandsFor(archive'[y].font, y)
    <3>1. CASE y = k
      BY <2>3, <2>4, <2>5, <3>1, Zenon
    <3>2. CASE y # k
      BY <2>5, <2>6, <3>2, Zenon
    <3> QED
      BY <3>1, <3>2
  <2>8. DOMAIN archive' \subseteq Ware
    BY <2>4, <2>5, <2>6
  <2> QED
    BY <2>7, <2>8, Zenon DEF ArchiveOK, StandsFor
<1>6. MemoryOK' /\ SourcesOK'
  <2>1. UNCHANGED memory /\ UNCHANGED <<observed, binaries>>
    BY DEF ArchiveInserts
  <2> QED
    BY <2>1, StoresStay, Zenon DEF IInv
<1> QED
  BY <1>4, <1>5, <1>6, DirsFacts, ThreadWorks DEF ArchiveInserts

LEMMA ArchiveAttestsKeeps ==
    ASSUME IInv, NEW a \in Attempts, ArchiveAttests(a)
    PROVE  IInv'
<1>1. thread[a].pc = "attest" /\ thread[a].pc # "done"
  BY DEF ArchiveAttests
<1>2. thread[a].fresh # {} /\ WholeOrder(thread[a].made, a[1])
  BY <1>1, Archives
<1>3. PICK i, rest : i = NextFresh(a) /\ rest = thread[a].fresh \ {i}
  OBVIOUS
<1>4. PICK t : t = [thread[a] EXCEPT !.fresh = rest, !.pc = IF rest = {} THEN "seal" ELSE "put"]
  OBVIOUS
<1>5. /\ thread' = [thread EXCEPT ![a] = t]
      /\ archive' = [archive EXCEPT ![Entry(a)].attested = {thread[a].made[i]}]
  BY <1>3, <1>4, Zenon DEF ArchiveAttests, Step
<1>6. thread[a] \in BuildThread /\ Sound(thread[a], a[1])
  BY ThreadFacts
<1>7. /\ t \in BuildThread /\ t.fresh = rest /\ t.made = thread[a].made /\ t.at = thread[a].at
      /\ t.pc = IF rest = {} THEN "seal" ELSE "put"
  BY <1>3, <1>4, <1>6 DEF BuildThread
<1>8. Sound(t, a[1])
  <2>1. \A h \in t.fresh : h <= Len(t.made)
    BY <1>3, <1>6, <1>7, Zenon DEF Sound
  <2>2. t.pc # "run" /\ (t.pc \in {"put", "insert", "attest"} => t.fresh # {})
    BY <1>7
  <2>3. FilesFit(t.made, a[1]) /\ Len(t.at) = Len(t.made) /\ WholeOrder(t.made, a[1])
    BY <1>2, <1>6, <1>7, Zenon DEF Sound
  <2> QED
    BY <2>1, <2>2, <2>3, Zenon DEF Sound
<1>9. \E u : ThreadTurns(a, u)
  BY <1>5, <1>7, <1>8, Zenon DEF ThreadTurns
<1>10. Works(a)
  BY <1>1, <1>9 DEF ArchiveAttests, Works
<1>11. ArchiveOK'
  <2>1. PICK f, k : f = thread[a].made[i] /\ k = Entry(a)
    OBVIOUS
  <2>2. f \in Font
    BY <1>2, <1>3, <2>1, NextFreshFacts
  <2>3. DOMAIN archive \subseteq Ware
        /\ \A y \in DOMAIN archive : archive[y] \in Row /\ StandsFor(archive[y].font, y)
    BY Zenon DEF IInv, ArchiveOK
  <2>4. DOMAIN archive' = DOMAIN archive
        /\ \A y \in DOMAIN archive :
              archive'[y] = IF y = k THEN [archive[y] EXCEPT !.attested = {f}] ELSE archive[y]
    BY <1>5, <2>1
  <2>5. ASSUME NEW y \in DOMAIN archive
        PROVE  archive'[y] \in Row /\ archive'[y].font = archive[y].font
    <3>1. archive[y] \in Row
      BY <2>3
    <3>2. CASE y = k
      BY <2>2, <2>4, <3>1, <3>2 DEF Row
    <3>3. CASE y # k
      BY <2>4, <3>1, <3>3
    <3> QED
      BY <3>2, <3>3
  <2>6. \A y \in DOMAIN archive' : archive'[y] \in Row /\ StandsFor(archive'[y].font, y)
    BY <2>3, <2>4, <2>5, Zenon
  <2> QED
    BY <2>3, <2>4, <2>6, Zenon DEF ArchiveOK, StandsFor
<1>12. MemoryOK' /\ SourcesOK'
  <2>1. UNCHANGED memory /\ UNCHANGED <<observed, binaries>>
    BY DEF ArchiveAttests
  <2> QED
    BY <2>1, StoresStay, Zenon DEF IInv
<1> QED
  BY <1>10, <1>11, <1>12, DirsFacts, ThreadWorks DEF ArchiveAttests

LEMMA PackageKeeps ==
    ASSUME IInv, NEW a \in Attempts, Package(a)
    PROVE  IInv'
<1>1. thread[a].pc = "seal" /\ thread[a].pc # "done"
  BY DEF Package
<1>2. WholeOrder(thread[a].made, a[1])
  BY <1>1, ThreadFacts, Zenon DEF Sound
<1>3. \E t : ThreadTurns(a, t)
  <2>1. CASE Failing(a, "retryable")
    BY <2>1, FailingTurns, ThreadFacts DEF Codes
  <2>2. CASE Step(a, [thread[a] EXCEPT !.pc = "check"])
    BY <1>2, <2>2, ThreadFacts, StepTurns
  <2> QED
    BY <2>1, <2>2 DEF Package
<1>4. Works(a)
  BY <1>1, <1>3 DEF Package, Works
<1>5. dirs' \subseteq Attempts
  BY DirsFacts DEF Package
<1> QED
  BY <1>4, <1>5, ThreadWorksAlone DEF Package

LEMMA CheckedKeeps ==
    ASSUME IInv, NEW a \in Attempts, Checked(a)
    PROVE  IInv'
<1>1. thread[a].pc = "check" /\ thread[a].pc # "done"
      /\ Step(a, [thread[a] EXCEPT !.pc = "done"])
  BY DEF Checked
<1>2. WholeOrder(thread[a].made, a[1])
  BY <1>1, ThreadFacts, Zenon DEF Sound
<1>3. \E t : ThreadTurns(a, t)
  BY <1>1, <1>2, ThreadFacts, StepTurns
<1>4. Works(a)
  BY <1>1, <1>3 DEF Checked, Works
<1> QED
  BY <1>4, DirsFacts, ThreadWorksAlone DEF Checked

LEMMA ThreadKeeps ==
    ASSUME IInv, NEW a \in Attempts, Thread(a)
    PROVE  IInv'
<1>1. CASE ThreadStops(a)
  BY <1>1, ThreadStopsKeeps
<1>2. CASE ThreadRaises(a)
  BY <1>2, ThreadRaisesKeeps
<1>3. CASE TakeArchived(a)
  BY <1>3, TakeArchivedKeeps
<1>4. CASE TakeBinary(a)
  BY <1>4, TakeBinaryKeeps
<1>5. CASE TakeRun(a)
  BY <1>5, TakeRunKeeps
<1>6. CASE RunEnds(a)
  BY <1>6, RunEndsKeeps
<1>7. CASE GatesPassed(a)
  BY <1>7, GatesPassedKeeps
<1>8. CASE ArchiveLooks(a)
  BY <1>8, ArchiveLooksKeeps
<1>9. CASE ArchiveInserts(a)
  BY <1>9, ArchiveInsertsKeeps
<1>10. CASE ArchiveAttests(a)
  BY <1>10, ArchiveAttestsKeeps
<1>11. CASE Package(a)
  BY <1>11, PackageKeeps
<1>12. CASE Checked(a)
  BY <1>12, CheckedKeeps
<1> QED
  BY <1>1, <1>2, <1>3, <1>4, <1>5, <1>6, <1>7, <1>8, <1>9, <1>10, <1>11, <1>12, Zenon DEF Thread

-----------------------------------------------------------------------------
(* The edge, the queue, heartbeats and time *)

\* The stores are as they were.
LEMMA CachesStay ==
    ASSUME IInv, UNCHANGED caches
    PROVE  MemoryOK' /\ ArchiveOK' /\ SourcesOK'
<1>1. UNCHANGED memory /\ UNCHANGED archive /\ UNCHANGED <<observed, binaries>>
  BY DEF caches
<1> QED
  BY <1>1, StoresStay, Zenon DEF IInv

LEMMA BuiltStays ==
    ASSUME BuiltOK, UNCHANGED <<node, thread>>
    PROVE  BuiltOK'
<1>1. node' = node /\ thread' = thread
  OBVIOUS
<1> QED
  BY <1>1, Zenon DEF BuiltOK, This

\* Only what is local to an attempt changes.
LEMMA LocalStep ==
    ASSUME IInv, UNCHANGED <<edge, messages, node, thread, caches>>, LocalOK'
    PROVE  IInv'
<1>1. EdgeOK' /\ MessagesOK' /\ NodeOK' /\ AckOK'
  BY MessageStays DEF IInv, messages
<1>2. ThreadsOK' /\ BuiltOK'
  BY ThreadsStay, BuiltStays DEF IInv
<1> QED
  BY <1>1, <1>2, CachesStay, Zenon DEF IInv

LEMMA HeartKeeps ==
    ASSUME IInv, NEW a \in Attempts, BeatFenced(a) \/ BeatsLost(a) \/ TimePasses(a)
    PROVE  IInv'
<1>1. CASE BeatFenced(a)
  <2>1. LocalOK'
    BY <1>1 DEF BeatFenced, IInv, LocalOK
  <2> QED
    BY <1>1, <2>1, LocalStep DEF BeatFenced
<1>2. CASE BeatsLost(a)
  <2>1. LocalOK'
    BY <1>2 DEF BeatsLost, Fault, IInv, LocalOK
  <2> QED
    BY <1>2, <2>1, LocalStep DEF BeatsLost
<1>3. CASE TimePasses(a)
  <2>1. LocalOK'
    <3>1. PICK w \in {"open", "near", "over"} : wall' = [wall EXCEPT ![a] = w]
      BY <1>3 DEF TimePasses
    <3> QED
      BY <1>3, <3>1 DEF TimePasses, IInv, LocalOK
  <2> QED
    BY <1>3, <2>1, LocalStep DEF TimePasses
<1> QED
  BY <1>1, <1>2, <1>3

\* The edge goes on, and the node is as it was.
LEMMA NodeStays ==
    ASSUME IInv, EdgeStep, node' = node
    PROVE  EdgeOK' /\ NodeOK' /\ AckOK'
<1>1. EdgeOK' /\ Onward
  BY EdgeGoesOn DEF IInv
<1>2. node \in Node /\ EdgeOK
  BY DEF IInv, NodeOK
<1>3. node.n > 0 => node.job \in Jobs /\ node.n \in Nat /\ node.n <= edge[node.job].n
  BY <1>2, AttemptParts DEF IInv, NodeOK, This, Node
<1>4. \A j \in Jobs : edge[j].n \in Nat /\ edge'[j].n \in Nat /\ edge[j].n <= edge'[j].n
  BY <1>1, <1>2 DEF EdgeOK, Job, Onward
<1>5. node.n > 0 => node.n <= edge'[node.job].n
  BY <1>3, <1>4
<1>6. NodeOK'
  BY <1>5, Zenon DEF IInv, NodeOK, This
<1>7. AckOK'
  <2>1. SUFFICES ASSUME node.pc \in {"ack", "finish"} PROVE (Settled(node.job) \/ Lost)'
    BY Zenon DEF AckOK
  <2>2. node.job \in Jobs
    BY <2>1, <1>2 DEF IInv, NodeOK, Node
  <2>3. CASE Settled(node.job)
    <3>1. Settled(node.job)'
      BY <1>1, <2>2, <2>3, Zenon DEF Onward, Settled
    <3> QED
      BY <3>1
  <2>4. CASE Lost
    <3>1. node.n > 0 /\ ~Holder(<<node.job, node.n>>)
      BY <2>4 DEF Lost, This
    <3>2. ~Holder(<<node.job, node.n>>)'
      BY <1>1, <1>3, <2>2, <3>1, Zenon DEF Onward, Holder
    <3> QED
      BY <3>1, <3>2 DEF Lost, This, Holder
  <2> QED
    BY <2>1, <2>3, <2>4, Zenon DEF IInv, AckOK
<1> QED
  BY <1>1, <1>6, <1>7

LEMMA ReleasedFacts ==
    ASSUME EdgeOK, NEW j \in Jobs
    PROVE  /\ Released(j) \in {"READY", "FAILED"}
           /\ Released(j) = "READY" => edge[j].n < MaxAttempts[j]
           /\ edge[j] \in Job /\ edge[j].n \in Nat /\ edge[j].n <= MaxAttempts[j]
<1>1. edge[j] \in Job /\ Kept(edge[j], j)
  BY DEF EdgeOK
<1>2. edge[j].n \in Nat /\ edge[j].n <= MaxAttempts[j]
  BY <1>1 DEF Job, Kept
<1> QED
  BY <1>1, <1>2 DEF Released

\* A job that is claimed is given up: it waits for a claim or has failed.
LEMMA GivenUp ==
    ASSUME EdgeOK, NEW j \in Jobs, edge[j].status = "PROCESSING",
           NEW s \in {Released(j), "FAILED"}, edge' = [edge EXCEPT ![j].status = s]
    PROVE  EdgeStep
<1>1. PICK e : e = [edge[j] EXCEPT !.status = s]
  OBVIOUS
<1>2. s \in {"READY", "FAILED"} /\ (s = "READY" => edge[j].n < MaxAttempts[j]) /\ edge[j] \in Job
      /\ edge[j].n \in Nat /\ edge[j].n <= MaxAttempts[j]
  BY ReleasedFacts
<1>3. e \in Job /\ e.status = s /\ e.n = edge[j].n
  BY <1>1, <1>2 DEF Job
<1>4. Kept(e, j)
  BY <1>2, <1>3 DEF Kept
<1>5. edge' = [edge EXCEPT ![j] = e]
  BY <1>1
<1>6. edge[j].n <= e.n /\ e.status # "PROCESSING"
  BY <1>2, <1>3
<1>7. Turns(j, e)
  BY <1>3, <1>4, <1>5, <1>6 DEF Turns
<1> QED
  BY <1>7, Zenon DEF EdgeStep

LEMMA LapseKeeps ==
    ASSUME IInv, NEW j \in Jobs, Lapse(j)
    PROVE  IInv'
<1>1. EdgeOK /\ edge[j].status = "PROCESSING" /\ edge' = [edge EXCEPT ![j].status = Released(j)]
  BY DEF Lapse, IInv
<1>2. EdgeStep
  BY <1>1, GivenUp
<1>3. UNCHANGED <<held, node, thread, fenced, beating, wall, dirs, caches>>
  BY DEF Lapse
<1>4. EdgeOK' /\ NodeOK' /\ AckOK'
  BY <1>2, <1>3, NodeStays
<1>5. queued' \in {queued, [queued EXCEPT ![j] = @ + 1]} /\ faults' \in {faults, faults + 1}
  BY DEF Lapse, NoFault, Fault
<1>6. MessagesOK'
  BY <1>3, <1>5 DEF IInv, MessagesOK
<1>7. ThreadsOK' /\ BuiltOK'
  BY <1>3, ThreadsStay, BuiltStays DEF IInv
<1>8. LocalOK'
  BY <1>3, <1>5 DEF IInv, LocalOK
<1>9. MemoryOK' /\ ArchiveOK' /\ SourcesOK'
  BY <1>3, CachesStay
<1> QED
  BY <1>4, <1>6, <1>7, <1>8, <1>9 DEF IInv

-----------------------------------------------------------------------------
(* One message *)

LEMMA RedeliverKeeps ==
    ASSUME IInv, NEW j \in Jobs, Redeliver(j)
    PROVE  IInv'
<1>1. UNCHANGED <<edge, thread, fenced, beating, wall, dirs, caches, faults>>
  BY DEF Redeliver
<1>2. node \in Node /\ queued \in [Jobs -> Nat] /\ held \in [Jobs -> Nat]
      /\ \A i \in node.leased : held[i] > 0
  BY DEF IInv, NodeOK, MessagesOK
<1>3. held' = [held EXCEPT ![j] = @ - 1] /\ queued' = [queued EXCEPT ![j] = @ + 1]
  BY DEF Redeliver
<1>4. node.batch \subseteq Jobs /\ node.leased \subseteq Jobs
  BY <1>2 DEF Node
<1>5. CASE j \in node.leased /\ node' = [node EXCEPT !.leased = @ \ {j}]
  <2>1. /\ node' \in Node /\ node'.pc = node.pc /\ node'.n = node.n /\ node'.job = node.job
        /\ node'.batch = node.batch /\ node'.leased = node.leased \ {j}
    BY <1>2, <1>5 DEF Node
  <2>2. EdgeOK'
    BY <1>1, EdgeGoesOn DEF IInv, EdgeStep
  <2>3. NodeOK'
    BY <1>1, <2>1, Zenon DEF IInv, NodeOK, This
  <2>4. AckOK'
    BY <1>1, <2>1, Zenon DEF IInv, AckOK, Settled, Lost, Holder, This
  <2>5. BuiltOK'
    BY <1>1, <2>1, Zenon DEF IInv, BuiltOK, This
  <2>6. held[j] > 0
    BY <1>2, <1>5
  <2>7. MessagesOK'
    <3>1. held' \in [Jobs -> Nat] /\ queued' \in [Jobs -> Nat]
      BY <1>2, <1>3, <2>6
    <3>2. \A i \in node'.leased : held'[i] > 0
      BY <1>2, <1>3, <1>4, <2>1
    <3> QED
      BY <3>1, <3>2, Zenon DEF MessagesOK
  <2>8. ThreadsOK' /\ LocalOK'
    BY <1>1, ThreadsStay DEF IInv, LocalOK
  <2> QED
    BY <1>1, <2>2, <2>3, <2>4, <2>5, <2>7, <2>8, CachesStay DEF IInv
<1>6. CASE held[j] > Cardinality({j} \cap node.leased) /\ node' = node
  <2>1. CASE j \in node.leased
    <3>1. {j} \cap node.leased = {j}
      BY <2>1
    <3>2. held[j] > 1
      BY <1>6, <3>1, FS_Singleton
    <3>3. MessagesOK'
      <4>1. held' \in [Jobs -> Nat] /\ queued' \in [Jobs -> Nat]
        BY <1>2, <1>3, <3>2
      <4>2. \A i \in node'.leased : held'[i] > 0
        BY <1>2, <1>3, <1>4, <1>6, <3>2
      <4> QED
        BY <4>1, <4>2, Zenon DEF MessagesOK
    <3>4. EdgeOK' /\ NodeOK' /\ AckOK'
      BY <1>1, <1>6, NodeStays DEF EdgeStep
    <3>5. ThreadsOK' /\ LocalOK' /\ BuiltOK'
      BY <1>1, <1>6, ThreadsStay, BuiltStays DEF IInv, LocalOK
    <3> QED
      BY <1>1, <3>3, <3>4, <3>5, CachesStay DEF IInv
  <2>2. CASE j \notin node.leased
    <3>1. {j} \cap node.leased = {}
      BY <2>2
    <3>2. held[j] > 0
      BY <1>6, <3>1, FS_EmptySet
    <3>3. MessagesOK'
      <4>1. held' \in [Jobs -> Nat] /\ queued' \in [Jobs -> Nat]
        BY <1>2, <1>3, <3>2
      <4>2. \A i \in node'.leased : held'[i] > 0
        BY <1>2, <1>3, <1>4, <1>6, <2>2
      <4> QED
        BY <4>1, <4>2, Zenon DEF MessagesOK
    <3>4. EdgeOK' /\ NodeOK' /\ AckOK'
      BY <1>1, <1>6, NodeStays DEF EdgeStep
    <3>5. ThreadsOK' /\ LocalOK' /\ BuiltOK'
      BY <1>1, <1>6, ThreadsStay, BuiltStays DEF IInv, LocalOK
    <3> QED
      BY <1>1, <3>3, <3>4, <3>5, CachesStay DEF IInv
  <2> QED
    BY <2>1, <2>2
<1> QED
  BY <1>5, <1>6 DEF Redeliver

\* Nothing that belongs to an attempt, a thread or a store changes.
Quiet == UNCHANGED <<thread, fenced, beating, wall, dirs, caches, faults>>

LEMMA QuietKeeps ==
    ASSUME IInv, Quiet
    PROVE  ThreadsOK' /\ LocalOK' /\ MemoryOK' /\ ArchiveOK' /\ SourcesOK'
<1>1. UNCHANGED <<thread, fenced, beating, wall, dirs, caches, faults>>
  BY DEF Quiet
<1> QED
  BY <1>1, ThreadsStay, CachesStay DEF IInv, LocalOK

LEMMA PullKeeps ==
    ASSUME IInv, Pull
    PROVE  IInv'
<1>1. PICK S \in SUBSET {j \in Jobs : queued[j] > 0} :
          /\ node' = [node EXCEPT !.batch = S, !.leased = S]
          /\ queued' = [j \in Jobs |-> IF j \in S THEN queued[j] - 1 ELSE queued[j]]
          /\ held' = [j \in Jobs |-> IF j \in S THEN held[j] + 1 ELSE held[j]]
  BY Zenon DEF Pull
<1>2. S \subseteq Jobs /\ \A j \in S : queued[j] > 0
  OBVIOUS
<1>3. node \in Node /\ queued \in [Jobs -> Nat] /\ held \in [Jobs -> Nat]
  BY DEF IInv, NodeOK, MessagesOK
<1>4. node.pc = "idle" /\ edge' = edge /\ Quiet
  BY DEF Pull, Quiet
<1>5. node.n = 0
  BY <1>4 DEF IInv, NodeOK
<1>6. /\ node' \in Node /\ node'.pc = "idle" /\ node'.n = 0 /\ node'.batch = S /\ node'.leased = S
  BY <1>1, <1>2, <1>3, <1>4, <1>5 DEF Node
<1>7. MessagesOK'
  <2>1. held' \in [Jobs -> Nat] /\ queued' \in [Jobs -> Nat]
    BY <1>1, <1>2, <1>3
  <2>2. \A j \in S : held'[j] > 0
    BY <1>1, <1>2, <1>3
  <2> QED
    BY <1>6, <2>1, <2>2, Zenon DEF MessagesOK
<1>8. NodeOK' /\ AckOK' /\ BuiltOK'
  BY <1>6 DEF NodeOK, AckOK, BuiltOK
<1>9. EdgeOK'
  BY <1>4, EdgeGoesOn DEF IInv, EdgeStep
<1> QED
  BY <1>4, <1>7, <1>8, <1>9, QuietKeeps DEF IInv

LEMMA BeginKeeps ==
    ASSUME IInv, Begin
    PROVE  IInv'
<1>1. PICK j \in node.batch : node' = [node EXCEPT !.pc = "claim", !.job = j]
  BY DEF Begin
<1>2. node \in Node /\ node.pc = "idle" /\ edge' = edge /\ Quiet
      /\ queued' = queued /\ held' = held
  BY DEF IInv, NodeOK, Begin, Quiet, messages
<1>3. node.n = 0 /\ node.leased \subseteq node.batch
  BY <1>2 DEF IInv, NodeOK
<1>4. /\ node' \in Node /\ node'.pc = "claim" /\ node'.n = 0 /\ node'.batch = node.batch
      /\ node'.leased = node.leased /\ node'.job \in node.batch
  BY <1>1, <1>2, <1>3 DEF Node
<1>5. MessagesOK'
  BY <1>2, <1>4, Zenon DEF IInv, MessagesOK
<1>6. NodeOK' /\ AckOK' /\ BuiltOK'
  BY <1>3, <1>4 DEF NodeOK, AckOK, BuiltOK
<1>7. EdgeOK'
  BY <1>2, EdgeGoesOn DEF IInv, EdgeStep
<1> QED
  BY <1>2, <1>5, <1>6, <1>7, QuietKeeps DEF IInv

\* What claims a job: the edge grants the next attempt.
Grants(j) == /\ edge[j].status = "READY"
             /\ edge' = [edge EXCEPT ![j].status = "PROCESSING", ![j].n = @ + 1]

LEMMA GrantsStep ==
    ASSUME EdgeOK, NEW j \in Jobs, Grants(j)
    PROVE  /\ EdgeStep /\ edge'[j].n = edge[j].n + 1
           /\ edge[j].n + 1 \in Nat \ {0} /\ edge[j].n + 1 <= MaxAttempts[j]
<1>1. edge[j] \in Job /\ Kept(edge[j], j) /\ edge[j].status = "READY" /\ edge \in [Jobs -> Job]
      /\ edge' = [edge EXCEPT ![j].status = "PROCESSING", ![j].n = @ + 1]
  BY DEF EdgeOK, Grants
<1>2. edge[j].n \in Nat /\ edge[j].n < MaxAttempts[j] /\ MaxAttempts[j] \in Nat
  <2>1. edge[j].n \in Nat /\ edge[j].n < MaxAttempts[j]
    BY <1>1, ReleasedFacts DEF Kept
  <2>2. MaxAttempts[j] \in 1..10
    BY JobFacts
  <2> QED
    BY <2>1, <2>2
<1>3. PICK e : e = [edge[j] EXCEPT !.status = "PROCESSING", !.n = edge[j].n + 1]
  OBVIOUS
<1>4. e \in Job /\ e.status = "PROCESSING" /\ e.n = edge[j].n + 1
  BY <1>1, <1>2, <1>3 DEF Job
<1>5. edge' = [edge EXCEPT ![j] = e]
  BY <1>1, <1>3
<1>6. e.n <= MaxAttempts[j] /\ edge[j].n < e.n /\ edge[j].n <= e.n
  BY <1>2, <1>4
<1>7. Kept(e, j)
  BY <1>4, <1>6 DEF Kept
<1>8. Turns(j, e)
  BY <1>1, <1>4, <1>5, <1>6, <1>7 DEF Turns
<1>9. edge'[j] = e
  BY <1>1, <1>5
<1>10. edge'[j].n = edge[j].n + 1
  BY <1>4, <1>9
<1>11. edge[j].n + 1 \in Nat \ {0} /\ edge[j].n + 1 <= MaxAttempts[j]
  BY <1>2
<1>12. EdgeStep
  BY <1>8, Zenon DEF EdgeStep
<1> QED
  BY <1>10, <1>11, <1>12

\* The message at hand before the claim.
LEMMA ClaimFacts ==
    ASSUME IInv, node.pc = "claim"
    PROVE  /\ node \in Node /\ node.n = 0 /\ node.job \in Jobs /\ node.job \in node.batch
           /\ node.leased \subseteq node.batch
BY DEF IInv, NodeOK, Node

LEMMA ClaimGrantedKeeps ==
    ASSUME IInv, ClaimGranted
    PROVE  IInv'
<1>1. PICK j, m : j = node.job /\ m = edge[j].n + 1
  OBVIOUS
<1>2. node.pc = "claim"
  BY DEF ClaimGranted
<1>3. /\ node \in Node /\ node.n = 0 /\ j \in Jobs /\ j \in node.batch
      /\ node.leased \subseteq node.batch
  BY <1>1, <1>2, ClaimFacts
<1>4. /\ Grants(j) /\ node' = [node EXCEPT !.pc = "probe", !.n = m]
      /\ dirs' = dirs \cup {<<j, m>>} /\ beating' = beating \cup {<<j, m>>}
      /\ queued' = queued /\ held' = held
      /\ UNCHANGED <<thread, fenced, wall, caches, faults>>
  BY <1>1 DEF ClaimGranted, Grants, messages
<1>5. EdgeOK
  BY DEF IInv
<1>6. EdgeStep /\ edge'[j].n = m /\ m \in Nat \ {0} /\ m <= MaxAttempts[j]
  BY <1>1, <1>3, <1>4, <1>5, GrantsStep
<1>7. <<j, m>> \in Attempts
  BY <1>3, <1>6, AttemptOf
<1>8. /\ node' \in Node /\ node'.pc = "probe" /\ node'.n = m /\ node'.batch = node.batch
      /\ node'.leased = node.leased /\ node'.job = j
  BY <1>1, <1>3, <1>4, <1>6 DEF Node
<1>9. MessagesOK'
  BY <1>4, <1>8, Zenon DEF IInv, MessagesOK
<1>10. NodeOK'
  <2>1. This' \in Attempts /\ node'.n <= edge'[node'.job].n /\ node'.n > 0
    BY <1>6, <1>7, <1>8 DEF This
  <2> QED
    BY <1>3, <1>8, <2>1 DEF NodeOK
<1>11. AckOK' /\ BuiltOK'
  BY <1>8 DEF AckOK, BuiltOK
<1>12. EdgeOK'
  BY <1>5, <1>6, EdgeGoesOn
<1>13. LocalOK'
  BY <1>4, <1>7 DEF IInv, LocalOK
<1>14. ThreadsOK'
  BY <1>4, ThreadsStay DEF IInv
<1> QED
  BY <1>4, <1>9, <1>10, <1>11, <1>12, <1>13, <1>14, CachesStay DEF IInv

LEMMA ClaimRefusedKeeps ==
    ASSUME IInv, ClaimRefused
    PROVE  IInv'
<1>1. node.pc = "claim" /\ edge' = edge /\ Quiet /\ queued' = queued /\ held' = held
      /\ node' = [node EXCEPT !.pc = IF Settled(node.job) THEN "ack" ELSE "giveback"]
  BY DEF ClaimRefused, Quiet, messages
<1>2. /\ node \in Node /\ node.n = 0 /\ node.job \in node.batch /\ node.leased \subseteq node.batch
  BY <1>1, ClaimFacts
<1>3. /\ node' \in Node /\ node'.n = 0 /\ node'.batch = node.batch /\ node'.leased = node.leased
      /\ node'.job = node.job /\ node'.pc \in {"ack", "giveback"}
      /\ node'.pc = "ack" => Settled(node.job)
  BY <1>1, <1>2 DEF Node
<1>4. MessagesOK'
  BY <1>1, <1>3, Zenon DEF IInv, MessagesOK
<1>5. NodeOK' /\ BuiltOK'
  BY <1>2, <1>3 DEF NodeOK, BuiltOK
<1>6. AckOK'
  BY <1>1, <1>3 DEF AckOK, Settled
<1>7. EdgeOK'
  BY <1>1, EdgeGoesOn DEF IInv, EdgeStep
<1> QED
  BY <1>1, <1>4, <1>5, <1>6, <1>7, QuietKeeps DEF IInv

LEMMA ClaimLostKeeps ==
    ASSUME IInv, ClaimLost
    PROVE  IInv'
<1>1. /\ node.pc = "claim" /\ faults' = faults + 1 /\ queued' = queued /\ held' = held
      /\ UNCHANGED <<thread, fenced, beating, wall, dirs, caches>>
      /\ edge' = edge \/ Grants(node.job)
      /\ node' = [node EXCEPT !.pc = "giveback"] \/ node' = IdleNode
  BY DEF ClaimLost, Fault, messages, Grants
<1>2. /\ node \in Node /\ node.n = 0 /\ node.job \in Jobs /\ node.job \in node.batch
      /\ node.leased \subseteq node.batch
  BY <1>1, ClaimFacts
<1>3. EdgeOK
  BY DEF IInv
<1>4. EdgeStep
  BY <1>1, <1>2, <1>3, GrantsStep DEF EdgeStep
<1>5. EdgeOK'
  BY <1>3, <1>4, EdgeGoesOn
<1>6. ASSUME node' = [node EXCEPT !.pc = "giveback"]
      PROVE  NodeOK' /\ AckOK' /\ BuiltOK' /\ MessagesOK'
  <2>1. /\ node' \in Node /\ node'.n = 0 /\ node'.batch = node.batch /\ node'.leased = node.leased
        /\ node'.job = node.job /\ node'.pc = "giveback"
    BY <1>2, <1>6 DEF Node
  <2>2. NodeOK' /\ AckOK' /\ BuiltOK'
    BY <1>2, <2>1 DEF NodeOK, AckOK, BuiltOK
  <2>3. MessagesOK'
    BY <1>1, <2>1, Zenon DEF IInv, MessagesOK
  <2> QED
    BY <2>2, <2>3
<1>7. ASSUME node' = IdleNode PROVE NodeOK' /\ AckOK' /\ BuiltOK' /\ MessagesOK'
  <2>1. IdleNode \in Node /\ IdleNode.n = 0 /\ IdleNode.pc = "idle" /\ IdleNode.leased = {}
        /\ IdleNode.batch = {}
    BY DEF IdleNode, Node, Codes, Null
  <2>2. NodeOK' /\ AckOK' /\ BuiltOK'
    BY <1>7, <2>1 DEF NodeOK, AckOK, BuiltOK
  <2>3. MessagesOK'
    BY <1>1, <1>7, <2>1, Zenon DEF IInv, MessagesOK
  <2> QED
    BY <2>2, <2>3
<1>8. NodeOK' /\ AckOK' /\ BuiltOK' /\ MessagesOK'
  BY <1>1, <1>6, <1>7
<1>9. ThreadsOK' /\ LocalOK'
  BY <1>1, ThreadsStay DEF IInv, LocalOK
<1> QED
  BY <1>1, <1>5, <1>8, <1>9, CachesStay DEF IInv

\* The message at hand under its attempt.
LEMMA HandFacts ==
    ASSUME IInv, node.n > 0
    PROVE  /\ node \in Node /\ node.job \in Jobs /\ node.job \in node.batch /\ This \in Attempts
           /\ This = <<node.job, node.n>> /\ This[1] = node.job
           /\ node.leased \subseteq node.batch /\ node.n \in Nat
           /\ node.pc \notin {"idle", "claim"}
           /\ thread[This] \in BuildThread /\ Sound(thread[This], node.job)
<1>1. node \in Node /\ This \in Attempts /\ node.pc \notin {"idle", "claim"}
      /\ node.leased \subseteq node.batch /\ node.job \in node.batch
  BY DEF IInv, NodeOK
<1>2. node.job \in Jobs /\ node.n \in Nat
  BY <1>1 DEF Node
<1>3. This = <<node.job, node.n>> /\ This[1] = node.job
  BY DEF This
<1>4. thread[This] \in BuildThread /\ Sound(thread[This], node.job)
  BY <1>1, <1>3, ThreadFacts
<1> QED
  BY <1>1, <1>2, <1>3, <1>4

\* The message at hand stays, and the event loop goes on with it at pc.
Proceeds(pc) ==
    /\ node.n > 0
    /\ pc \in {"probe", "acquire", "build", "upload", "complete", "finish", "upfail", "fail",
               "ack", "giveback"}
    /\ \E i \in Nat \ {0}, found \in SUBSET Styles, code \in Codes :
          node' = [node EXCEPT !.pc = pc, !.i = i, !.found = found, !.code = code]

LEMMA HandProceeds ==
    ASSUME IInv, NEW pc, Proceeds(pc), EdgeStep, UNCHANGED messages
    PROVE  /\ EdgeOK' /\ MessagesOK' /\ NodeOK'
           /\ node'.pc = pc /\ node'.n = node.n /\ node'.job = node.job /\ This' = This
<1>1. PICK i \in Nat \ {0}, found \in SUBSET Styles, code \in Codes :
          node' = [node EXCEPT !.pc = pc, !.i = i, !.found = found, !.code = code]
  BY Zenon DEF Proceeds
<1>2. node.n > 0 /\ pc \notin {"idle", "claim"}
      /\ pc \in {"probe", "acquire", "build", "upload", "complete", "finish", "upfail", "fail",
                 "ack", "giveback"}
  BY DEF Proceeds
<1>3. /\ node \in Node /\ node.job \in Jobs /\ node.job \in node.batch /\ This \in Attempts
      /\ node.leased \subseteq node.batch /\ node.n \in Nat
  BY <1>2, HandFacts
<1>4. /\ node' \in Node /\ node'.pc = pc /\ node'.n = node.n /\ node'.job = node.job
      /\ node'.batch = node.batch /\ node'.leased = node.leased
  BY <1>1, <1>2, <1>3 DEF Node
<1>5. EdgeOK' /\ Onward /\ EdgeOK
  BY EdgeGoesOn DEF IInv
<1>6. edge[node.job].n \in Nat /\ edge'[node.job].n \in Nat /\ edge[node.job].n <= edge'[node.job].n
  BY <1>3, <1>5 DEF EdgeOK, Job, Onward
<1>7. node.n <= edge[node.job].n
  BY <1>2 DEF IInv, NodeOK
<1>8. node.n <= edge'[node.job].n
  BY <1>3, <1>6, <1>7
<1>9. This' = This
  BY <1>4 DEF This
<1>10. NodeOK'
  BY <1>2, <1>3, <1>4, <1>8, <1>9, Zenon DEF NodeOK
<1>11. MessagesOK'
  BY <1>4, Zenon DEF IInv, MessagesOK, messages
<1> QED
  BY <1>4, <1>5, <1>9, <1>10, <1>11

LEMMA ProceedsKeeps ==
    ASSUME IInv, NEW pc, Proceeds(pc), EdgeStep, UNCHANGED messages, UNCHANGED thread,
           pc \in {"upload", "complete"} => thread[This].pc = "done",
           pc \in {"ack", "finish"} => (Settled(node.job) \/ ~Holder(This))',
           LocalOK', MemoryOK', ArchiveOK', SourcesOK'
    PROVE  IInv'
<1>1. /\ EdgeOK' /\ MessagesOK' /\ NodeOK'
      /\ node'.pc = pc /\ node'.n = node.n /\ node'.job = node.job /\ This' = This
  BY HandProceeds
<1>2. BuiltOK'
  BY <1>1, Zenon DEF BuiltOK
<1>3. AckOK'
  BY <1>1 DEF AckOK, Lost, Proceeds
<1>4. ThreadsOK'
  BY ThreadsStay DEF IInv
<1> QED
  BY <1>1, <1>2, <1>3, <1>4, Zenon DEF IInv

\* The same when nothing but the node changes.
LEMMA ProceedsAlone ==
    ASSUME IInv, NEW pc, Proceeds(pc), UNCHANGED <<edge, messages>>, Quiet,
           pc \notin {"complete", "ack", "finish"},
           pc = "upload" => thread[This].pc = "done"
    PROVE  IInv'
<1>1. EdgeStep
  BY DEF EdgeStep
<1>2. LocalOK' /\ MemoryOK' /\ ArchiveOK' /\ SourcesOK'
  BY QuietKeeps
<1>3. UNCHANGED messages /\ UNCHANGED thread
  BY DEF Quiet
<1> QED
  BY <1>1, <1>2, <1>3, ProceedsKeeps

LEMMA PcProceeds ==
    ASSUME IInv, node.n > 0, NEW pc,
           pc \in {"probe", "acquire", "build", "upload", "complete", "finish", "upfail", "fail",
                   "ack", "giveback"},
           \/ node' = [node EXCEPT !.pc = pc]
           \/ \E code \in Codes : node' = [node EXCEPT !.pc = pc, !.code = code]
    PROVE  Proceeds(pc)
<1>1. node \in Node
  BY HandFacts
<1>2. node.i \in Nat \ {0} /\ node.found \in SUBSET Styles /\ node.code \in Codes
  BY <1>1 DEF Node
<1>3. \E code \in Codes : node' = [node EXCEPT !.pc = pc, !.code = code]
  <2>1. CASE node' = [node EXCEPT !.pc = pc]
    <3>1. [node EXCEPT !.pc = pc] = [node EXCEPT !.pc = pc, !.code = node.code]
      BY <1>1 DEF Node
    <3> QED
      BY <1>2, <2>1, <3>1, Zenon
  <2> QED
    BY <2>1
<1>4. PICK code \in Codes : node' = [node EXCEPT !.pc = pc, !.code = code]
  BY <1>3
<1>5. node' = [node EXCEPT !.pc = pc, !.i = node.i, !.found = node.found, !.code = code]
  BY <1>1, <1>4 DEF Node
<1>6. PICK i \in Nat \ {0}, found \in SUBSET Styles :
          node' = [node EXCEPT !.pc = pc, !.i = i, !.found = found, !.code = code]
  BY <1>2, <1>5
<1> QED
  BY <1>6, Zenon DEF Proceeds

LEMMA Raises ==
    ASSUME IInv, node.n > 0, NEW code \in Codes, Raised(code)
    PROVE  Proceeds("fail")
BY PcProceeds DEF Raised

LEMMA HandAt ==
    ASSUME IInv, node.pc \notin {"idle", "claim", "ack", "giveback"}
    PROVE  node.n > 0
BY DEF IInv, NodeOK

\* A build starts with thread t.
LEMMA LaunchedKeeps ==
    ASSUME IInv, node.n > 0, NEW t \in BuildThread, Sound(t, node.job), Launched(This, t),
           UNCHANGED <<edge, messages, fenced, beating, wall, dirs, caches, faults>>
    PROVE  IInv'
<1>1. thread' = [thread EXCEPT ![This] = t] /\ node' = [node EXCEPT !.pc = "build"]
  BY DEF Launched
<1>2. Proceeds("build") /\ EdgeStep /\ UNCHANGED messages
  BY <1>1, PcProceeds DEF EdgeStep
<1>3. EdgeOK' /\ MessagesOK' /\ NodeOK' /\ node'.pc = "build"
  BY <1>2, HandProceeds
<1>4. This \in Attempts /\ This[1] = node.job
  BY HandFacts
<1>5. ThreadTurns(This, t)
  BY <1>1, <1>4 DEF ThreadTurns
<1>6. ThreadsOK
  BY DEF IInv
<1>7. ThreadsOK'
  BY <1>5, <1>6, ThreadGoesOn
<1>8. AckOK' /\ BuiltOK'
  BY <1>3 DEF AckOK, BuiltOK
<1>9. LocalOK'
  BY DEF IInv, LocalOK
<1> QED
  BY <1>3, <1>7, <1>8, <1>9, CachesStay DEF IInv

LEMMA ProbeKeeps ==
    ASSUME IInv, Probe
    PROVE  IInv'
<1>1. node.pc = "probe" /\ UNCHANGED <<edge, messages, fenced, beating, wall, dirs, caches, faults>>
  BY DEF Probe
<1>2. node.n > 0 /\ node.job \in Jobs
  BY <1>1, HandAt, HandFacts
<1>3. PICK j : j = node.job
  OBVIOUS
<1>4. DOMAIN Items[j] = 1..Len(Items[j]) /\ Len(Items[j]) \in Nat \ {0}
  BY <1>2, <1>3, JobFacts
<1>5. CASE node' = [node EXCEPT !.pc = "acquire"] /\ UNCHANGED thread
  <2>1. Proceeds("acquire") /\ Quiet /\ UNCHANGED <<edge, messages>>
    BY <1>1, <1>2, <1>5, PcProceeds DEF Quiet
  <2> QED
    BY <2>1, ProceedsAlone
<1>6. ASSUME \A i \in DOMAIN Items[j] : Hit(Identity(j, i)),
             Launched(This, [NoThread EXCEPT !.pc = "seal",
                    !.made = [i \in DOMAIN Items[j] |-> archive[Identity(j, i)].font],
                    !.at = [i \in DOMAIN Items[j] |-> Durable]])
      PROVE  IInv'
  <2>1. PICK made : made = [i \in 1..Len(Items[j]) |-> archive[Identity(j, i)].font]
    OBVIOUS
  <2>2. PICK at : at = [i \in 1..Len(Items[j]) |-> Durable]
    OBVIOUS
  <2>3. ASSUME NEW i \in 1..Len(Items[j])
        PROVE  archive[Identity(j, i)].font \in Font
               /\ StandsFor(archive[Identity(j, i)].font, Identity(j, i))
    <3>1. archive[Identity(j, i)] \in Row /\ StandsFor(archive[Identity(j, i)].font, Identity(j, i))
      BY <1>4, <1>6, Zenon DEF Hit, IInv, ArchiveOK
    <3> QED
      BY <3>1 DEF Row
  <2>4. made \in Seq(Font) /\ Len(made) = Len(Items[j])
    BY <1>4, <2>1, <2>3
  <2>5. at \in Seq(Place) /\ Len(at) = Len(Items[j])
    BY <1>4, <2>2 DEF Place
  <2>6. \A i \in 1..Len(made) : StandsFor(made[i], Identity(j, i))
    BY <2>1, <2>3, <2>4
  <2>7. WholeOrder(made, j)
    BY <1>4, <2>4, <2>6 DEF WholeOrder, FilesFit
  <2>8. PICK t : t = [NoThread EXCEPT !.pc = "seal", !.made = made, !.at = at]
    OBVIOUS
  <2>9. /\ t \in BuildThread /\ t.pc = "seal" /\ t.made = made /\ t.at = at /\ t.fresh = {}
    BY <2>4, <2>5, <2>8 DEF NoThread, BuildThread, Codes
  <2>10. Sound(t, j)
    BY <2>4, <2>5, <2>7, <2>9 DEF Sound, WholeOrder
  <2>11. Launched(This, t)
    BY <1>4, <1>6, <2>1, <2>2, <2>8
  <2> QED
    BY <1>1, <1>2, <1>3, <2>9, <2>10, <2>11, LaunchedKeeps
<1> QED
  BY <1>3, <1>5, <1>6, Zenon DEF Probe

LEMMA StartBuildKeeps ==
    ASSUME IInv, StartBuild
    PROVE  IInv'
<1>1. /\ node.pc = "acquire" /\ Launched(This, [NoThread EXCEPT !.pc = "item", !.found = node.found])
      /\ UNCHANGED <<edge, messages, fenced, beating, wall, dirs, caches, faults>>
  BY DEF StartBuild
<1>2. node.n > 0 /\ node.job \in Jobs /\ node \in Node
  BY <1>1, HandAt, HandFacts
<1>3. PICK t : t = [NoThread EXCEPT !.pc = "item", !.found = node.found]
  OBVIOUS
<1>4. node.found \in SUBSET Styles
  BY <1>2 DEF Node
<1>5. t \in BuildThread /\ t.pc = "item" /\ t.made = <<>> /\ t.at = <<>> /\ t.fresh = {}
  <2>1. t = [pc |-> "item", made |-> <<>>, at |-> <<>>, fresh |-> {}, found |-> node.found,
             code |-> Null]
    BY <1>3 DEF NoThread
  <2>2. <<>> \in Seq(Font) /\ <<>> \in Seq(Place)
    OBVIOUS
  <2>3. Null \in Codes /\ {} \in SUBSET (Nat \ {0})
    BY DEF Codes
  <2> QED
    BY <1>4, <2>1, <2>2, <2>3 DEF BuildThread
<1>6. Len(t.made) = 0 /\ Len(t.at) = 0 /\ Len(Items[node.job]) \in Nat
  BY <1>2, <1>5, JobFacts
<1>7. Sound(t, node.job)
  BY <1>5, <1>6 DEF Sound, FilesFit
<1> QED
  BY <1>1, <1>2, <1>3, <1>5, <1>7, LaunchedKeeps

LEMMA BuiltKeeps ==
    ASSUME IInv, Built
    PROVE  IInv'
<1>1. node.pc = "build" /\ Quiet /\ UNCHANGED <<edge, messages>>
  BY DEF Built, Quiet
<1>2. node.n > 0
  BY <1>1, HandAt
<1>3. CASE thread[This].pc = "done" /\ node' = [node EXCEPT !.pc = "upload"]
  <2>1. Proceeds("upload")
    BY <1>2, <1>3, PcProceeds
  <2> QED
    BY <1>1, <1>3, <2>1, ProceedsAlone
<1>4. CASE Raised(thread[This].code)
  <2>1. thread[This] \in BuildThread
    BY <1>2, HandFacts
  <2>2. thread[This].code \in Codes
    BY <2>1 DEF BuildThread
  <2>3. Proceeds("fail")
    BY <1>2, <1>4, <2>2, Raises
  <2> QED
    BY <1>1, <2>3, ProceedsAlone
<1> QED
  BY <1>3, <1>4, Zenon DEF Built

LEMMA FenceSeenKeeps ==
    ASSUME IInv, FenceSeen
    PROVE  IInv'
<1>1. node.pc \in {"upload", "complete"} /\ Quiet /\ UNCHANGED <<edge, messages>>
      /\ Raised("fenced") /\ "fenced" \in Codes
  BY DEF FenceSeen, Quiet, Codes
<1>2. node.n > 0
  BY <1>1, HandAt
<1> QED
  BY <1>1, <1>2, Raises, ProceedsAlone

LEMMA WallHitKeeps ==
    ASSUME IInv, WallHit
    PROVE  IInv'
<1>1. UnderWall /\ Raised("wall") /\ "wall" \in Codes /\ beating' = beating \ {This}
      /\ UNCHANGED <<edge, messages, thread, fenced, wall, dirs, caches, faults>>
  BY DEF WallHit, Codes
<1>2. node.n > 0
  BY <1>1, HandAt DEF UnderWall
<1>3. Proceeds("fail") /\ EdgeStep
  BY <1>1, <1>2, Raises DEF EdgeStep
<1>4. LocalOK'
  BY <1>1 DEF IInv, LocalOK
<1> QED
  BY <1>1, <1>3, <1>4, CachesStay, ProceedsKeeps

LEMMA AcquireKeeps ==
    ASSUME IInv, Acquire
    PROVE  IInv'
<1>1. PICK j, src : j = node.job /\ src = <<Family[j], Items[j][node.i].style>>
  OBVIOUS
<1>2. node.pc = "acquire" /\ node.i <= Len(Items[j])
      /\ UNCHANGED <<edge, messages, thread, fenced, beating, wall, dirs, memory, archive, faults>>
  BY <1>1 DEF Acquire
<1>3. node.n > 0 /\ node \in Node /\ j \in Jobs
  BY <1>1, <1>2, HandAt, HandFacts
<1>4. node.i \in Nat \ {0} /\ node.found \in SUBSET Styles /\ node.code \in Codes /\ node.i + 1 \in Nat \ {0}
  BY <1>3 DEF Node
<1>5. node.i \in 1..Len(Items[j]) /\ Items[j][node.i].style \in Styles
  BY <1>2, <1>3, <1>4, JobFacts, IdentityParts
<1>6. src \in Sources /\ src[2] \in Styles
  BY <1>1, <1>3, <1>5 DEF Sources
<1>7. observed \subseteq Sources /\ binaries \in [Sources -> {Null, "good", "damaged"}]
  BY DEF IInv, SourcesOK
<1>8. /\ observed' \in {observed, observed \cup {src}}
      /\ binaries' \in {binaries, [binaries EXCEPT ![src] = "good"]}
      /\ \/ node' = [node EXCEPT !.i = @ + 1]
         \/ node' = [node EXCEPT !.i = @ + 1, !.found = @ \cup {src[2]}]
         \/ \E code \in {"terminal", "retryable"} : Raised(code)
  BY <1>1, Zenon DEF Acquire, Acquired
<1>9. SourcesOK'
  BY <1>6, <1>7, <1>8 DEF SourcesOK
<1>10. \E pc \in {"acquire", "fail"} : Proceeds(pc)
  <2>1. CASE node' = [node EXCEPT !.i = @ + 1]
    <3>1. node' = [node EXCEPT !.pc = "acquire", !.i = node.i + 1, !.found = node.found,
                               !.code = node.code]
      BY <1>2, <1>3, <2>1 DEF Node
    <3>2. PICK i \in Nat \ {0}, found \in SUBSET Styles, code \in Codes :
              node' = [node EXCEPT !.pc = "acquire", !.i = i, !.found = found, !.code = code]
      BY <1>4, <3>1
    <3>3. Proceeds("acquire")
      BY <1>3, <3>2, Zenon DEF Proceeds
    <3> QED
      BY <3>3
  <2>2. CASE node' = [node EXCEPT !.i = @ + 1, !.found = @ \cup {src[2]}]
    <3>1. node' = [node EXCEPT !.pc = "acquire", !.i = node.i + 1, !.found = node.found \cup {src[2]},
                               !.code = node.code]
      BY <1>2, <1>3, <2>2 DEF Node
    <3>2. node.found \cup {src[2]} \in SUBSET Styles
      BY <1>4, <1>6
    <3>3. PICK i \in Nat \ {0}, found \in SUBSET Styles, code \in Codes :
              node' = [node EXCEPT !.pc = "acquire", !.i = i, !.found = found, !.code = code]
      BY <1>4, <3>1, <3>2
    <3>4. Proceeds("acquire")
      BY <1>3, <3>3, Zenon DEF Proceeds
    <3> QED
      BY <3>4
  <2>3. CASE \E code \in {"terminal", "retryable"} : Raised(code)
    BY <1>3, <2>3, Raises DEF Codes
  <2> QED
    BY <1>8, <2>1, <2>2, <2>3
<1>11. PICK pc \in {"acquire", "fail"} : Proceeds(pc)
  BY <1>10
<1>12. EdgeStep /\ LocalOK' /\ MemoryOK' /\ ArchiveOK'
  BY <1>2, StoresStay DEF EdgeStep, IInv, LocalOK
<1> QED
  BY <1>2, <1>9, <1>11, <1>12, ProceedsKeeps

-----------------------------------------------------------------------------
(* How a message ends *)

LEMMA NoThreadSound ==
    ASSUME NEW j \in Jobs
    PROVE  NoThread \in BuildThread /\ Sound(NoThread, j)
<1>1. /\ NoThread.pc = "none" /\ NoThread.made = <<>> /\ NoThread.at = <<>>
      /\ NoThread.fresh = {}
  BY DEF NoThread
<1>2. <<>> \in Seq(Font) /\ <<>> \in Seq(Place) /\ Null \in Codes /\ {} \in SUBSET (Nat \ {0})
  BY DEF Codes
<1>3. NoThread \in BuildThread
  BY <1>2 DEF BuildThread, NoThread
<1>4. Len(NoThread.made) = 0 /\ Len(NoThread.at) = 0 /\ Len(Items[j]) \in Nat
  BY <1>1, JobFacts
<1> QED
  BY <1>1, <1>3, <1>4 DEF Sound, FilesFit

LEMMA LeftNode ==
    ASSUME IInv, NEW batch \in SUBSET node.batch, Left(batch)
    PROVE  /\ NodeOK' /\ AckOK' /\ BuiltOK'
           /\ node'.leased = batch \cap node.leased
<1>1. node \in Node /\ node.batch \subseteq Jobs /\ node.leased \subseteq Jobs
  BY DEF IInv, NodeOK, Node
<1>2. node' = [IdleNode EXCEPT !.batch = batch, !.leased = batch \cap node.leased]
  BY DEF Left
<1>3. /\ node' \in Node /\ node'.pc = "idle" /\ node'.n = 0 /\ node'.batch = batch
      /\ node'.leased = batch \cap node.leased
  <2>1. PICK lb : lb = batch \cap node.leased
    OBVIOUS
  <2>2. batch \in SUBSET Jobs /\ lb \in SUBSET Jobs
    BY <1>1, <2>1
  <2>3. node' = [pc |-> "idle", batch |-> batch, leased |-> lb, job |-> Null, n |-> 0, i |-> 1,
                 found |-> {}, code |-> Null]
    BY <1>2, <2>1 DEF IdleNode
  <2>4. Null \in Codes /\ Null \in Jobs \cup {Null} /\ {} \in SUBSET Styles
    BY DEF Codes
  <2>5. node' \in Node
    BY <2>2, <2>3, <2>4 DEF Node
  <2> QED
    BY <2>1, <2>3, <2>5
<1> QED
  BY <1>3 DEF NodeOK, AckOK, BuiltOK

LEMMA LeftThreads ==
    ASSUME IInv, NEW batch, Left(batch), dirs' \subseteq Attempts, faults' \in Nat
    PROVE  ThreadsOK' /\ LocalOK'
<1>1. fenced \subseteq Attempts /\ beating \subseteq Attempts /\ beating' \subseteq beating
      /\ wall \in [Attempts -> {"open", "near", "over"}] /\ ThreadsOK
  BY DEF IInv, LocalOK, Left
<1>2. CASE UNCHANGED <<thread, wall, fenced>>
  BY <1>1, <1>2, ThreadsStay DEF LocalOK
<1>3. CASE /\ node.n > 0
           /\ thread' = [thread EXCEPT ![This] = NoThread]
           /\ wall' = [wall EXCEPT ![This] = "open"]
           /\ fenced' = fenced \ {This}
  <2>1. This \in Attempts /\ This[1] \in Jobs
    BY <1>3, HandFacts
  <2>2. ThreadTurns(This, NoThread)
    BY <1>3, <2>1, NoThreadSound DEF ThreadTurns
  <2>3. ThreadsOK'
    BY <1>1, <2>2, ThreadGoesOn
  <2>4. LocalOK'
    BY <1>1, <1>3, <2>1 DEF LocalOK
  <2> QED
    BY <2>3, <2>4
<1> QED
  BY <1>2, <1>3 DEF Left

LEMMA LeftKeeps ==
    ASSUME IInv, NEW batch \in SUBSET node.batch, Left(batch), EdgeStep, UNCHANGED caches,
           dirs' \subseteq Attempts, faults' \in Nat,
           queued' \in [Jobs -> Nat], held' \in [Jobs -> Nat],
           \A j \in batch \cap node.leased : held'[j] > 0
    PROVE  IInv'
<1>1. NodeOK' /\ AckOK' /\ BuiltOK' /\ node'.leased = batch \cap node.leased
  BY LeftNode
<1>2. ThreadsOK' /\ LocalOK'
  BY LeftThreads
<1>3. MessagesOK'
  BY <1>1, Zenon DEF MessagesOK
<1>4. EdgeOK'
  BY EdgeGoesOn DEF IInv
<1> QED
  BY <1>1, <1>2, <1>3, <1>4, CachesStay DEF IInv

LEMMA EndedKeeps ==
    ASSUME IInv, Ended, EdgeStep, UNCHANGED <<messages, caches>>,
           dirs' \subseteq Attempts, faults' \in Nat
    PROVE  IInv'
<1>1. PICK batch \in SUBSET node.batch : Left(batch)
  BY DEF Ended
<1>2. /\ queued' \in [Jobs -> Nat] /\ held' \in [Jobs -> Nat]
      /\ \A j \in node.leased : held'[j] > 0
  BY DEF IInv, MessagesOK, messages
<1>3. \A j \in batch \cap node.leased : held'[j] > 0
  BY <1>2
<1> QED
  BY <1>1, <1>2, <1>3, LeftKeeps

LEMMA LocalFacts ==
    ASSUME IInv
    PROVE  /\ dirs \subseteq Attempts /\ faults \in Nat
           /\ Cleaned => dirs' \subseteq Attempts
           /\ NoFault \/ Fault => faults' \in Nat
BY DEF IInv, LocalOK, Cleaned, NoFault, Fault

LEMMA LocalProceeds ==
    ASSUME IInv, UNCHANGED <<beating, local>>, dirs' \subseteq Attempts, faults' \in Nat
    PROVE  LocalOK' /\ UNCHANGED thread
BY DEF IInv, LocalOK, local

LEMMA UploadKeeps ==
    ASSUME IInv, Upload
    PROVE  IInv'
<1>1. node.pc = "upload" /\ UNCHANGED <<edge, messages, caches>> /\ EdgeStep
  BY DEF Upload, EdgeStep
<1>2. node.n > 0 /\ thread[This].pc = "done"
  BY <1>1, HandAt DEF IInv, BuiltOK
<1>3. CASE NoFault /\ node' = [node EXCEPT !.pc = "complete"] /\ UNCHANGED <<dirs, beating, local>>
  <2>1. Proceeds("complete")
    BY <1>2, <1>3, PcProceeds
  <2>2. LocalOK' /\ UNCHANGED thread
    BY <1>3, LocalFacts, LocalProceeds
  <2> QED
    BY <1>1, <1>2, <2>1, <2>2, CachesStay, ProceedsKeeps
<1>4. CASE NoFault /\ Cleaned /\ Ended
  BY <1>1, <1>4, LocalFacts, EndedKeeps
<1>5. CASE Fault /\ node' = [node EXCEPT !.pc = "upfail"] /\ UNCHANGED <<dirs, beating, local>>
  <2>1. Proceeds("upfail")
    BY <1>2, <1>5, PcProceeds
  <2>2. LocalOK' /\ UNCHANGED thread
    BY <1>5, LocalFacts, LocalProceeds
  <2> QED
    BY <1>1, <2>1, <2>2, CachesStay, ProceedsKeeps
<1>6. CASE Fault /\ Raised("retryable") /\ UNCHANGED <<dirs, beating, local>>
  <2>1. Proceeds("fail")
    BY <1>2, <1>6, Raises DEF Codes
  <2>2. LocalOK' /\ UNCHANGED thread
    BY <1>6, LocalFacts, LocalProceeds
  <2> QED
    BY <1>1, <2>1, <2>2, CachesStay, ProceedsKeeps
<1> QED
  BY <1>3, <1>4, <1>5, <1>6, Zenon DEF Upload

\* Completing gives the edge the files of the thread.
LEMMA DoneStep ==
    ASSUME IInv, NEW j \in Jobs, edge[j].status = "PROCESSING", NEW got \in Seq(Font),
           WholeOrder(got, j),
           edge' = [edge EXCEPT ![j].status = "COMPLETED", ![j].got = got]
    PROVE  EdgeStep /\ edge'[j].status = "COMPLETED"
<1>1. edge[j] \in Job /\ edge[j].n \in Nat /\ edge[j].n <= MaxAttempts[j] /\ edge \in [Jobs -> Job]
  BY ReleasedFacts DEF IInv, EdgeOK
<1>2. PICK e : e = [edge[j] EXCEPT !.status = "COMPLETED", !.got = got]
  OBVIOUS
<1>3. e \in Job /\ e.status = "COMPLETED" /\ e.n = edge[j].n /\ e.got = got
  BY <1>1, <1>2 DEF Job
<1>4. Kept(e, j)
  BY <1>1, <1>3 DEF Kept
<1>5. edge' = [edge EXCEPT ![j] = e]
  BY <1>1, <1>2
<1>6. edge[j].n <= e.n /\ e.status # "PROCESSING"
  BY <1>1, <1>3
<1>7. Turns(j, e)
  BY <1>3, <1>4, <1>5, <1>6 DEF Turns
<1>8. edge'[j] = e
  BY <1>1, <1>5
<1>9. edge'[j].status = "COMPLETED"
  BY <1>3, <1>8
<1> QED
  BY <1>7, <1>9, Zenon DEF EdgeStep

LEMMA CompleteKeeps ==
    ASSUME IInv, Complete
    PROVE  IInv'
<1>1. PICK j, got : j = node.job /\ got = thread[This].made
  OBVIOUS
<1>2. node.pc = "complete" /\ UNCHANGED <<messages, caches>>
  BY DEF Complete
<1>3. node.n > 0 /\ thread[This].pc = "done" /\ j \in Jobs /\ This[1] = j
      /\ thread[This] \in BuildThread /\ Sound(thread[This], j)
  BY <1>1, <1>2, HandAt, HandFacts DEF IInv, BuiltOK
<1>4. got \in Seq(Font) /\ WholeOrder(got, j)
  <2>1. got \in Seq(Font)
    BY <1>1, <1>3 DEF BuildThread
  <2> QED
    BY <1>1, <1>3, <2>1, Zenon DEF Sound
<1>5. ASSUME Holder(This), edge' = [edge EXCEPT ![j].status = "COMPLETED", ![j].got = got]
      PROVE  EdgeStep /\ edge'[j].status = "COMPLETED"
  BY <1>3, <1>4, <1>5, DoneStep DEF Holder
<1>6. CASE /\ Holder(This) /\ NoFault
           /\ edge' = [edge EXCEPT ![j].status = "COMPLETED", ![j].got = got]
           /\ node' = [node EXCEPT !.pc = "finish"]
           /\ UNCHANGED <<dirs, beating, local>>
  <2>1. Proceeds("finish") /\ EdgeStep /\ edge'[j].status = "COMPLETED"
    BY <1>3, <1>5, <1>6, PcProceeds
  <2>2. LocalOK' /\ UNCHANGED thread
    BY <1>6, LocalFacts, LocalProceeds
  <2>3. node'.job = j
    BY <1>1, <1>2, <2>1, HandProceeds
  <2>4. Settled(node.job)'
    BY <2>1, <2>3 DEF Settled
  <2> QED
    BY <1>2, <2>1, <2>2, <2>4, CachesStay, ProceedsKeeps
<1>7. CASE NoFault /\ Cleaned /\ Ended /\ UNCHANGED edge
  BY <1>2, <1>7, LocalFacts, EndedKeeps DEF EdgeStep
<1>8. CASE /\ Fault
           /\ edge' \in {edge} \cup (IF Holder(This)
                THEN {[edge EXCEPT ![j].status = "COMPLETED", ![j].got = got]} ELSE {})
           /\ node' = [node EXCEPT !.pc = "giveback"] \/ Raised("retryable")
           /\ UNCHANGED <<dirs, beating, local>>
  <2>1. EdgeStep
    BY <1>5, <1>8 DEF EdgeStep
  <2>2. LocalOK' /\ UNCHANGED thread
    BY <1>8, LocalFacts, LocalProceeds
  <2>3. PICK pc \in {"giveback", "fail"} : Proceeds(pc)
    BY <1>3, <1>8, PcProceeds, Raises DEF Codes
  <2> QED
    BY <1>2, <2>1, <2>2, <2>3, CachesStay, ProceedsKeeps
<1>9. CASE Fault /\ Cleaned /\ node' = [node EXCEPT !.pc = "giveback"] /\ UNCHANGED <<edge, beating, local>>
  <2>1. Proceeds("giveback")
    BY <1>3, <1>9, PcProceeds
  <2>2. LocalOK' /\ UNCHANGED thread /\ EdgeStep
    BY <1>9, LocalFacts, LocalProceeds DEF EdgeStep
  <2> QED
    BY <1>2, <2>1, <2>2, CachesStay, ProceedsKeeps
<1> QED
  BY <1>1, <1>6, <1>7, <1>8, <1>9, Zenon DEF Complete

LEMMA FailStep ==
    ASSUME IInv, NEW j \in Jobs, edge[j].status = "PROCESSING", NEW code,
           edge' = FailedAt(j, code)
    PROVE  EdgeStep /\ edge'[j].status \in {"READY", "FAILED"}
<1>1. EdgeOK /\ edge \in [Jobs -> Job]
  BY DEF IInv, EdgeOK
<1>2. PICK s \in {Released(j), "FAILED"} : edge' = [edge EXCEPT ![j].status = s]
  BY DEF FailedAt
<1>3. s \in {"READY", "FAILED"} /\ edge[j] \in Job
  BY <1>1, ReleasedFacts
<1>4. edge'[j].status = s
  BY <1>1, <1>2, <1>3 DEF Job
<1> QED
  BY <1>1, <1>2, <1>3, <1>4, GivenUp

LEMMA FailKeeps ==
    ASSUME IInv, Fail
    PROVE  IInv'
<1>1. node.pc = "fail" /\ UNCHANGED <<messages, caches>>
  BY DEF Fail
<1>2. node.n > 0 /\ node.job \in Jobs /\ This[1] = node.job
  BY <1>1, HandAt, HandFacts
<1>3. PICK failed : failed = IF Holder(This) THEN FailedAt(node.job, node.code) ELSE edge
  OBVIOUS
<1>4. Holder(This) => edge[node.job].status = "PROCESSING"
  BY <1>2 DEF Holder
<1>5. ASSUME edge' \in {edge, failed}
      PROVE  EdgeStep
  BY <1>2, <1>3, <1>4, <1>5, FailStep DEF EdgeStep
<1>6. CASE NoFault /\ Cleaned /\ Ended /\ UNCHANGED edge
  BY <1>1, <1>6, LocalFacts, EndedKeeps DEF EdgeStep
<1>7. CASE /\ NoFault /\ edge' = failed
           /\ node' = [node EXCEPT !.pc = IF Holder(This) /\ failed[node.job].status = "READY"
                                          THEN "giveback" ELSE "ack"]
           /\ Cleaned /\ UNCHANGED <<beating, local>>
  <2>1. LocalOK' /\ UNCHANGED thread /\ EdgeStep
    BY <1>5, <1>7, LocalFacts, LocalProceeds
  <2>2. CASE Holder(This) /\ failed[node.job].status = "READY"
    <3>1. Proceeds("giveback")
      BY <1>2, <1>7, <2>2, PcProceeds
    <3> QED
      BY <1>1, <2>1, <3>1, CachesStay, ProceedsKeeps
  <2>3. CASE ~(Holder(This) /\ failed[node.job].status = "READY")
    <3>1. Proceeds("ack")
      BY <1>2, <1>7, <2>3, PcProceeds
    <3>2. node'.job = node.job /\ This' = This
      BY <1>1, <2>1, <3>1, HandProceeds
    <3>3. CASE Holder(This)
      <4>1. edge' = FailedAt(node.job, node.code)
        BY <1>3, <1>7, <3>3
      <4>2. edge'[node.job].status \in {"READY", "FAILED"}
        BY <1>2, <1>4, <3>3, <4>1, FailStep
      <4>3. edge'[node.job].status # "READY"
        BY <1>7, <2>3, <3>3
      <4>4. Settled(node.job)'
        BY <3>2, <4>2, <4>3 DEF Settled
      <4> QED
        BY <1>1, <2>1, <3>1, <4>4, CachesStay, ProceedsKeeps
    <3>4. CASE ~Holder(This)
      <4>1. edge' = edge
        BY <1>3, <1>7, <3>4
      <4>2. ~Holder(This)'
        BY <3>2, <3>4, <4>1 DEF Holder
      <4> QED
        BY <1>1, <2>1, <3>1, <4>2, CachesStay, ProceedsKeeps
    <3> QED
      BY <3>3, <3>4
  <2> QED
    BY <2>2, <2>3
<1>8. CASE /\ Fault /\ edge' \in {edge, failed} /\ node' = [node EXCEPT !.pc = "giveback"]
           /\ Cleaned /\ UNCHANGED <<beating, local>>
  <2>1. LocalOK' /\ UNCHANGED thread /\ EdgeStep
    BY <1>5, <1>8, LocalFacts, LocalProceeds
  <2>2. Proceeds("giveback")
    BY <1>2, <1>8, PcProceeds
  <2> QED
    BY <1>1, <2>1, <2>2, CachesStay, ProceedsKeeps
<1>9. CASE Fault /\ edge' \in {edge, failed} /\ Left({}) /\ UNCHANGED dirs
  <2>1. EdgeStep /\ dirs' \subseteq Attempts /\ faults' \in Nat /\ UNCHANGED caches
        /\ {} \in SUBSET node.batch
    BY <1>1, <1>5, <1>9, LocalFacts
  <2>2. queued' \in [Jobs -> Nat] /\ held' \in [Jobs -> Nat]
    BY <1>1 DEF IInv, MessagesOK, messages
  <2> QED
    BY <1>9, <2>1, <2>2, LeftKeeps
<1> QED
  BY <1>3, <1>6, <1>7, <1>8, <1>9, Zenon DEF Fail

LEMMA UploadFailedKeeps ==
    ASSUME IInv, UploadFailed
    PROVE  IInv'
<1>1. /\ node.pc = "upfail" /\ Cleaned /\ node' = [node EXCEPT !.pc = "giveback"]
      /\ NoFault \/ Fault
      /\ UNCHANGED messages /\ UNCHANGED <<thread, fenced, beating, wall>> /\ UNCHANGED caches
  BY DEF UploadFailed
<1>2. node.n > 0 /\ node.job \in Jobs /\ This[1] = node.job
  BY <1>1, HandAt, HandFacts
<1>3. EdgeStep
  <2>1. CASE edge' = edge
    BY <2>1 DEF EdgeStep
  <2>2. CASE Holder(This) /\ edge' = FailedAt(node.job, "retryable")
    BY <1>2, <2>2, FailStep DEF Holder
  <2> QED
    BY <2>1, <2>2 DEF UploadFailed
<1>4. Proceeds("giveback")
  BY <1>1, <1>2, PcProceeds
<1>5. LocalOK' /\ UNCHANGED thread
  BY <1>1, LocalFacts, LocalProceeds DEF local
<1> QED
  BY <1>1, <1>3, <1>4, <1>5, CachesStay, ProceedsKeeps

\* The message at hand is at its end.
LEMMA EndFacts ==
    ASSUME IInv, node.pc \in {"ack", "finish", "giveback"}
    PROVE  /\ node.job \in Jobs /\ node.leased \subseteq Jobs
           /\ queued \in [Jobs -> Nat] /\ held \in [Jobs -> Nat]
           /\ \A j \in node.leased : held[j] > 0
           /\ node.batch \ {node.job} \in SUBSET node.batch
BY DEF IInv, NodeOK, Node, MessagesOK

LEMMA AcknowledgeKeeps ==
    ASSUME IInv, Acknowledge
    PROVE  IInv'
<1>1. /\ node.pc \in {"ack", "finish"} /\ Cleaned /\ Left(node.batch \ {node.job})
      /\ NoFault \/ (Fault /\ UNCHANGED <<edge, queued, caches>>)
      /\ held' = held \/ held' = [held EXCEPT ![node.job] = IF node.job \in node.leased
                                                            THEN @ - 1 ELSE @]
  BY DEF Acknowledge, Ended
<1>2. /\ node.job \in Jobs /\ node.leased \subseteq Jobs
      /\ queued \in [Jobs -> Nat] /\ held \in [Jobs -> Nat]
      /\ \A j \in node.leased : held[j] > 0
      /\ node.batch \ {node.job} \in SUBSET node.batch
  BY <1>1, EndFacts
<1>3. held' \in [Jobs -> Nat] /\ queued' \in [Jobs -> Nat]
  BY <1>1, <1>2 DEF Acknowledge
<1>4. \A j \in (node.batch \ {node.job}) \cap node.leased : held'[j] > 0
  BY <1>1, <1>2
<1>5. EdgeStep /\ dirs' \subseteq Attempts /\ faults' \in Nat /\ UNCHANGED caches
  BY <1>1, LocalFacts DEF EdgeStep, Acknowledge
<1> QED
  BY <1>1, <1>2, <1>3, <1>4, <1>5, LeftKeeps

LEMMA GiveBackKeeps ==
    ASSUME IInv, GiveBack
    PROVE  IInv'
<1>1. /\ node.pc = "giveback" /\ Left(node.batch \ {node.job})
      /\ NoFault \/ (Fault /\ UNCHANGED <<edge, dirs, caches>>)
      /\ held' = held \/ held' = [held EXCEPT ![node.job] = IF node.job \in node.leased
                                                            THEN @ - 1 ELSE @]
      /\ queued' = queued \/ queued' = [queued EXCEPT ![node.job] = IF node.job \in node.leased
                                                                    THEN @ + 1 ELSE @]
  BY DEF GiveBack, Ended, messages
<1>2. /\ node.job \in Jobs /\ node.leased \subseteq Jobs
      /\ queued \in [Jobs -> Nat] /\ held \in [Jobs -> Nat]
      /\ \A j \in node.leased : held[j] > 0
      /\ node.batch \ {node.job} \in SUBSET node.batch
  BY <1>1, EndFacts
<1>3. held' \in [Jobs -> Nat] /\ queued' \in [Jobs -> Nat]
  BY <1>1, <1>2
<1>4. \A j \in (node.batch \ {node.job}) \cap node.leased : held'[j] > 0
  BY <1>1, <1>2
<1>5. EdgeStep /\ dirs' \subseteq Attempts /\ faults' \in Nat /\ UNCHANGED caches
  BY <1>1, LocalFacts DEF EdgeStep, GiveBack
<1> QED
  BY <1>1, <1>2, <1>3, <1>4, <1>5, LeftKeeps

-----------------------------------------------------------------------------
(* Starting, and starting again *)

LEMMA IdleFacts ==
    ASSUME node' = IdleNode
    PROVE  NodeOK' /\ AckOK' /\ BuiltOK' /\ node'.leased = {}
<1>1. IdleNode \in Node /\ IdleNode.n = 0 /\ IdleNode.pc = "idle" /\ IdleNode.leased = {}
        /\ IdleNode.batch = {}
  BY DEF IdleNode, Node, Codes, Null
<1> QED
  BY <1>1 DEF NodeOK, AckOK, BuiltOK

LEMMA CrashKeeps ==
    ASSUME IInv, Crash
    PROVE  IInv'
<1>1. /\ node' = IdleNode /\ thread' = [a \in Attempts |-> NoThread]
      /\ wall' = [a \in Attempts |-> "open"] /\ memory' = <<>>
      /\ beating' = {} /\ fenced' = {} /\ faults' = faults + 1
      /\ edge' = edge /\ queued' = queued /\ held' = held /\ archive' = archive
      /\ observed' = observed
      /\ dirs' \subseteq dirs
  BY DEF Crash, Fault, messages
<1>2. NodeOK' /\ AckOK' /\ BuiltOK' /\ node'.leased = {}
  BY <1>1, IdleFacts
<1>3. MessagesOK'
  BY <1>1, <1>2 DEF IInv, MessagesOK
<1>4. EdgeOK'
  BY <1>1, EdgeGoesOn DEF IInv, EdgeStep
<1>5. ThreadsOK'
  <2>1. \A a \in Attempts : NoThread \in BuildThread /\ Sound(NoThread, a[1])
    BY AttemptParts, NoThreadSound
  <2>2. thread' \in [Attempts -> BuildThread] /\ \A a \in Attempts : thread'[a] = NoThread
    BY <1>1, <2>1
  <2>3. \A a \in Attempts : Sound(thread'[a], a[1])
    BY <2>1, <2>2, Zenon
  <2> QED
    BY <2>2, <2>3, Zenon DEF ThreadsOK, Sound, WholeOrder, FilesFit
<1>6. LocalOK'
  BY <1>1 DEF IInv, LocalOK
<1>7. MemoryOK' /\ ArchiveOK'
  <2>1. DOMAIN memory' = {}
    BY <1>1
  <2>2. MemoryOK'
    BY <2>1 DEF MemoryOK
  <2> QED
    BY <1>1, <2>2, StoresStay DEF IInv
<1>8. SourcesOK'
  <2>1. PICK bad : binaries' = [k \in Sources |-> IF k \in bad /\ binaries[k] = "good"
                                                  THEN "damaged" ELSE binaries[k]]
    BY DEF Crash
  <2>2. binaries \in [Sources -> {Null, "good", "damaged"}] /\ observed \subseteq Sources
    BY DEF IInv, SourcesOK
  <2>3. binaries' \in [Sources -> {Null, "good", "damaged"}]
    BY <2>1, <2>2
  <2> QED
    BY <1>1, <2>2, <2>3 DEF SourcesOK
<1> QED
  BY <1>2, <1>3, <1>4, <1>5, <1>6, <1>7, <1>8 DEF IInv

LEMMA InitIInv ==
    ASSUME Init
    PROVE  IInv
<1>1. /\ edge = [j \in Jobs |-> [status |-> "READY", n |-> 0, got |-> <<>>]]
      /\ queued = [j \in Jobs |-> 1] /\ held = [j \in Jobs |-> 0]
      /\ node = IdleNode /\ thread = [a \in Attempts |-> NoThread]
      /\ fenced = {} /\ beating = {} /\ dirs = {} /\ wall = [a \in Attempts |-> "open"]
      /\ memory = <<>> /\ archive = <<>> /\ observed = {}
      /\ binaries = [k \in Sources |-> Null] /\ faults = 0
  BY DEF Init
<1>2. EdgeOK
  <2>1. PICK e : e = [status |-> "READY", n |-> 0, got |-> <<>>]
    OBVIOUS
  <2>2. <<>> \in Seq(Font)
    OBVIOUS
  <2>3. e \in Job /\ e.status = "READY" /\ e.n = 0
    BY <2>1, <2>2 DEF Job
  <2>4. edge \in [Jobs -> Job] /\ \A j \in Jobs : edge[j] = e
    BY <1>1, <2>1, <2>3
  <2>5. \A j \in Jobs : MaxAttempts[j] \in 1..10
    BY JobFacts
  <2>6. \A j \in Jobs : Kept(edge[j], j)
    BY <2>3, <2>4, <2>5 DEF Kept
  <2> QED
    BY <2>4, <2>6 DEF EdgeOK
<1>3. NodeOK /\ AckOK /\ BuiltOK /\ node.leased = {}
  <2>1. IdleNode \in Node /\ IdleNode.n = 0 /\ IdleNode.pc = "idle" /\ IdleNode.leased = {}
          /\ IdleNode.batch = {}
    BY DEF IdleNode, Node, Codes, Null
  <2> QED
    BY <1>1, <2>1 DEF NodeOK, AckOK, BuiltOK
<1>4. MessagesOK
  BY <1>1, <1>3 DEF MessagesOK
<1>5. ThreadsOK
  <2>1. \A a \in Attempts : NoThread \in BuildThread /\ Sound(NoThread, a[1])
    BY AttemptParts, NoThreadSound
  <2> QED
    BY <1>1, <2>1 DEF ThreadsOK
<1>6. LocalOK
  BY <1>1 DEF LocalOK
<1>7. MemoryOK /\ ArchiveOK
  <2>1. DOMAIN memory = {} /\ DOMAIN archive = {}
    BY <1>1
  <2> QED
    BY <2>1 DEF MemoryOK, ArchiveOK
<1>8. SourcesOK
  BY <1>1 DEF SourcesOK
<1> QED
  BY <1>2, <1>3, <1>4, <1>5, <1>6, <1>7, <1>8 DEF IInv

LEMMA MessageKeeps ==
    ASSUME IInv, Message \/ ClaimLost \/ Acquire
    PROVE  IInv'
<1>1. CASE Pull \/ Begin \/ ClaimGranted \/ ClaimRefused \/ ClaimLost
  BY <1>1, PullKeeps, BeginKeeps, ClaimGrantedKeeps, ClaimRefusedKeeps, ClaimLostKeeps
<1>2. CASE Probe \/ Acquire \/ StartBuild \/ Built
  BY <1>2, ProbeKeeps, AcquireKeeps, StartBuildKeeps, BuiltKeeps
<1>3. CASE Upload \/ Complete \/ FenceSeen \/ WallHit
  BY <1>3, UploadKeeps, CompleteKeeps, FenceSeenKeeps, WallHitKeeps
<1>4. CASE Fail \/ UploadFailed \/ Acknowledge \/ GiveBack
  BY <1>4, FailKeeps, UploadFailedKeeps, AcknowledgeKeeps, GiveBackKeeps
<1> QED
  BY <1>1, <1>2, <1>3, <1>4, Zenon DEF Message

LEMMA NextIInv ==
    ASSUME IInv, [Next]_vars
    PROVE  IInv'
<1>1. CASE Message \/ ClaimLost \/ Acquire
  BY <1>1, MessageKeeps
<1>2. CASE Crash
  BY <1>2, CrashKeeps
<1>3. ASSUME NEW a \in Attempts, Thread(a) \/ BeatFenced(a) \/ BeatsLost(a) \/ TimePasses(a)
      PROVE  IInv'
  BY <1>3, ThreadKeeps, HeartKeeps
<1>4. ASSUME NEW j \in Jobs, Lapse(j) \/ Redeliver(j)
      PROVE  IInv'
  BY <1>4, LapseKeeps, RedeliverKeeps
<1>5. CASE UNCHANGED vars
  <2>1. UNCHANGED <<edge, messages, node, thread, caches>> /\ UNCHANGED <<fenced, beating, wall, dirs, faults>>
    BY <1>5 DEF vars, messages, caches
  <2>2. LocalOK'
    BY <2>1 DEF IInv, LocalOK
  <2> QED
    BY <2>1, <2>2, LocalStep
<1> QED
  BY <1>1, <1>2, <1>3, <1>4, <1>5, Zenon DEF Next

\* The invariant of the node and of what the edge and the stores keep for it.
THEOREM Invariance == Spec => []IInv
<1>1. Init => IInv
  BY InitIInv
<1>2. IInv /\ [Next]_vars => IInv'
  BY NextIInv
<1> QED
  BY <1>1, <1>2, PTL DEF Spec

-----------------------------------------------------------------------------
(* What follows from it *)

\* Every variable has its type, whatever jobs, attempts, items and faults there are.
THEOREM TypeCorrect == Spec => []TypeOK
<1>1. IInv => TypeOK
  BY DEF IInv, TypeOK, EdgeOK, MessagesOK, NodeOK, ThreadsOK, LocalOK, MemoryOK, ArchiveOK, SourcesOK
<1> QED
  BY <1>1, Invariance, PTL

\* No step but an acknowledgement takes a message out of the queue.
LEMMA OnlyAcknowledge ==
    ASSUME IInv, [Next]_vars, ~Acknowledge, NEW j \in Jobs
    PROVE  ~Fewer(j)
<1>1. queued \in [Jobs -> Nat] /\ held \in [Jobs -> Nat]
  BY DEF IInv, MessagesOK
<1>2. SUFFICES ~(queued'[j] + held'[j] < queued[j] + held[j])
  BY Zenon DEF Fewer
<1>3. CASE UNCHANGED <<queued, held>>
  BY <1>1, <1>3
<1>4. ASSUME NEW i \in Jobs, Lapse(i) PROVE ~(queued'[j] + held'[j] < queued[j] + held[j])
  <2>1. queued' \in {queued, [queued EXCEPT ![i] = @ + 1]} /\ held' = held
    BY <1>4 DEF Lapse
  <2> QED
    BY <1>1, <2>1
<1>5. ASSUME NEW i \in Jobs, Redeliver(i) PROVE ~(queued'[j] + held'[j] < queued[j] + held[j])
  BY <1>1, <1>5 DEF Redeliver
<1>6. CASE Pull
  <2>1. PICK S \in SUBSET {i \in Jobs : queued[i] > 0} :
          /\ queued' = [i \in Jobs |-> IF i \in S THEN queued[i] - 1 ELSE queued[i]]
          /\ held' = [i \in Jobs |-> IF i \in S THEN held[i] + 1 ELSE held[i]]
    BY <1>6, Zenon DEF Pull
  <2> QED
    BY <1>1, <2>1
<1>7. CASE GiveBack
  <2>1. \/ UNCHANGED <<queued, held>>
        \/ /\ held' = [held EXCEPT ![node.job] = IF node.job \in node.leased THEN @ - 1 ELSE @]
           /\ queued' = [queued EXCEPT ![node.job] = IF node.job \in node.leased THEN @ + 1 ELSE @]
    BY <1>7 DEF GiveBack, messages
  <2> QED
    BY <1>1, <1>3, <2>1
<1>8. CASE \/ Begin \/ ClaimGranted \/ ClaimRefused \/ ClaimLost \/ Probe \/ Acquire \/ StartBuild
           \/ Built \/ Upload \/ Complete \/ FenceSeen \/ WallHit \/ Fail \/ UploadFailed \/ Crash
  <2>1. UNCHANGED <<queued, held>>
    BY <1>8 DEF messages, Begin, ClaimGranted, ClaimRefused, ClaimLost, Probe, Acquire, StartBuild,
                Built, Upload, Complete, FenceSeen, WallHit, Fail, UploadFailed, Crash
  <2> QED
    BY <1>3, <2>1
<1>9. ASSUME NEW a \in Attempts, Thread(a) PROVE UNCHANGED <<queued, held>>
  BY <1>9 DEF messages, Thread, ThreadStops, ThreadRaises, TakeArchived, TakeBinary, TakeRun,
              RunEnds, GatesPassed, ArchiveLooks, ArchiveInserts, ArchiveAttests, Package, Checked
<1>10. ASSUME NEW a \in Attempts, BeatFenced(a) \/ BeatsLost(a) \/ TimePasses(a)
       PROVE  UNCHANGED <<queued, held>>
  BY <1>10 DEF messages, BeatFenced, BeatsLost, TimePasses
<1>11. CASE UNCHANGED vars
  BY <1>3, <1>11 DEF vars
<1> QED
  BY <1>3, <1>4, <1>5, <1>6, <1>7, <1>8, <1>9, <1>10, <1>11, Zenon DEF Next, Message

\* A message is dropped only when its job is settled or the attempt that drops it has lost
\* the job, whichever leases lapse, messages come twice, walls are hit and calls fail: nobody
\* else holds the job back, so a message lost here is a job lost.
THEOREM DropsAreJustified == Spec => AckJustified
<1>1. ASSUME IInv, [Next]_vars
      PROVE  [\A j \in Jobs : Fewer(j) =>
                Settled(j) \/ (node.job = j /\ node.n > 0 /\ ~Holder(This))]_vars
  <2>1. SUFFICES ASSUME NEW j \in Jobs, Fewer(j)
                 PROVE  Settled(j) \/ (node.job = j /\ node.n > 0 /\ ~Holder(This))
    OBVIOUS
  <2>2. Acknowledge
    BY <1>1, <2>1, OnlyAcknowledge
  <2>3. node.pc \in {"ack", "finish"} /\ queued' = queued
        /\ (held' = held \/ held' = [held EXCEPT ![node.job] = IF node.job \in node.leased
                                                              THEN @ - 1 ELSE @])
    BY <2>2 DEF Acknowledge
  <2>4. queued \in [Jobs -> Nat] /\ held \in [Jobs -> Nat]
    BY <1>1 DEF IInv, MessagesOK
  <2>5. node.job = j
    BY <2>1, <2>3, <2>4 DEF Fewer
  <2>6. Settled(node.job) \/ Lost
    BY <1>1, <2>3 DEF IInv, AckOK
  <2> QED
    BY <2>5, <2>6 DEF Lost
<1> QED
  BY <1>1, Invariance, PTL DEF Spec, AckJustified

-----------------------------------------------------------------------------
(* Whose files they are *)

\* What the edge delivers for an order are as many files as it has, each in its style and
\* format, and of its family and mode unless an atlas run of another order for the style was
\* taken for it: through archive hits, remembered runs, retries, takeovers and crashes, and
\* for any mix of orders.
THEOREM DeliversTheOrder == Spec => []ArtifactOfJob
<1>1. ASSUME IInv PROVE ArtifactOfJob
  <2>1. SUFFICES ASSUME NEW j \in Jobs, edge[j].status = "COMPLETED"
                 PROVE  /\ Len(edge[j].got) = Len(Items[j])
                        /\ \A i \in DOMAIN Items[j] : StandsFor(edge[j].got[i], Identity(j, i))
    BY DEF ArtifactOfJob
  <2>2. Kept(edge[j], j)
    BY <1>1 DEF IInv, EdgeOK
  <2>3. Len(edge[j].got) = Len(Items[j]) /\ FilesFit(edge[j].got, j)
    BY <2>1, <2>2, Zenon DEF Kept, WholeOrder
  <2>4. DOMAIN Items[j] = 1..Len(Items[j])
    BY JobFacts
  <2> QED
    BY <2>3, <2>4, Zenon DEF FilesFit
<1> QED
  BY <1>1, Invariance, PTL

\* A hit of the archive is the font of its identity, or of an atlas run of another order for
\* the style, whichever threads archive at the same time, whatever breaks off between the row
\* and its attestation, and across crashes.
THEOREM HitsAreOwn == Spec => []HitIsOwn
<1>1. ASSUME IInv PROVE HitIsOwn
  BY <1>1, Zenon DEF HitIsOwn, Hit, IInv, ArchiveOK
<1> QED
  BY <1>1, Invariance, PTL
=============================================================================
