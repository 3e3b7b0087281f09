------------------------------ MODULE ReleaseGate ------------------------------
(***************************************************************************)
(* How an order's fonts are come by: runner.py _tiered_resolve_artifact    *)
(* goes through the tiers of reuse (the archive of final fonts, cached     *)
(* models, an authorised binary) to the release gate of                    *)
(* fidelity/release_gate.py, with the gate in a thread of its own that is  *)
(* left to itself when its time is up.  This is the regime without the     *)
(* atlas pipeline; GateEvidence says what a gate decides.                  *)
(*                                                                         *)
(* Orders are under way together when a claim that lost its lease leaves   *)
(* its thread running.  A crash ends threads, the memo and files of the    *)
(* attempt; archive and model cache stay.                                  *)
(***************************************************************************)
EXTENDS VietnameseExtension

CONSTANTS
    Orders,             \* bound: numbers, of orders under way
    Books,              \* what may be ordered: functions from orders to [mode, items]
    StyleOf(_),         \* of a collection
    Sorted,             \* the collections, in the order of their identities
    Confident(_),       \* forming a collection's model ends with enough confidence (GlyphSearch)
    Binary(_),          \* of a style, authorised: "none", "good" or "bad" for the binary gate
    Provider,           \* an AI provider is configured
    Answers,            \* what the routes of the cascade may say
    Histories,          \* which collections may be complete
    MemoMax,            \* _MODEL_FORMATION_MEMO_MAX
    Slots,              \* bound: gate threads of an order, the abandoned ones among them
    MaxCrashes          \* bound

ASSUME GateConstants ==
    /\ Sorted \in Seq(Collections)
    /\ MaxCrashes \in Nat

\* An order has each style in each format once.
ASSUME BooksAssumption ==
    \A b \in Books : \A o \in Orders :
        LET items == b[o].items
        IN  /\ b[o].mode \in {"ORIGINAL", "VIETNAMESE"}
            /\ items \in Seq(Range(items)) /\ items /= <<>>
            /\ \A i, j \in DOMAIN items : items[i] = items[j] => i = j
            /\ \A i \in DOMAIN items : items[i] = [style |-> items[i].style, fmt |-> items[i].fmt]

VARIABLES
    book,               \* what the orders are
    completed,          \* collections
    archive,            \* FinalFontArchive: the file and the attestation under an identity
    models,             \* FontModelCache: the model under an identity
    memo,               \* _formation_memo: the models formed, the latest last
    pc, at, probe, late, current,   \* of the compute thread of an order
    got,                \* what it has resolved: where the font is, and its attestation
    delivered,          \* fonts packaged
    gate,               \* threads
    files,              \* fonts built, by order, tier, format and style
    crashes

durable == <<book, completed, archive, models>>
thread == <<pc, at, probe, late, current, got, delivered>>
vars == <<durable, memo, thread, gate, files, crashes>>

Modes == {"ORIGINAL", "VIETNAMESE"}
Threads == Orders \X Slots
Items(o) == book[o].items
Item(o) == Items(o)[at[o]]
Mode(o) == book[o].mode

Put(t, k, v) == [x \in DOMAIN t \cup {k} |-> IF x = k THEN v ELSE t[x]]

-----------------------------------------------------------------------------
(* Constant tables: what the gate decides of a collection, and of the fonts made from it. *)

Authors == {"none", "composed", "woku1", "woku2", "12b", "27b"}

Loads == [c \in Collections |-> LoadOk(Store(c))]
Partitions == [c \in Collections |-> PartitionOk(Store(c))]
Forms == [c \in Collections |-> Confident(c) /\ AssemblyOk(Store(c))]

Whole == {c \in Collections : Loads[c] /\ Partitions[c] /\ Forms[c]}
Base == [c \in Whole |-> Model(c)]
Lacking == [c \in Whole |-> Missing(Base[c])]
Open == [c \in Whole |-> Unresolved(Base[c])]
Made == [c \in Whole |-> [by \in Authors |-> IF by = "none" THEN Base[c] ELSE Extended(Base[c], by)]]
Usable == [c \in Whole |-> [by \in Authors |-> FontUsable(Made[c][by])]]
Nfd == [c \in Whole |-> [by \in Authors |-> PartsCovered(Made[c][by])]]

\* Who may draw what the source lacks: nobody when it has it all.
Drawers == [c \in Whole |->
    IF Lacking[c] = {} THEN {"none"}
    ELSE IF Open[c] = {} THEN {"composed"}
    ELSE IF ~Provider THEN {"failed"}
    ELSE {Cascade(answers, Open[c]) : answers \in Answers}]

\* The glyphs the extension made are let off being bound to the rasters, where it is known which they are.
Verdict == [c \in Whole |-> [by \in Authors |-> [told \in BOOLEAN |->
    Passes(Store(c), Made[c][by], IF told THEN Lacking[c] ELSE {})]]]

-----------------------------------------------------------------------------
(* Identities *)

Provenances == <<"raster", "dump_dom", "session", "preserved", "ai">>   \* PROVENANCE_PROBE_ORDER

\* The slip of FontKey: a font as its foundry made it answers a Vietnamese order.
FontKey_Fault(item, mode, provenance, binding) ==
    [style |-> item.style, fmt |-> item.fmt, provenance |-> provenance, binding |-> binding]

\* The binding of an extended font says who drew what its source lacks.
FontKey(item, mode, provenance, binding) ==
    [style |-> item.style, fmt |-> item.fmt, mode |-> mode, provenance |-> provenance, binding |-> binding]

ModelKey(c, mode, provenance) == [col |-> c, mode |-> mode, provenance |-> provenance]

FromModel(c, by, fmt) == [col |-> c, by |-> by, fmt |-> fmt]
FromBinary(item) == [col |-> item.style, by |-> "binary", fmt |-> item.fmt]
Built(g) == FromModel(g.col, g.by, g.fmt)       \* by a gate thread
NoFont == [col |-> "none", by |-> "none", fmt |-> "none"]

\* _make_archive_identity with no binding: get_attested_any_binding finds what was put under none.
Hits(o, item) ==
    {i \in DOMAIN Provenances :
        LET k == FontKey(item, Mode(o), Provenances[i], "none")
        IN  k \in DOMAIN archive /\ archive[k].att = archive[k].font}

\* _completed_identities: where among the sorted the completed collections of a style are.
CompletedOf(style) == {n \in DOMAIN Sorted : Sorted[n] \in completed /\ StyleOf(Sorted[n]) = style}

\* The models _tiered_resolve_artifact tries: by collection, then by provenance.
Nth(i) == ((i - 1) \div Len(Provenances)) + 1
ProbeOf(o, i) ==
    ModelKey(Sorted[Nth(i)], Mode(o), Provenances[((i - 1) % Len(Provenances)) + 1])

NextProbe(o) ==
    {i \in probe[o] + 1..Len(Sorted) * Len(Provenances) :
        Nth(i) \in CompletedOf(Item(o).style) /\ ProbeOf(o, i) \in DOMAIN models}

-----------------------------------------------------------------------------

Off == [pc |-> "off", kind |-> "none", col |-> "none", by |-> "none", fmt |-> "none",
        mode |-> "none", own |-> FALSE]

Init ==
    /\ book \in Books
    /\ completed \in Histories
    /\ archive = <<>> /\ models = <<>>
    /\ memo = <<>>
    /\ pc = [o \in Orders |-> "item"]
    /\ at = [o \in Orders |-> 1]
    /\ probe = [o \in Orders |-> 0]
    /\ late = [o \in Orders |-> FALSE]
    /\ current = [o \in Orders |-> 0]
    /\ got = [o \in Orders |-> <<>>]
    /\ delivered = [o \in Orders |-> <<>>]
    /\ gate = [t \in Threads |-> Off]
    /\ files = <<>>
    /\ crashes = 0

-----------------------------------------------------------------------------
(* The compute thread: the tiers *)

Path(o, kind) == [order |-> o, kind |-> kind, item |-> Item(o)]
Archived == [order |-> 0, kind |-> "archive", item |-> [style |-> "none", fmt |-> "none"]]

\* cleanup_job_dir
Cleaned(o) == Restrict(files, {p \in DOMAIN files : p.order /= o})

Fails(o) ==
    /\ pc' = [pc EXCEPT ![o] = "failed"]
    /\ at' = [at EXCEPT ![o] = 1]
    /\ files' = Cleaned(o)
    /\ current' = [current EXCEPT ![o] = 0]
    /\ probe' = [probe EXCEPT ![o] = 0]
    /\ got' = [got EXCEPT ![o] = <<>>]

\* A resolved item: where its font is (in the archive it is for good), its attestation and identity.
Resolved(o, where, font, provenance) ==
    LET r == [path |-> where, font |-> font, provenance |-> provenance, item |-> Item(o)]
        last == at[o] = Len(Items(o))
    IN  /\ got' = [got EXCEPT ![o] = Append(@, r)]
        /\ at' = [at EXCEPT ![o] = IF last THEN 1 ELSE @ + 1]
        /\ pc' = [pc EXCEPT ![o] = IF last THEN "archive" ELSE "item"]
        /\ probe' = [probe EXCEPT ![o] = 0]
        /\ current' = [current EXCEPT ![o] = 0]

\* _sync_build_validate_and_package at the top of its loop, and wall_budget.
WallHit(o) ==
    /\ pc[o] \in {"item", "archive"}
    /\ late[o]
    /\ pc[o] = "archive" => at[o] > Len(got[o])     \* the puts are not stopped for the wall
    /\ Fails(o)
    /\ UNCHANGED <<durable, memo, late, delivered, gate, crashes>>

\* L1: _probe_l1
TakeArchived(o) ==
    /\ pc[o] = "item" /\ ~late[o]
    /\ Hits(o, Item(o)) /= {}
    /\ LET k == FontKey(Item(o), Mode(o), Provenances[Min(Hits(o, Item(o)))], "none")
       IN  Resolved(o, Archived, archive[k].font, "archive")
    /\ UNCHANGED <<durable, memo, late, delivered, gate, files, crashes>>

Missed(o) ==
    \/ pc[o] = "item" /\ ~late[o] /\ Hits(o, Item(o)) = {}
    \/ pc[o] = "tiers"

\* _run_bounded: the thread gets all of the time that was left when the item was begun.
Launch(o, kind, c, by) ==
    \E s \in Slots :
        /\ gate[<<o, s>>].pc = "off"
        /\ \A r \in Slots : gate[<<o, r>>].pc = "off" => s <= r
        /\ gate' = [gate EXCEPT ![<<o, s>>] =
                [Off EXCEPT !.pc = "load", !.kind = kind, !.col = c, !.by = by, !.fmt = Item(o).fmt,
                            !.mode = Mode(o), !.own = pc[o] = "tiers"]]
        /\ current' = [current EXCEPT ![o] = s]
        /\ pc' = [pc EXCEPT ![o] = "waiting"]

\* L2
TryModel(o) ==
    /\ Missed(o)
    /\ NextProbe(o) /= {}
    /\ LET i == Min(NextProbe(o))
           k == ProbeOf(o, i)
       IN  /\ Launch(o, "reuse", models[k].col, models[k].by)
           /\ probe' = [probe EXCEPT ![o] = i]
    /\ UNCHANGED <<durable, memo, at, late, got, delivered, files, crashes>>

BinaryFor(o) == IF Mode(o) = "ORIGINAL" THEN Binary(Item(o).style) ELSE "none"

\* L3: only for what is to be as its foundry made it; prepared and validated in place.
TakeBinary(o) ==
    /\ Missed(o)
    /\ NextProbe(o) = {}
    /\ BinaryFor(o) /= "none"
    /\ IF BinaryFor(o) = "good"
       THEN /\ Resolved(o, Path(o, "binary"), FromBinary(Item(o)), "session")
            /\ files' = Put(files, Path(o, "binary"), FromBinary(Item(o)))
       ELSE Fails(o)
    /\ UNCHANGED <<durable, memo, late, delivered, gate, crashes>>

\* L4
Gate(o) ==
    /\ Missed(o)
    /\ NextProbe(o) = {} /\ BinaryFor(o) = "none"
    /\ IF CompletedOf(Item(o).style) = {}
       THEN Fails(o) /\ UNCHANGED gate
       ELSE /\ Launch(o, "form", Sorted[Min(CompletedOf(Item(o).style))], "none")
            /\ UNCHANGED <<probe, got, at, files>>
    /\ UNCHANGED <<durable, memo, late, delivered, crashes>>

Mine(o) == <<o, current[o]>>

\* An answer that publishes; a model the gate itself formed goes to the model cache.
TakeAnswer(o) ==
    /\ pc[o] = "waiting"
    /\ gate[Mine(o)].pc = "published"
    /\ LET g == gate[Mine(o)]
           provenance == IF g.mode = "ORIGINAL" THEN "raster"
                         ELSE IF g.by = "none" THEN "preserved" ELSE "ai"
       IN  /\ Resolved(o, Path(o, g.kind), Built(g), provenance)
           /\ models' = IF g.kind = "form"
                        THEN Put(models, ModelKey(g.col, g.mode, provenance),
                                 [col |-> g.col, by |-> g.by])
                        ELSE models
    /\ gate' = [gate EXCEPT ![Mine(o)] = Off]
    /\ UNCHANGED <<book, completed, archive, memo, late, delivered, files, crashes>>

\* No font: the next model is tried, but there is nothing after the gate.
NotPublished(o) ==
    IF gate[Mine(o)].kind = "reuse"
    THEN /\ pc' = [pc EXCEPT ![o] = "tiers"]
         /\ current' = [current EXCEPT ![o] = 0]
         /\ UNCHANGED <<probe, got, at, files>>
    ELSE Fails(o)

Refused(o) ==
    /\ pc[o] = "waiting"
    /\ gate[Mine(o)].pc = "refused"
    /\ NotPublished(o)
    /\ gate' = [gate EXCEPT ![Mine(o)] = Off]
    /\ UNCHANGED <<durable, memo, late, delivered, crashes>>

\* The slip of Abandon: the first thread of an item is waited for without a limit.
Abandon_Fault(o) ==
    /\ pc[o] = "waiting"
    /\ late[o] /\ gate[Mine(o)].own
    /\ gate[Mine(o)].pc \notin {"published", "refused"}
    /\ NotPublished(o)
    /\ UNCHANGED <<durable, memo, late, delivered, gate, crashes>>

\* future.result(timeout): the caller goes on, and so does the thread.
Abandon(o) ==
    /\ pc[o] = "waiting"
    /\ late[o]
    /\ gate[Mine(o)].pc \notin {"published", "refused"}
    /\ NotPublished(o)
    /\ UNCHANGED <<durable, memo, late, delivered, gate, crashes>>

-----------------------------------------------------------------------------
(* The compute thread: when every item has passed *)

InFile(r) == IF r.path = Archived THEN r.font
             ELSE IF r.path \in DOMAIN files THEN files[r.path] ELSE NoFont

\* put_attested copies what is in the file now; a row that is there keeps its file and is attested anew.
Archive(o) ==
    /\ pc[o] = "archive"
    /\ at[o] <= Len(got[o])
    /\ LET r == got[o][at[o]]
           by == IF r.font.by = "binary" THEN "none" ELSE r.font.by
           k == FontKey(r.item, Mode(o), r.provenance, by)
           kept == IF k \in DOMAIN archive THEN archive[k].font ELSE InFile(r)
       IN  archive' = IF r.path = Archived THEN archive
                      ELSE Put(archive, k, [font |-> kept, att |-> r.font])
    /\ at' = [at EXCEPT ![o] = @ + 1]
    /\ UNCHANGED <<book, completed, models, memo, pc, probe, late, current, got, delivered, gate, files, crashes>>

\* package_job_output, of the files as they are.
Package(o) ==
    /\ pc[o] = "archive"
    /\ at[o] > Len(got[o])
    /\ ~late[o]
    /\ delivered' = [delivered EXCEPT ![o] = [i \in DOMAIN got[o] |->
            [font |-> InFile(got[o][i]), judged |-> got[o][i].font, item |-> got[o][i].item]]]
    /\ pc' = [pc EXCEPT ![o] = "packaged"]
    /\ got' = [got EXCEPT ![o] = <<>>] /\ at' = [at EXCEPT ![o] = 1]
    /\ files' = Cleaned(o)
    /\ UNCHANGED <<durable, memo, probe, late, current, gate, crashes>>

-----------------------------------------------------------------------------
(* A gate thread *)

Goes(t, g) ==
    /\ gate' = [gate EXCEPT ![t] = g]
    /\ UNCHANGED <<durable, thread, crashes>>

Abandoned(t) == current[t[1]] /= t[2]

\* What nobody waits for is dropped; a file it built stays.
Ends(t, result) ==
    Goes(t, IF Abandoned(t) THEN Off ELSE [gate[t] EXCEPT !.pc = result])

\* A thread with time of its own is out of it when it is abandoned, if not before.
InTime(t) == IF gate[t].own THEN ~Abandoned(t) ELSE ~late[t[1]]

\* The time is looked at between two steps.
GoesOn(t, ok, g) == IF ok /\ InTime(t) THEN Goes(t, g) ELSE Ends(t, "refused")

\* _formation_memo_get and _formation_memo_put, with the oldest entry popped.
Remembered(m) ==
    LET rest == IF m \in Range(memo) THEN RemoveAt(memo, CHOOSE i \in DOMAIN memo : memo[i] = m)
                ELSE memo
        all == Append(rest, m)
    IN  IF Len(all) > MemoMax THEN Tail(all) ELSE all

InMemo(c) == {m \in Range(memo) : m.col = c}

\* _execute_profiled: the snapshot, the parting, and a model formed of it if none is remembered.
Form(t) ==
    LET g == gate[t]
        formed == IF InMemo(g.col) = {} THEN [col |-> g.col, by |-> "none"]
                  ELSE CHOOSE m \in InMemo(g.col) : TRUE
        ok == Loads[g.col] /\ Partitions[g.col] /\ (InMemo(g.col) = {} => Forms[g.col])
    IN  /\ g.pc = "load" /\ g.kind = "form"
        /\ \/ /\ memo' = IF ok THEN Remembered(formed) ELSE memo
              /\ GoesOn(t, ok, [g EXCEPT !.pc = "extend", !.by = formed.by])
           \/ /\ ~InTime(t)                \* Fast30WallLimitError
              /\ Ends(t, "refused") /\ UNCHANGED memo
        /\ UNCHANGED files

\* execute_with_model: a model of evidence that no longer loads is not used again.
Reuse(t) ==
    LET g == gate[t]
    IN  /\ g.pc = "load" /\ g.kind = "reuse"
        /\ GoesOn(t, Loads[g.col] /\ Partitions[g.col], [g EXCEPT !.pc = "build"])
        /\ UNCHANGED <<memo, files>>

\* extend, of a model that is remembered without what the extension adds.
Extend(t) ==
    LET g == gate[t]
    IN  /\ g.pc = "extend"
        /\ \E by \in Authors \union {"failed"} :
            /\ by \in IF g.mode = "ORIGINAL" THEN {"none"} ELSE Drawers[g.col]
            /\ GoesOn(t, by /= "failed" /\ (g.mode = "VIETNAMESE" => Nfd[g.col][by]),
                      [g EXCEPT !.pc = "build", !.by = IF by = "none" THEN @ ELSE by])
        /\ UNCHANGED <<memo, files>>

GatePath(t) == [order |-> t[1], kind |-> gate[t].kind,
                item |-> [style |-> StyleOf(gate[t].col), fmt |-> gate[t].fmt]]

\* build_candidate_family, and for a Vietnamese font validate_candidate_font_bytes of it.
Build(t) ==
    LET g == gate[t]
    IN  /\ g.pc = "build"
        /\ files' = Put(files, GatePath(t), Built(g))
        /\ GoesOn(t, g.mode = "VIETNAMESE" => Usable[g.col][g.by], [g EXCEPT !.pc = "judge"])
        /\ UNCHANGED memo

\* The consumers read the bytes they were given; FontTools and Chromium read the file again.
Judge(t) ==
    LET g == gate[t]
        ok == files[GatePath(t)] = Built(g) /\ Verdict[g.col][g.by][g.kind = "form" /\ g.mode = "VIETNAMESE"]
    IN  /\ g.pc = "judge"
        /\ Ends(t, IF ok /\ InTime(t) THEN "published" ELSE "refused")
        /\ UNCHANGED <<memo, files>>

-----------------------------------------------------------------------------
(* Time and crashes *)

Idle == [o \in Orders |-> pc[o] \in {"packaged", "failed"}]

\* The wall of the job, and of every thread that shares it.
Wall(o) ==
    /\ ~late[o] /\ ~Idle[o]
    /\ late' = [late EXCEPT ![o] = TRUE]
    /\ UNCHANGED <<durable, memo, pc, at, probe, current, got, delivered, gate, files, crashes>>

\* The next attempt has a directory of its own, and the browser may be another by then.
Crash ==
    /\ crashes < MaxCrashes
    /\ \E o \in Orders : ~Idle[o]
    /\ crashes' = crashes + 1
    /\ \E c \in Histories : completed \subseteq c /\ completed' = c
    /\ memo' = <<>>
    /\ gate' = [t \in Threads |-> Off]
    /\ files' = <<>>
    /\ pc' = [o \in Orders |-> IF Idle[o] THEN pc[o] ELSE "item"]
    /\ at' = [o \in Orders |-> 1]
    /\ probe' = [o \in Orders |-> 0]
    /\ late' = [o \in Orders |-> FALSE]
    /\ current' = [o \in Orders |-> 0]
    /\ got' = [o \in Orders |-> <<>>]
    /\ UNCHANGED <<book, archive, models, delivered>>

Finished ==
    /\ \A o \in Orders : Idle[o]
    /\ \A t \in Threads : gate[t].pc = "off"
    /\ UNCHANGED vars

-----------------------------------------------------------------------------

Compute(o) ==
    \/ WallHit(o) \/ TakeArchived(o) \/ TryModel(o) \/ TakeBinary(o) \/ Gate(o)
    \/ TakeAnswer(o) \/ Refused(o) \/ Abandon(o) \/ Archive(o) \/ Package(o)

GateStep(t) == Form(t) \/ Reuse(t) \/ Extend(t) \/ Build(t) \/ Judge(t)

Next ==
    \/ \E o \in Orders : Compute(o) \/ Wall(o)
    \/ \E t \in Threads : GateStep(t)
    \/ Crash
    \/ Finished

\* The compute thread runs and time passes.  Nothing makes a gate thread, or the AI it waits for, go on.
Fairness == \A o \in Orders : WF_vars(Compute(o)) /\ WF_vars(Wall(o))

Spec == Init /\ [][Next]_vars /\ Fairness

-----------------------------------------------------------------------------
(* Properties *)

Fonts(o) == Range(delivered[o])

\* What is delivered is the font that was judged, of the style and format asked for; an order as it is
\* has no glyph anybody made up, a Vietnamese order every glyph it needs, whatever the memo, the model
\* cache, the archive and the other orders hold (release_gate.py _formation_memo, runner.py L1 to L4).
DeliveredIsOwn ==
    \A o \in Orders : \A d \in Fonts(o) :
        /\ d.font = d.judged
        /\ d.font.fmt = d.item.fmt
        /\ IF d.font.by = "binary" THEN d.font.col = d.item.style /\ Mode(o) = "ORIGINAL"
           ELSE /\ StyleOf(d.font.col) = d.item.style
                /\ IF Mode(o) = "ORIGINAL" THEN d.font.by = "none"
                   ELSE Required \subseteq DOMAIN Made[d.font.col][d.font.by].glyphs

\* The pixels that vouch for a delivered font are none that its glyphs were fitted to
\* (pipeline.py partition_snapshot, evaluator.py gate 0).
Unseen(c) ==
    LET s == Store(c)
        seen == UNION {m.from : m \in Range(Base[c].glyphs)}
    IN  HeldRows(s) /= {} /\ {Image(r) : r \in HeldRows(s)} \cap seen = {}

UnseenTable == [c \in Whole |-> Unseen(c)]

JudgedByUnseen ==
    \A o \in Orders : \A d \in Fonts(o) : d.font.by /= "binary" => UnseenTable[d.font.col]

\* However long a gate hangs, its order ends, packaged or failed (_run_bounded, the job wall).
EveryOrderEnds == \A o \in Orders : <>[](pc[o] \in {"packaged", "failed"})
=============================================================================
