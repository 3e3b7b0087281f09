---------------------------- MODULE ReleaseGateProofs ----------------------------
(***************************************************************************)
(* What holds of the tiers of reuse and the release gate for every number  *)
(* of orders, threads, collections and crashes: an order is delivered the  *)
(* font that was judged for it, and the pixels that judged it are none the *)
(* font was fitted to.                                                     *)
(*                                                                         *)
(* The argument has two halves.  What outlives an order - memo, model      *)
(* cache, archive - is what its key says (StoresOK).  And as long as an    *)
(* order may still deliver, nobody but the thread it waits for works on    *)
(* its files (AloneOK): a thread is abandoned only past the wall, where    *)
(* nothing is packaged any more.                                           *)
(***************************************************************************)
EXTENDS ReleaseGate, FiniteSetTheorems, WellFoundedInduction, TLAPS

-----------------------------------------------------------------------------
(* The inductive invariant *)

Stages == {"item", "tiers", "waiting", "archive", "packaged", "failed"}
GateStages == {"load", "extend", "build", "judge", "published", "refused"}

\* A font an order for this style and format in this mode may get.
Fits(f, item, mode) ==
    /\ f.fmt = item.fmt
    /\ IF f.by = "binary" THEN f.col = item.style /\ mode = "ORIGINAL"
       ELSE /\ f.col \in Whole /\ StyleOf(f.col) = item.style
            /\ IF mode = "ORIGINAL" THEN f.by = "none"
               ELSE f.by \in Authors /\ Usable[f.col][f.by]

TypeOK ==
    /\ book \in Books
    /\ pc \in [Orders -> Stages] /\ at \in [Orders -> Nat \ {0}] /\ probe \in [Orders -> Nat]
    /\ late \in [Orders -> BOOLEAN] /\ current \in [Orders -> Slots \cup {0}]
    /\ DOMAIN gate = Threads
    /\ DOMAIN got = Orders /\ \A o \in Orders : got[o] \in Seq(Range(got[o]))
    /\ DOMAIN delivered = Orders

\* What outlives an order: only the source's own model is remembered, a cached model is of what its
\* key says, and an attestation in the archive is of a font its key may stand for.
StoresOK ==
    /\ memo \in Seq([col : Whole, by : {"none"}])
    /\ \A k \in DOMAIN models :
            /\ models[k].col = k.col /\ k.col \in Whole /\ models[k].by \in Authors
            /\ k.mode = "ORIGINAL" => models[k].by = "none"
    /\ \A k \in DOMAIN archive : Fits(archive[k].att, k, k.mode)

\* A gate thread, waited for or abandoned.
ThreadOK(t) ==
    gate[t].pc /= "off" =>
        /\ DOMAIN gate[t] = DOMAIN Off
        /\ gate[t].pc \in GateStages /\ gate[t].kind \in {"form", "reuse"}
        /\ gate[t].mode = Mode(t[1])
        /\ gate[t].col \in Collections /\ gate[t].by \in Authors
        /\ gate[t].mode = "ORIGINAL" => gate[t].by = "none"
        /\ gate[t].kind = "reuse" \/ gate[t].pc \in {"extend", "build", "judge", "published"}
                => gate[t].col \in Whole
        /\ gate[t].pc \in {"judge", "published"} /\ gate[t].mode /= "ORIGINAL"
                => Usable[gate[t].col][gate[t].by]

\* The items before the one at hand are resolved, each with a font for it.
ItemsOK(o) ==
    /\ pc[o] \in {"item", "tiers", "waiting"} => at[o] \in DOMAIN Items(o) /\ Len(got[o]) = at[o] - 1
    /\ \A i \in DOMAIN got[o] :
            /\ i \in DOMAIN Items(o) /\ got[o][i].item = Items(o)[i]
            /\ Fits(got[o][i].font, got[o][i].item, Mode(o))
            /\ got[o][i].path = Archived \/
               \E kind \in {"binary", "form", "reuse"} :
                    got[o][i].path = [order |-> o, kind |-> kind, item |-> got[o][i].item]

\* An order that waits does so for a thread that makes what it is at.
WaitOK(o) ==
    pc[o] = "waiting" =>
        /\ current[o] \in Slots /\ gate[Mine(o)].pc /= "off"
        /\ StyleOf(gate[Mine(o)].col) = Item(o).style /\ gate[Mine(o)].fmt = Item(o).fmt

\* Before the wall nobody but the thread waited for is at work for an order,
AloneOK(o) ==
    ~late[o] => \A s \in Slots :
        gate[<<o, s>>].pc /= "off" => pc[o] = "waiting" /\ current[o] = s

\* so that its files are as they were judged.
FilesOK(o) ==
    ~late[o] =>
        /\ \A i \in DOMAIN got[o] :
                got[o][i].path = Archived
                \/ (got[o][i].path \in DOMAIN files /\ files[got[o][i].path] = got[o][i].font)
        /\ pc[o] = "waiting" =>
            /\ gate[Mine(o)].pc \in {"judge", "published"} => GatePath(Mine(o)) \in DOMAIN files
            /\ gate[Mine(o)].pc = "published" => files[GatePath(Mine(o))] = Built(gate[Mine(o)])

OwnOK(o) ==
    \A i \in DOMAIN delivered[o] :
        /\ delivered[o][i].font = delivered[o][i].judged
        /\ Fits(delivered[o][i].font, delivered[o][i].item, Mode(o))

OrderOK(o) == ItemsOK(o) /\ WaitOK(o) /\ AloneOK(o) /\ FilesOK(o) /\ OwnOK(o)

IInv ==
    /\ TypeOK /\ StoresOK
    /\ \A t \in Threads : ThreadOK(t)
    /\ \A o \in Orders : OrderOK(o)

-----------------------------------------------------------------------------
(* Sequences and least elements *)

LEMMA AppendOwn ==
    ASSUME NEW s, s \in Seq(Range(s)), NEW e
    PROVE  /\ Append(s, e) \in Seq(Range(Append(s, e)))
           /\ Len(Append(s, e)) = Len(s) + 1 /\ Len(s) \in Nat
           /\ DOMAIN Append(s, e) = 1..Len(s) + 1 /\ DOMAIN s = 1..Len(s)
           /\ \A i \in 1..Len(s) : Append(s, e)[i] = s[i]
           /\ Append(s, e)[Len(s) + 1] = e
<1> DEFINE T == Range(s) \cup {e}
           a == Append(s, e)
<1>1. s \in Seq(T)
  OBVIOUS
<1> HIDE DEF T
<1>2. a \in Seq(T) /\ Len(a) = Len(s) + 1 /\ DOMAIN a = 1..Len(s) + 1
      /\ (\A i \in 1..Len(s) : a[i] = s[i]) /\ a[Len(s) + 1] = e /\ Len(s) \in Nat /\ DOMAIN s = 1..Len(s)
  BY <1>1 DEF T
<1> HIDE DEF a
<1>3. a \in Seq(Range(a))
  BY <1>2 DEF Range
<1> QED
  BY <1>2, <1>3 DEF a

LEMMA EmptyOwn == << >> \in Seq(Range(<< >>)) /\ DOMAIN << >> = {} /\ Len(<< >>) = 0
OBVIOUS

UpTo(S, i) == {h \in S : h <= i}

LEMMA Smaller ==
    ASSUME NEW A, NEW B, NEW x, A \subseteq Nat, B \subseteq Nat, A \subseteq B, x \in B, x \notin A
    PROVE  <<A, B>> \in StrictSubsetOrdering(Nat)
<1>1. <<A, B>> \in (SUBSET Nat) \X (SUBSET Nat)
  OBVIOUS
<1>2. A # B
  OBVIOUS
<1> QED
  BY <1>1, <1>2, Zenon DEF StrictSubsetOrdering

LEMMA Least ==
    ASSUME NEW S, S \subseteq Nat, S # {}
    PROVE  \E i \in S : \A h \in S : i <= h
<1> DEFINE T == {UpTo(S, i) : i \in S}
<1>1. T \subseteq FiniteSubsetsOf(Nat)
  <2>1. ASSUME NEW i \in S PROVE UpTo(S, i) \subseteq Nat /\ IsFiniteSet(UpTo(S, i))
    <3>1. UpTo(S, i) \in SUBSET Nat /\ i \in Nat /\ \A h \in UpTo(S, i) : h <= i
      BY Zenon DEF UpTo
    <3> QED
      BY <3>1, FS_BoundedSetOfNaturals, Zenon
  <2> QED
    BY <2>1, Zenon DEF FiniteSubsetsOf
<1>2. T # {}
  BY Zenon
<1>3. \E x \in T : \A y \in T : ~(<<y, x>> \in StrictSubsetOrdering(Nat))
  <2>1. IsWellFoundedOn(StrictSubsetOrdering(Nat), FiniteSubsetsOf(Nat))
    BY FS_StrictSubsetOrderingWellFounded
  <2> HIDE DEF T
  <2> QED
    BY <1>1, <1>2, <2>1, WFMin, Zenon
<1>4. PICK i \in S : \A h \in S : ~(<<UpTo(S, h), UpTo(S, i)>> \in StrictSubsetOrdering(Nat))
  BY <1>3, Zenon
<1>5. ASSUME NEW h \in S PROVE i <= h
  <2>1. SUFFICES ASSUME h < i PROVE FALSE
    OBVIOUS
  <2>2. UpTo(S, h) \subseteq UpTo(S, i) /\ i \in UpTo(S, i) /\ i \notin UpTo(S, h)
    <3>1. i \in Nat /\ h \in Nat
      BY Zenon
    <3>2. ASSUME NEW g \in Nat, g <= h PROVE g <= i
      BY <2>1, <3>1, <3>2
    <3>3. i <= i /\ ~(i <= h)
      BY <2>1, <3>1
    <3> QED
      BY <3>2, <3>3, Zenon DEF UpTo
  <2>3. UpTo(S, h) \subseteq Nat /\ UpTo(S, i) \subseteq Nat
    BY Zenon DEF UpTo
  <2>4. <<UpTo(S, h), UpTo(S, i)>> \in StrictSubsetOrdering(Nat)
    BY <2>2, <2>3, Smaller
  <2> QED
    BY <2>4, <1>4
<1> QED
  BY <1>5

LEMMA MinIsOne ==
    ASSUME NEW S, S \subseteq Nat, S # {}
    PROVE  Min(S) \in S
BY Least DEF Min

-----------------------------------------------------------------------------
(* The tables *)

LEMMA WholeIsFormed ==
    /\ Whole \subseteq Collections
    /\ \A c \in Collections : Loads[c] /\ Partitions[c] /\ Forms[c] => c \in Whole
BY DEF Whole

LEMMA UsableHasAll ==
    ASSUME NEW c \in Whole, NEW by \in Authors, Usable[c][by]
    PROVE  Required \subseteq DOMAIN Made[c][by].glyphs
BY DEF Usable, FontUsable

\* The parting and the model of a collection that passed keep what is held out from what is fitted.
LEMMA WholeIsUnseen ==
    ASSUME NEW c \in Whole
    PROVE  UnseenTable[c]
<1> DEFINE s == Store(c)
<1>1. c \in Collections /\ LoadOk(s) /\ PartitionOk(s)
  BY DEF Whole, Loads, Partitions
<1>2. HeldRows(s) # {}
  <2>1. PICK cp \in s.coverage : TRUE
    BY <1>1 DEF LoadOk
  <2>2. RowsOf(HeldRows(s), cp) # {}
    BY <1>1, <2>1 DEF PartitionOk
  <2> QED
    BY <2>2 DEF RowsOf
<1>3. {Image(r) : r \in FitRows(s)} \cap {Image(r) : r \in HeldRows(s)} = {}
  BY <1>1 DEF PartitionOk, Leaks
<1>4. Base[c] = Model(c)
  BY DEF Base
<1>5. ASSUME NEW m \in Range(Base[c].glyphs) PROVE m.from \subseteq {Image(r) : r \in FitRows(s)}
  <2>1. PICK cp \in DOMAIN Model(c).glyphs : m = Model(c).glyphs[cp]
    BY <1>4 DEF Range
  <2>2. m.from = {Image(r) : r \in RowsOf(FitRows(s), cp)}
    BY <2>1 DEF Model
  <2> QED
    BY <2>2 DEF RowsOf
<1>6. Unseen(c)
  <2> HIDE DEF s
  <2>1. UNION {m.from : m \in Range(Base[c].glyphs)} \subseteq {Image(r) : r \in FitRows(s)}
    BY <1>5
  <2>2. {Image(r) : r \in HeldRows(s)} \cap UNION {m.from : m \in Range(Base[c].glyphs)} = {}
    BY <1>3, <2>1
  <2> QED
    BY <1>2, <2>2 DEF Unseen, s
<1> QED
  BY <1>6 DEF UnseenTable

-----------------------------------------------------------------------------
(* What a step leaves alone *)

\* The files of an order are kept.
FilesKept(o) ==
    \A p \in DOMAIN files : p.order = o => p \in DOMAIN files' /\ files'[p] = files[p]

Left(o) ==
    /\ pc'[o] = pc[o] /\ at'[o] = at[o] /\ probe'[o] = probe[o] /\ late'[o] = late[o]
    /\ current'[o] = current[o] /\ got'[o] = got[o] /\ delivered'[o] = delivered[o]
    /\ \A s \in Slots : gate'[<<o, s>>] = gate[<<o, s>>]
    /\ FilesKept(o)

LEMMA SameBook ==
    ASSUME book' = book, NEW o
    PROVE  Items(o)' = Items(o) /\ Mode(o)' = Mode(o)
BY DEF Items, Mode

LEMMA LeftStays ==
    ASSUME NEW o \in Orders, OrderOK(o), Left(o), book' = book
    PROVE  OrderOK(o)'
<1>1. Items(o)' = Items(o) /\ Mode(o)' = Mode(o)
  BY SameBook
<1>2. ItemsOK(o)'
  BY <1>1 DEF OrderOK, ItemsOK, Left
<1>3. pc[o] = "waiting" => current[o] \in Slots /\ gate'[<<o, current[o]>>] = gate[<<o, current[o]>>]
  BY DEF OrderOK, WaitOK, Left
<1>4. WaitOK(o)'
  BY <1>1, <1>3 DEF OrderOK, WaitOK, Left, Mine, Item
<1>5. AloneOK(o)'
  BY DEF OrderOK, AloneOK, Left
<1>6. FilesOK(o)'
  <2>1. SUFFICES ASSUME ~late[o] PROVE FilesOK(o)'
    BY DEF FilesOK, Left
  <2>2. ASSUME NEW i \in DOMAIN got[o]
        PROVE  got[o][i].path = Archived
               \/ (got[o][i].path \in DOMAIN files' /\ files'[got[o][i].path] = got[o][i].font)
    <3>1. got[o][i].path = Archived \/ got[o][i].path.order = o
      <4>1. \/ got[o][i].path = Archived
            \/ \E kind \in {"binary", "form", "reuse"} :
                  got[o][i].path = [order |-> o, kind |-> kind, item |-> got[o][i].item]
        BY DEF OrderOK, ItemsOK
      <4>2. ASSUME NEW kind, got[o][i].path = [order |-> o, kind |-> kind, item |-> got[o][i].item]
            PROVE  got[o][i].path.order = o
        BY <4>2
      <4> QED
        BY <4>1, <4>2
    <3>2. got[o][i].path = Archived
          \/ (got[o][i].path \in DOMAIN files /\ files[got[o][i].path] = got[o][i].font)
      BY <2>1 DEF OrderOK, FilesOK
    <3> QED
      BY <3>1, <3>2 DEF Left, FilesKept
  <2>3. ASSUME pc[o] = "waiting"
        PROVE  /\ gate[Mine(o)].pc \in {"judge", "published"} => GatePath(Mine(o)) \in DOMAIN files'
               /\ gate[Mine(o)].pc = "published" => files'[GatePath(Mine(o))] = Built(gate[Mine(o)])
    <3>1. GatePath(Mine(o)).order = o
      BY DEF GatePath, Mine
    <3> QED
      BY <2>1, <2>3, <3>1 DEF Left, FilesKept, OrderOK, FilesOK
  <2>4. ASSUME pc[o] = "waiting"
        PROVE  gate'[Mine(o)'] = gate[Mine(o)] /\ GatePath(Mine(o))' = GatePath(Mine(o)) /\ Mine(o)' = Mine(o)
    <3>1. Mine(o)' = Mine(o)
      BY DEF Mine, Left
    <3>2. gate'[Mine(o)'] = gate[Mine(o)]
      BY <1>3, <2>4, <3>1 DEF Mine
    <3> QED
      BY <3>1, <3>2 DEF GatePath
  <2>5. pc'[o] = pc[o] /\ got'[o] = got[o] /\ Archived' = Archived
    BY DEF Left, Archived
  <2> QED
    BY <2>2, <2>3, <2>4, <2>5 DEF FilesOK, Built
<1>7. OwnOK(o)'
  BY <1>1 DEF OrderOK, OwnOK, Left
<1> QED
  BY <1>2, <1>4, <1>5, <1>6, <1>7 DEF OrderOK

LEMMA ThreadStays ==
    ASSUME NEW t \in Threads, ThreadOK(t), gate'[t] = gate[t], book' = book
    PROVE  ThreadOK(t)'
<1>1. Mode(t[1])' = Mode(t[1])
  BY SameBook
<1> QED
  BY <1>1 DEF ThreadOK

LEMMA OffOK == ASSUME NEW t, gate'[t] = Off PROVE ThreadOK(t)'
BY DEF ThreadOK, Off

LEMMA StoresStay ==
    ASSUME StoresOK, memo' = memo, models' = models, archive' = archive
    PROVE  StoresOK'
BY DEF StoresOK

-----------------------------------------------------------------------------
(* An order fails *)

LEMMA CleanedKeeps ==
    ASSUME NEW o, NEW p, p # o, files' = Cleaned(o)
    PROVE  FilesKept(p)
BY DEF FilesKept, Cleaned, Restrict

LEMMA FailedOK ==
    ASSUME TypeOK, NEW o \in Orders, OrderOK(o), Fails(o), book' = book, delivered' = delivered,
           ~late'[o] => \A s \in Slots : gate'[<<o, s>>].pc = "off"
    PROVE  OrderOK(o)'
<1>1. pc'[o] = "failed" /\ got'[o] = << >>
  BY DEF Fails, TypeOK
<1>2. ItemsOK(o)'
  BY <1>1, EmptyOwn DEF ItemsOK
<1>3. WaitOK(o)' /\ AloneOK(o)'
  BY <1>1 DEF WaitOK, AloneOK
<1>4. FilesOK(o)'
  BY <1>1, EmptyOwn DEF FilesOK
<1>5. OwnOK(o)'
  BY SameBook DEF OrderOK, OwnOK
<1> QED
  BY <1>2, <1>3, <1>4, <1>5 DEF OrderOK

LEMMA FailedTypes ==
    ASSUME TypeOK, NEW o \in Orders, Fails(o), book' = book, delivered' = delivered, late' = late,
           DOMAIN gate' = Threads
    PROVE  TypeOK'
<1>1. /\ pc' \in [Orders -> Stages] /\ at' \in [Orders -> Nat \ {0}] /\ probe' \in [Orders -> Nat]
      /\ current' \in [Orders -> Slots \cup {0}]
  BY DEF Fails, TypeOK, Stages
<1>2. DOMAIN got' = Orders /\ \A p \in Orders : got'[p] \in Seq(Range(got'[p]))
  BY EmptyOwn DEF Fails, TypeOK
<1> QED
  BY <1>1, <1>2 DEF TypeOK

LEMMA FailedOthers ==
    ASSUME TypeOK, NEW o \in Orders, Fails(o), delivered' = delivered, late' = late,
           NEW p \in Orders, p # o, \A s \in Slots : gate'[<<p, s>>] = gate[<<p, s>>]
    PROVE  Left(p)
<1>1. FilesKept(p)
  BY CleanedKeeps DEF Fails
<1> QED
  BY <1>1 DEF Left, Fails, TypeOK

-----------------------------------------------------------------------------
(* An item is resolved *)

LEMMA ItemsShape ==
    ASSUME TypeOK, NEW o \in Orders
    PROVE  /\ Mode(o) \in Modes
           /\ Len(Items(o)) \in Nat \ {0} /\ DOMAIN Items(o) = 1..Len(Items(o))
           /\ \A i, j \in DOMAIN Items(o) : Items(o)[i] = Items(o)[j] => i = j
           /\ \A i \in DOMAIN Items(o) : Items(o)[i] = [style |-> Items(o)[i].style, fmt |-> Items(o)[i].fmt]
<1>1. book \in Books
  BY DEF TypeOK
<1>2. PICK items : items = book[o].items
  OBVIOUS
<1>3. /\ book[o].mode \in {"ORIGINAL", "VIETNAMESE"}
      /\ items \in Seq(Range(items)) /\ items # << >>
      /\ \A i, j \in DOMAIN items : items[i] = items[j] => i = j
      /\ \A i \in DOMAIN items : items[i] = [style |-> items[i].style, fmt |-> items[i].fmt]
  BY <1>1, <1>2, BooksAssumption
<1>4. Len(items) \in Nat \ {0} /\ DOMAIN items = 1..Len(items)
  BY <1>3
<1> QED
  BY <1>2, <1>3, <1>4 DEF Items, Mode, Modes

\* What the order then has.
Result(o, where, font, provenance) ==
    [path |-> where, font |-> font, provenance |-> provenance, item |-> Item(o)]

LEMMA ResolvedMoves ==
    ASSUME TypeOK, NEW o \in Orders, NEW where, NEW font, NEW provenance,
           Resolved(o, where, font, provenance)
    PROVE  /\ got' = [got EXCEPT ![o] = Append(@, Result(o, where, font, provenance))]
           /\ at' = [at EXCEPT ![o] = IF at[o] = Len(Items(o)) THEN 1 ELSE @ + 1]
           /\ pc' = [pc EXCEPT ![o] = IF at[o] = Len(Items(o)) THEN "archive" ELSE "item"]
           /\ probe' = [probe EXCEPT ![o] = 0] /\ current' = [current EXCEPT ![o] = 0]
BY DEF Resolved, Result

LEMMA ResolvedTypes ==
    ASSUME TypeOK, NEW o \in Orders, NEW where, NEW font, NEW provenance,
           Resolved(o, where, font, provenance),
           book' = book, delivered' = delivered, late' = late, DOMAIN gate' = Threads
    PROVE  TypeOK'
<1>1. /\ got' = [got EXCEPT ![o] = Append(@, Result(o, where, font, provenance))]
      /\ at' = [at EXCEPT ![o] = IF at[o] = Len(Items(o)) THEN 1 ELSE @ + 1]
      /\ pc' = [pc EXCEPT ![o] = IF at[o] = Len(Items(o)) THEN "archive" ELSE "item"]
      /\ probe' = [probe EXCEPT ![o] = 0] /\ current' = [current EXCEPT ![o] = 0]
  BY ResolvedMoves
<1>2. pc' \in [Orders -> Stages]
  BY <1>1 DEF TypeOK, Stages
<1>3. at' \in [Orders -> Nat \ {0}]
  <2>1. at \in [Orders -> Nat \ {0}]
    BY DEF TypeOK
  <2>2. at[o] + 1 \in Nat \ {0} /\ 1 \in Nat \ {0}
    BY <2>1
  <2> QED
    BY <1>1, <2>1, <2>2
<1>4. probe' \in [Orders -> Nat] /\ current' \in [Orders -> Slots \cup {0}]
  BY <1>1 DEF TypeOK
<1>5. DOMAIN got' = Orders /\ \A p \in Orders : got'[p] \in Seq(Range(got'[p]))
  <2>1. got'[o] = Append(got[o], Result(o, where, font, provenance))
        /\ \A p \in Orders : p # o => got'[p] = got[p]
    BY <1>1 DEF TypeOK
  <2>2. got'[o] \in Seq(Range(got'[o]))
    BY <2>1, AppendOwn DEF TypeOK
  <2> QED
    BY <1>1, <2>1, <2>2 DEF TypeOK
<1> QED
  BY <1>2, <1>3, <1>4, <1>5 DEF TypeOK

LEMMA ResolvedOK ==
    ASSUME TypeOK, NEW o \in Orders, OrderOK(o), pc[o] \in {"item", "tiers", "waiting"},
           NEW where, NEW font, NEW provenance, Resolved(o, where, font, provenance),
           Fits(font, Item(o), Mode(o)),
           where = Archived \/ \E kind \in {"binary", "form", "reuse"} : where = Path(o, kind),
           ~late[o] => where = Archived \/ (where \in DOMAIN files' /\ files'[where] = font),
           \A p \in DOMAIN files :
               p.order = o /\ p.item # Item(o) => p \in DOMAIN files' /\ files'[p] = files[p],
           book' = book, delivered' = delivered, late' = late,
           ~late[o] => \A s \in Slots : gate'[<<o, s>>].pc = "off"
    PROVE  OrderOK(o)'
<1> DEFINE r == Result(o, where, font, provenance)
<1>1. /\ got'[o] = Append(got[o], r)
      /\ at'[o] = IF at[o] = Len(Items(o)) THEN 1 ELSE at[o] + 1
      /\ pc'[o] = IF at[o] = Len(Items(o)) THEN "archive" ELSE "item"
  BY ResolvedMoves DEF TypeOK
<1>2. Items(o)' = Items(o) /\ Mode(o)' = Mode(o)
  BY SameBook
<1>3. at[o] \in DOMAIN Items(o) /\ Len(got[o]) = at[o] - 1 /\ DOMAIN Items(o) = 1..Len(Items(o))
      /\ Len(Items(o)) \in Nat /\ at[o] \in Nat
  BY ItemsShape DEF OrderOK, ItemsOK, TypeOK
<1>4. Len(got'[o]) = at[o] /\ DOMAIN got'[o] = 1..at[o] /\ DOMAIN got[o] = 1..at[o] - 1
      /\ (\A i \in 1..at[o] - 1 : got'[o][i] = got[o][i]) /\ got'[o][at[o]] = r
  <2>1. got[o] \in Seq(Range(got[o]))
    BY DEF TypeOK
  <2> HIDE DEF r
  <2>2. PICK a : a = Append(got[o], r)
    OBVIOUS
  <2>3. PICK n : n = Len(got[o])
    OBVIOUS
  <2>4. /\ Len(a) = n + 1 /\ n \in Nat /\ DOMAIN a = 1..n + 1 /\ DOMAIN got[o] = 1..n
        /\ (\A i \in 1..n : a[i] = got[o][i]) /\ a[n + 1] = r
    BY <2>1, <2>2, <2>3, AppendOwn
  <2>5. n = at[o] - 1 /\ n + 1 = at[o]
    BY <1>3, <2>3, <2>4
  <2> QED
    BY <1>1, <2>2, <2>4, <2>5
<1>5. r.item = Item(o) /\ r.font = font /\ r.path = where
  BY DEF Result
<1> HIDE DEF r
<1>6. Item(o) = Items(o)[at[o]]
  BY DEF Item
<1>7. where = Archived \/ \E kind \in {"binary", "form", "reuse"} :
                              where = [order |-> o, kind |-> kind, item |-> Item(o)]
  BY DEF Path
<1>8. ItemsOK(o)'
  <2>1. ASSUME pc'[o] = "item" PROVE at'[o] \in DOMAIN Items(o) /\ Len(got'[o]) = at'[o] - 1
    BY <1>1, <1>3, <1>4, <2>1
  <2>2. pc'[o] \in {"item", "archive"}
    BY <1>1
  <2>3. ASSUME NEW i \in DOMAIN got'[o]
        PROVE  /\ i \in DOMAIN Items(o) /\ got'[o][i].item = Items(o)[i]
               /\ Fits(got'[o][i].font, got'[o][i].item, Mode(o))
               /\ got'[o][i].path = Archived \/
                  \E kind \in {"binary", "form", "reuse"} :
                     got'[o][i].path = [order |-> o, kind |-> kind, item |-> got'[o][i].item]
    <3>1. CASE i = at[o]
      <4>1. got'[o][i] = r
        BY <1>4, <3>1
      <4> QED
        BY <1>3, <1>5, <1>6, <1>7, <3>1, <4>1
    <3>2. CASE i # at[o]
      <4>1. i \in DOMAIN got[o] /\ got'[o][i] = got[o][i]
        BY <1>3, <1>4, <3>2
      <4> QED
        BY <4>1 DEF OrderOK, ItemsOK
    <3> QED
      BY <3>1, <3>2
  <2>4. Archived' = Archived
    BY DEF Archived
  <2> QED
    BY <1>2, <2>1, <2>2, <2>3, <2>4 DEF ItemsOK
<1>9. WaitOK(o)' /\ AloneOK(o)'
  BY <1>1 DEF WaitOK, AloneOK
<1>10. FilesOK(o)'
  <2>1. SUFFICES ASSUME ~late[o] PROVE FilesOK(o)'
    BY DEF FilesOK
  <2>2. ASSUME NEW i \in DOMAIN got'[o]
        PROVE  got'[o][i].path = Archived
               \/ (got'[o][i].path \in DOMAIN files' /\ files'[got'[o][i].path] = got'[o][i].font)
    <3>1. CASE i = at[o]
      <4>1. got'[o][i] = r
        BY <1>4, <3>1
      <4> QED
        BY <1>5, <2>1, <4>1
    <3>2. CASE i # at[o]
      <4>1. i \in DOMAIN got[o] /\ got'[o][i] = got[o][i]
        BY <1>3, <1>4, <3>2
      <4>2. got[o][i].item = Items(o)[i] /\ i \in DOMAIN Items(o)
        BY <4>1 DEF OrderOK, ItemsOK
      <4>3. got[o][i].item # Item(o)
        BY <1>3, <1>6, <3>2, <4>2, ItemsShape
      <4>4. ASSUME got[o][i].path # Archived
            PROVE  got[o][i].path.order = o /\ got[o][i].path.item = got[o][i].item
        <5>1. PICK kind : got[o][i].path = [order |-> o, kind |-> kind, item |-> got[o][i].item]
          BY <4>1, <4>4 DEF OrderOK, ItemsOK
        <5> QED
          BY <5>1
      <4>5. got[o][i].path = Archived
            \/ (got[o][i].path \in DOMAIN files /\ files[got[o][i].path] = got[o][i].font)
        BY <2>1, <4>1 DEF OrderOK, FilesOK
      <4> QED
        BY <4>1, <4>3, <4>4, <4>5
    <3> QED
      BY <3>1, <3>2
  <2>3. pc'[o] # "waiting" /\ Archived' = Archived
    BY <1>1 DEF Archived
  <2> QED
    BY <2>2, <2>3 DEF FilesOK
<1>11. OwnOK(o)'
  BY <1>2 DEF OrderOK, OwnOK
<1> QED
  BY <1>8, <1>9, <1>10, <1>11 DEF OrderOK

\* The other orders, of a step that puts files of this one only.
LEMMA ResolvedOthers ==
    ASSUME TypeOK, NEW o \in Orders, NEW where, NEW font, NEW provenance,
           Resolved(o, where, font, provenance), delivered' = delivered, late' = late,
           NEW p \in Orders, p # o, \A s \in Slots : gate'[<<p, s>>] = gate[<<p, s>>], FilesKept(p)
    PROVE  Left(p)
<1>1. got'[p] = got[p] /\ at'[p] = at[p] /\ pc'[p] = pc[p] /\ probe'[p] = probe[p] /\ current'[p] = current[p]
  BY ResolvedMoves DEF TypeOK
<1> QED
  BY <1>1 DEF Left

-----------------------------------------------------------------------------
(* The compute thread: what fails, and what it finds *)

\* A step at one order: what is left to show of the rest.
LEMMA Assemble ==
    ASSUME IInv, NEW o \in Orders, TypeOK', StoresOK', OrderOK(o)', book' = book,
           \A t \in Threads : gate'[t] = gate[t] \/ ThreadOK(t)',
           \A p \in Orders : p # o => Left(p)
    PROVE  IInv'
<1>1. \A t \in Threads : ThreadOK(t)'
  BY ThreadStays DEF IInv
<1>2. ASSUME NEW p \in Orders, p # o PROVE OrderOK(p)'
  BY <1>2, LeftStays DEF IInv
<1> QED
  BY <1>1, <1>2 DEF IInv

\* A failure at which every thread stays.
LEMMA FailStep ==
    ASSUME IInv, NEW o \in Orders, Fails(o), UNCHANGED <<durable, memo, late, delivered, gate>>,
           late[o] \/ pc[o] # "waiting"
    PROVE  IInv'
<1>1. TypeOK /\ StoresOK /\ OrderOK(o)
  BY DEF IInv
<1>2. book' = book /\ models' = models /\ archive' = archive /\ memo' = memo /\ late' = late
      /\ delivered' = delivered /\ gate' = gate
  BY DEF durable
<1>3. TypeOK'
  BY <1>1, <1>2, FailedTypes DEF TypeOK
<1>4. StoresOK'
  BY <1>1, <1>2, StoresStay
<1>5. ~late'[o] => \A s \in Slots : gate'[<<o, s>>].pc = "off"
  BY <1>1, <1>2 DEF OrderOK, AloneOK
<1>6. OrderOK(o)'
  BY <1>1, <1>2, <1>5, FailedOK
<1>7. \A p \in Orders : p # o => Left(p)
  BY <1>1, <1>2, FailedOthers
<1> QED
  BY <1>2, <1>3, <1>4, <1>6, <1>7, Assemble

LEMMA WallHitStep == ASSUME IInv, NEW o \in Orders, WallHit(o) PROVE IInv'
BY FailStep DEF WallHit

LEMMA FitsByKey ==
    ASSUME NEW f, NEW k, NEW item, NEW mode, Fits(f, k, mode), k.style = item.style, k.fmt = item.fmt
    PROVE  Fits(f, item, mode)
BY DEF Fits

LEMMA TakeArchivedStep == ASSUME IInv, NEW o \in Orders, TakeArchived(o) PROVE IInv'
<1>1. TypeOK /\ StoresOK /\ OrderOK(o)
  BY DEF IInv
<1>2. book' = book /\ models' = models /\ archive' = archive /\ memo' = memo /\ late' = late
      /\ delivered' = delivered /\ gate' = gate /\ files' = files
  BY DEF TakeArchived, durable
<1> DEFINE n == Min(Hits(o, Item(o)))
           k == FontKey(Item(o), Mode(o), Provenances[n], "none")
           font == archive[k].font
<1>3. Resolved(o, Archived, font, "archive") /\ pc[o] = "item" /\ Hits(o, Item(o)) # {}
  BY DEF TakeArchived
<1>4. n \in Hits(o, Item(o))
  <2>1. Hits(o, Item(o)) \subseteq Nat
    BY DEF Hits, Provenances
  <2> QED
    BY <1>3, <2>1, MinIsOne
<1>5. k \in DOMAIN archive /\ archive[k].att = font
  BY <1>4 DEF Hits
<1>6. Fits(font, Item(o), Mode(o))
  <2>1. k.style = Item(o).style /\ k.fmt = Item(o).fmt /\ k.mode = Mode(o)
    BY DEF FontKey
  <2> HIDE DEF k
  <2>2. Fits(font, k, k.mode)
    BY <1>1, <1>5 DEF StoresOK
  <2> QED
    BY <2>1, <2>2, FitsByKey
<1> HIDE DEF font
<1>7. TypeOK'
  BY <1>1, <1>2, <1>3, ResolvedTypes DEF TypeOK
<1>8. StoresOK'
  BY <1>1, <1>2, StoresStay
<1>9. ~late[o] => \A s \in Slots : gate'[<<o, s>>].pc = "off"
  BY <1>1, <1>2, <1>3 DEF OrderOK, AloneOK
<1>10. OrderOK(o)'
  BY <1>1, <1>2, <1>3, <1>6, <1>9, ResolvedOK
<1>11. \A p \in Orders : p # o => Left(p)
  <2>1. ASSUME NEW p \in Orders, p # o PROVE Left(p)
    <3>1. FilesKept(p)
      BY <1>2 DEF FilesKept
    <3> QED
      BY <1>1, <1>2, <1>3, <2>1, <3>1, ResolvedOthers
  <2> QED
    BY <2>1
<1> QED
  BY <1>2, <1>7, <1>8, <1>10, <1>11, Assemble

\* A file that is put keeps the other orders' files and those of other items.
LEMMA PutKeeps ==
    ASSUME NEW path, NEW font, files' = Put(files, path, font)
    PROVE  /\ path \in DOMAIN files' /\ files'[path] = font
           /\ \A p \in DOMAIN files : p # path => p \in DOMAIN files' /\ files'[p] = files[p]
BY DEF Put

LEMMA TakeBinaryStep == ASSUME IInv, NEW o \in Orders, TakeBinary(o) PROVE IInv'
<1>1. TypeOK /\ StoresOK /\ OrderOK(o)
  BY DEF IInv
<1>2. pc[o] \in {"item", "tiers"}
  BY DEF TakeBinary, Missed
<1>3. book' = book /\ models' = models /\ archive' = archive /\ memo' = memo /\ late' = late
      /\ delivered' = delivered /\ gate' = gate
  BY DEF TakeBinary, durable
<1>4. CASE BinaryFor(o) # "good"
  <2>1. Fails(o) /\ UNCHANGED <<durable, memo, late, delivered, gate>>
    BY <1>4 DEF TakeBinary
  <2> QED
    BY <1>2, <2>1, FailStep
<1>5. CASE BinaryFor(o) = "good"
  <2> DEFINE where == Path(o, "binary")
             font == FromBinary(Item(o))
  <2>1. Resolved(o, where, font, "session") /\ files' = Put(files, where, font)
    BY <1>5 DEF TakeBinary
  <2>2. Mode(o) = "ORIGINAL"
    BY <1>5 DEF BinaryFor
  <2>3. Fits(font, Item(o), Mode(o))
    BY <2>2 DEF Fits, FromBinary
  <2>4. where.order = o /\ where.item = Item(o) /\ \E kind \in {"binary", "form", "reuse"} : where = Path(o, kind)
    BY DEF Path
  <2> HIDE DEF where, font
  <2>5. TypeOK'
    BY <1>1, <1>3, <2>1, ResolvedTypes DEF TypeOK
  <2>6. StoresOK'
    BY <1>1, <1>3, StoresStay
  <2>7. ~late[o] => \A s \in Slots : gate'[<<o, s>>].pc = "off"
    BY <1>1, <1>2, <1>3 DEF OrderOK, AloneOK
  <2>8. \A p \in DOMAIN files : p.order # o \/ p.item # Item(o) => p \in DOMAIN files' /\ files'[p] = files[p]
    BY <2>1, <2>4, PutKeeps
  <2>9. where \in DOMAIN files' /\ files'[where] = font
    BY <2>1, PutKeeps
  <2>10. OrderOK(o)'
    <3>1. pc[o] \in {"item", "tiers", "waiting"}
      BY <1>2
    <3>2. \A p \in DOMAIN files :
              p.order = o /\ p.item # Item(o) => p \in DOMAIN files' /\ files'[p] = files[p]
      BY <2>8
    <3> QED
      BY <1>1, <1>3, <2>1, <2>3, <2>4, <2>7, <2>9, <3>1, <3>2, ResolvedOK
  <2>11. \A p \in Orders : p # o => Left(p)
    <3>1. ASSUME NEW p \in Orders, p # o PROVE Left(p)
      <4>1. FilesKept(p)
        BY <2>8, <3>1 DEF FilesKept
      <4> QED
        BY <1>1, <1>3, <2>1, <3>1, <4>1, ResolvedOthers
    <3> QED
      BY <3>1
  <2> QED
    BY <1>3, <2>5, <2>6, <2>10, <2>11, Assemble
<1> QED
  BY <1>4, <1>5

-----------------------------------------------------------------------------
(* The compute thread: gates *)

\* A launch, with everything else of the order as it was but for the probe.
Launched(o, kind, c, by) ==
    /\ Launch(o, kind, c, by)
    /\ UNCHANGED <<book, archive, models, memo, at, late, got, delivered, files>>
    /\ probe' \in [Orders -> Nat] /\ \A p \in Orders : p # o => probe'[p] = probe[p]

LEMMA LaunchedStep ==
    ASSUME IInv, NEW o \in Orders, NEW kind \in {"form", "reuse"}, NEW c, NEW by, Launched(o, kind, c, by),
           pc[o] \in {"item", "tiers"}, c \in Collections, by \in Authors, StyleOf(c) = Item(o).style,
           Mode(o) = "ORIGINAL" => by = "none", kind = "reuse" => c \in Whole
    PROVE  IInv'
<1>1. TypeOK /\ StoresOK /\ OrderOK(o)
  BY DEF IInv
<1>2. book' = book /\ models' = models /\ archive' = archive /\ memo' = memo /\ late' = late
      /\ delivered' = delivered /\ files' = files /\ got' = got /\ at' = at
  BY DEF Launched
<1>3. PICK s \in Slots :
        /\ gate[<<o, s>>].pc = "off"
        /\ gate' = [gate EXCEPT ![<<o, s>>] =
                [Off EXCEPT !.pc = "load", !.kind = kind, !.col = c, !.by = by, !.fmt = Item(o).fmt,
                            !.mode = Mode(o), !.own = pc[o] = "tiers"]]
        /\ current' = [current EXCEPT ![o] = s]
        /\ pc' = [pc EXCEPT ![o] = "waiting"]
  BY DEF Launched, Launch
<1> DEFINE t == <<o, s>>
           g == [Off EXCEPT !.pc = "load", !.kind = kind, !.col = c, !.by = by, !.fmt = Item(o).fmt,
                            !.mode = Mode(o), !.own = pc[o] = "tiers"]
<1>4. g.pc = "load" /\ g.kind = kind /\ g.col = c /\ g.by = by /\ g.fmt = Item(o).fmt /\ g.mode = Mode(o)
      /\ DOMAIN g = DOMAIN Off
  BY DEF Off
<1> HIDE DEF g
<1>5. t \in Threads /\ DOMAIN gate = Threads
  BY <1>1 DEF Threads, TypeOK
<1>6. gate'[t] = g /\ (\A u \in Threads : u # t => gate'[u] = gate[u]) /\ DOMAIN gate' = Threads
  BY <1>3, <1>5 DEF g
<1>7. current'[o] = s /\ pc'[o] = "waiting"
      /\ \A p \in Orders : p # o => current'[p] = current[p] /\ pc'[p] = pc[p]
  BY <1>1, <1>3 DEF TypeOK
<1>8. TypeOK'
  <2>1. pc' \in [Orders -> Stages] /\ current' \in [Orders -> Slots \cup {0}]
    BY <1>1, <1>3 DEF TypeOK, Stages
  <2> QED
    BY <1>1, <1>2, <1>6, <2>1 DEF TypeOK, Launched
<1>9. StoresOK'
  BY <1>1, <1>2, StoresStay
<1>10. Items(o)' = Items(o) /\ Mode(o)' = Mode(o) /\ Item(o)' = Item(o)
  BY <1>2, SameBook DEF Item
<1>11. ThreadOK(t)'
  <2>1. t[1] = o
    OBVIOUS
  <2> HIDE DEF t
  <2> QED
    BY <1>4, <1>6, <1>10, <2>1 DEF ThreadOK, GateStages
<1>12. Mine(o)' = t
  BY <1>7 DEF Mine
<1> HIDE DEF t
<1>13. OrderOK(o)'
  <2>1. ItemsOK(o)'
    <3>1. Archived' = Archived
      BY DEF Archived
    <3> QED
      BY <1>1, <1>2, <1>7, <1>10, <3>1 DEF OrderOK, ItemsOK
  <2>2. WaitOK(o)'
    BY <1>4, <1>6, <1>7, <1>10, <1>12 DEF WaitOK
  <2>3. AloneOK(o)'
    <3>1. ASSUME ~late[o], NEW r \in Slots, r # s PROVE gate'[<<o, r>>].pc = "off"
      <4>1. gate[<<o, r>>].pc = "off"
        BY <1>1, <3>1 DEF OrderOK, AloneOK
      <4>2. gate'[<<o, r>>] = gate[<<o, r>>]
        BY <1>6, <3>1 DEF Threads, t
      <4> QED
        BY <4>1, <4>2
    <3> QED
      BY <1>2, <1>7, <3>1 DEF AloneOK
  <2>4. FilesOK(o)'
    <3>1. gate'[Mine(o)'].pc = "load" /\ Archived' = Archived
      BY <1>4, <1>6, <1>12 DEF Archived
    <3> QED
      BY <1>1, <1>2, <3>1 DEF OrderOK, FilesOK
  <2>5. OwnOK(o)'
    BY <1>1, <1>2, <1>10 DEF OrderOK, OwnOK
  <2> QED
    BY <2>1, <2>2, <2>3, <2>4, <2>5 DEF OrderOK
<1>14. ASSUME NEW p \in Orders, p # o PROVE Left(p)
  <2>1. \A r \in Slots : gate'[<<p, r>>] = gate[<<p, r>>]
    BY <1>6, <1>14 DEF Threads, t
  <2>2. probe'[p] = probe[p]
    BY <1>14 DEF Launched
  <2>3. FilesKept(p)
    BY <1>2 DEF FilesKept
  <2> QED
    BY <1>2, <1>7, <1>14, <2>1, <2>2, <2>3 DEF Left
<1> QED
  BY <1>2, <1>6, <1>8, <1>9, <1>11, <1>13, <1>14, Assemble

\* What is completed are collections.
LEMMA CompletedAre ==
    ASSUME NEW style, NEW n \in CompletedOf(style)
    PROVE  n \in Nat /\ Sorted[n] \in Collections /\ StyleOf(Sorted[n]) = style
BY GateConstants DEF CompletedOf

LEMMA TryModelStep == ASSUME IInv, NEW o \in Orders, TryModel(o) PROVE IInv'
<1>1. TypeOK /\ StoresOK
  BY DEF IInv
<1>2. pc[o] \in {"item", "tiers"}
  BY DEF TryModel, Missed
<1>3. NextProbe(o) # {} /\ NextProbe(o) \subseteq Nat
  <2>1. probe[o] \in Nat /\ Len(Sorted) * Len(Provenances) \in Int
    <3>1. Len(Sorted) \in Nat /\ Len(Provenances) \in Nat
      BY GateConstants DEF Provenances
    <3> QED
      BY <1>1, <3>1 DEF TypeOK
  <2> QED
    BY <2>1 DEF NextProbe, TryModel
<1>4. PICK i : i = Min(NextProbe(o))
  OBVIOUS
<1>5. i \in NextProbe(o) /\ i \in Nat
  BY <1>3, <1>4, MinIsOne
<1>6. PICK k : k = ProbeOf(o, i)
  OBVIOUS
<1>7. /\ Launch(o, "reuse", models[k].col, models[k].by)
      /\ probe' = [probe EXCEPT ![o] = i]
  BY <1>4, <1>6 DEF TryModel
<1>8. k \in DOMAIN models /\ Nth(i) \in CompletedOf(Item(o).style)
  BY <1>5, <1>6 DEF NextProbe
<1>9. k.col = Sorted[Nth(i)] /\ k.mode = Mode(o)
  BY <1>6 DEF ProbeOf, ModelKey
<1>10. StyleOf(k.col) = Item(o).style
  BY <1>8, <1>9, CompletedAre
<1>11. models[k].col = k.col /\ k.col \in Whole /\ models[k].by \in Authors
       /\ (Mode(o) = "ORIGINAL" => models[k].by = "none")
  BY <1>1, <1>8, <1>9 DEF StoresOK
<1>12. k.col \in Collections
  BY <1>11, WholeIsFormed
<1>13. Launched(o, "reuse", models[k].col, models[k].by)
  BY <1>1, <1>5, <1>7 DEF TryModel, durable, Launched, TypeOK
<1> QED
  BY <1>2, <1>10, <1>11, <1>12, <1>13, LaunchedStep

LEMMA GateStartStep == ASSUME IInv, NEW o \in Orders, Gate(o) PROVE IInv'
<1>1. TypeOK
  BY DEF IInv
<1>2. pc[o] \in {"item", "tiers"}
  BY DEF Gate, Missed
<1>3. UNCHANGED <<durable, memo, late, delivered>>
  BY DEF Gate
<1>4. CASE CompletedOf(Item(o).style) = {}
  BY <1>2, <1>3, <1>4, FailStep DEF Gate
<1>5. CASE CompletedOf(Item(o).style) # {}
  <2>1. PICK n : n = Min(CompletedOf(Item(o).style))
    OBVIOUS
  <2>2. n \in CompletedOf(Item(o).style)
    <3>1. CompletedOf(Item(o).style) \subseteq Nat
      BY CompletedAre
    <3> QED
      BY <1>5, <2>1, <3>1, MinIsOne
  <2>3. Sorted[n] \in Collections /\ StyleOf(Sorted[n]) = Item(o).style
    BY <2>2, CompletedAre
  <2>4. Launched(o, "form", Sorted[n], "none")
    BY <1>1, <1>3, <1>5, <2>1 DEF Gate, durable, Launched, TypeOK
  <2>5. "none" \in Authors
    BY DEF Authors
  <2> QED
    BY <1>2, <2>3, <2>4, <2>5, LaunchedStep
<1> QED
  BY <1>4, <1>5

-----------------------------------------------------------------------------
(* The compute thread: answers *)

LEMMA TakeAnswerStep == ASSUME IInv, NEW o \in Orders, TakeAnswer(o) PROVE IInv'
<1>1. TypeOK /\ StoresOK /\ OrderOK(o)
  BY DEF IInv
<1>2. pc[o] = "waiting" /\ gate[Mine(o)].pc = "published"
  BY DEF TakeAnswer
<1>3. book' = book /\ archive' = archive /\ memo' = memo /\ late' = late /\ delivered' = delivered
      /\ files' = files /\ gate' = [gate EXCEPT ![Mine(o)] = Off]
  BY DEF TakeAnswer
<1>4. PICK t \in Threads : t = Mine(o) /\ t[1] = o
  BY <1>1, <1>2 DEF OrderOK, WaitOK, Mine, Threads
<1>5. PICK g : g = gate[t]
  OBVIOUS
<1>6. /\ g.pc = "published" /\ g.kind \in {"form", "reuse"} /\ g.mode = Mode(o)
      /\ g.col \in Whole /\ g.by \in Authors /\ (Mode(o) = "ORIGINAL" => g.by = "none")
      /\ (Mode(o) # "ORIGINAL" => Usable[g.col][g.by])
  <2>1. ThreadOK(t) /\ g.pc = "published"
    BY <1>2, <1>4, <1>5 DEF IInv
  <2> QED
    BY <1>4, <1>5, <2>1 DEF ThreadOK
<1>7. StyleOf(g.col) = Item(o).style /\ g.fmt = Item(o).fmt
  BY <1>1, <1>2, <1>4, <1>5 DEF OrderOK, WaitOK
<1>8. PICK font : font = Built(g)
  OBVIOUS
<1>9. font.fmt = g.fmt /\ font.col = g.col /\ font.by = g.by
  BY <1>8 DEF Built, FromModel
<1>10. Fits(font, Item(o), Mode(o))
  <2>1. g.by # "binary"
    BY <1>6 DEF Authors
  <2> QED
    BY <1>6, <1>7, <1>9, <2>1 DEF Fits
<1>11. PICK where : where = Path(o, g.kind)
  OBVIOUS
<1>12. GatePath(t) = where
  <2>1. Item(o) = [style |-> Item(o).style, fmt |-> Item(o).fmt]
    BY <1>1, <1>2, ItemsShape DEF OrderOK, ItemsOK, Item
  <2>2. GatePath(t) = [order |-> t[1], kind |-> gate[t].kind,
                       item |-> [style |-> StyleOf(gate[t].col), fmt |-> gate[t].fmt]]
    BY DEF GatePath
  <2>3. where = [order |-> o, kind |-> g.kind, item |-> Item(o)]
    BY <1>11 DEF Path
  <2> QED
    BY <1>4, <1>5, <1>7, <2>1, <2>2, <2>3, Zenon
<1>13. ~late[o] => where \in DOMAIN files /\ files[where] = font
  <2>1. ~late[o] => GatePath(t) \in DOMAIN files /\ files[GatePath(t)] = Built(gate[t])
    BY <1>1, <1>2, <1>4 DEF OrderOK, FilesOK
  <2> QED
    BY <1>5, <1>8, <1>12, <2>1, Zenon
<1>14. PICK provenance :
         /\ Resolved(o, where, font, provenance)
         /\ models' = IF g.kind = "form"
                      THEN Put(models, ModelKey(g.col, g.mode, provenance), [col |-> g.col, by |-> g.by])
                      ELSE models
  BY <1>4, <1>5, <1>8, <1>11 DEF TakeAnswer
<1>15. DOMAIN gate = Threads
  BY <1>1 DEF TypeOK
<1>16. DOMAIN gate' = Threads /\ gate'[t] = Off /\ \A u \in Threads : u # t => gate'[u] = gate[u]
  BY <1>3, <1>4, <1>15
<1>17. TypeOK'
  BY <1>1, <1>3, <1>14, <1>16, ResolvedTypes
<1>18. StoresOK'
  <2>1. PICK key : key = ModelKey(g.col, g.mode, provenance)
    OBVIOUS
  <2>2. key.col = g.col /\ key.mode = g.mode
    BY <2>1 DEF ModelKey
  <2>3. PICK row : row = [col |-> g.col, by |-> g.by]
    OBVIOUS
  <2>4. row.col = g.col /\ row.by = g.by
    BY <2>3
  <2>5. models' = models \/ models' = Put(models, key, row)
    BY <1>14, <2>1, <2>3
  <2>6. ASSUME NEW k \in DOMAIN models'
        PROVE  (k \in DOMAIN models /\ models'[k] = models[k]) \/ (k = key /\ models'[k] = row)
    BY <2>5 DEF Put
  <2>7. ASSUME NEW k \in DOMAIN models'
        PROVE  /\ models'[k].col = k.col /\ k.col \in Whole /\ models'[k].by \in Authors
               /\ k.mode = "ORIGINAL" => models'[k].by = "none"
    <3>1. CASE k \in DOMAIN models /\ models'[k] = models[k]
      BY <1>1, <3>1 DEF StoresOK
    <3>2. CASE k = key /\ models'[k] = row
      BY <1>6, <2>2, <2>4, <3>2
    <3> QED
      BY <2>6, <3>1, <3>2
  <2> QED
    BY <1>1, <1>3, <2>7 DEF StoresOK
<1>19. \A s \in Slots : ~late[o] => gate'[<<o, s>>].pc = "off"
  <2>1. ASSUME NEW s \in Slots, ~late[o] PROVE gate'[<<o, s>>].pc = "off"
    <3>1. CASE <<o, s>> = t
      BY <1>16, <3>1 DEF Off
    <3>2. CASE <<o, s>> # t
      <4>1. gate'[<<o, s>>] = gate[<<o, s>>]
        BY <1>16, <3>2 DEF Threads
      <4>2. current[o] # s
        BY <1>4, <3>2 DEF Mine
      <4> QED
        BY <1>1, <2>1, <4>1, <4>2 DEF OrderOK, AloneOK
    <3> QED
      BY <3>1, <3>2
  <2> QED
    BY <2>1
<1>20. OrderOK(o)'
  <2>1. \A p \in DOMAIN files :
            p.order = o /\ p.item # Item(o) => p \in DOMAIN files' /\ files'[p] = files[p]
    BY <1>3
  <2>2. \E kind \in {"binary", "form", "reuse"} : where = Path(o, kind)
    BY <1>6, <1>11
  <2>3. ~late[o] => where = Archived \/ (where \in DOMAIN files' /\ files'[where] = font)
    BY <1>3, <1>13
  <2>4. ~late[o] => \A s \in Slots : gate'[<<o, s>>].pc = "off"
    BY <1>19
  <2>5. pc[o] \in {"item", "tiers", "waiting"}
    BY <1>2
  <2> QED
    BY <1>1, <1>3, <1>10, <1>14, <2>1, <2>2, <2>3, <2>4, <2>5, ResolvedOK
<1>21. ASSUME NEW p \in Orders, p # o PROVE Left(p)
  <2>1. \A s \in Slots : gate'[<<p, s>>] = gate[<<p, s>>]
    BY <1>4, <1>16, <1>21 DEF Threads
  <2>2. FilesKept(p)
    BY <1>3 DEF FilesKept
  <2> QED
    BY <1>1, <1>3, <1>14, <1>21, <2>1, <2>2, ResolvedOthers
<1>22. \A u \in Threads : gate'[u] = gate[u] \/ ThreadOK(u)'
  BY <1>16, OffOK
<1> QED
  BY <1>3, <1>17, <1>18, <1>20, <1>21, <1>22, Assemble

\* The next tier, with the threads nobody waits for off unless the wall is hit.
LEMMA NextTierStep ==
    ASSUME IInv, NEW o \in Orders, pc[o] = "waiting",
           pc' = [pc EXCEPT ![o] = "tiers"], current' = [current EXCEPT ![o] = 0],
           UNCHANGED <<durable, memo, at, probe, late, got, delivered, files>>,
           DOMAIN gate' = Threads,
           \A u \in Threads : gate'[u] = gate[u] \/ gate'[u] = Off,
           \A u \in Threads : u[1] # o => gate'[u] = gate[u],
           ~late[o] => \A s \in Slots : gate'[<<o, s>>].pc = "off"
    PROVE  IInv'
<1>1. TypeOK /\ StoresOK /\ OrderOK(o)
  BY DEF IInv
<1>2. book' = book /\ models' = models /\ archive' = archive /\ memo' = memo /\ late' = late
      /\ delivered' = delivered /\ files' = files /\ got' = got /\ at' = at /\ probe' = probe
  BY DEF durable
<1>3. pc'[o] = "tiers" /\ \A p \in Orders : p # o => current'[p] = current[p] /\ pc'[p] = pc[p]
  BY <1>1 DEF TypeOK
<1>4. TypeOK'
  <2>1. pc' \in [Orders -> Stages] /\ current' \in [Orders -> Slots \cup {0}]
    BY <1>1 DEF TypeOK, Stages
  <2> QED
    BY <1>1, <1>2, <2>1 DEF TypeOK
<1>5. StoresOK'
  BY <1>1, <1>2, StoresStay
<1>6. OrderOK(o)'
  <2>1. Items(o)' = Items(o) /\ Mode(o)' = Mode(o) /\ Archived' = Archived
    BY <1>2, SameBook DEF Archived
  <2>2. ItemsOK(o)'
    <3>1. at[o] \in DOMAIN Items(o) /\ Len(got[o]) = at[o] - 1
      BY <1>1 DEF OrderOK, ItemsOK
    <3>2. at'[o] = at[o] /\ got'[o] = got[o]
      BY <1>2
    <3> QED
      BY <1>1, <2>1, <3>1, <3>2, Zenon DEF OrderOK, ItemsOK
  <2>3. WaitOK(o)'
    BY <1>3 DEF WaitOK
  <2>4. AloneOK(o)'
    BY <1>2 DEF AloneOK
  <2>5. FilesOK(o)'
    BY <1>1, <1>2, <1>3, <2>1 DEF OrderOK, FilesOK
  <2>6. OwnOK(o)'
    BY <1>1, <1>2, <2>1 DEF OrderOK, OwnOK
  <2> QED
    BY <2>2, <2>3, <2>4, <2>5, <2>6 DEF OrderOK
<1>7. ASSUME NEW p \in Orders, p # o PROVE Left(p)
  <2>1. \A s \in Slots : gate'[<<p, s>>] = gate[<<p, s>>]
    BY <1>7 DEF Threads
  <2>2. FilesKept(p)
    BY <1>2 DEF FilesKept
  <2> QED
    BY <1>2, <1>3, <1>7, <2>1, <2>2 DEF Left
<1>8. \A u \in Threads : gate'[u] = gate[u] \/ ThreadOK(u)'
  BY OffOK
<1> QED
  BY <1>2, <1>4, <1>5, <1>6, <1>7, <1>8, Assemble

LEMMA AbandonStep == ASSUME IInv, NEW o \in Orders, Abandon(o) PROVE IInv'
<1>1. pc[o] = "waiting" /\ late[o] /\ NotPublished(o) /\ UNCHANGED <<durable, memo, late, delivered, gate>>
  BY DEF Abandon
<1>2. CASE gate[Mine(o)].kind = "reuse"
  <2>1. pc' = [pc EXCEPT ![o] = "tiers"] /\ current' = [current EXCEPT ![o] = 0]
        /\ UNCHANGED <<probe, got, at, files>>
    BY <1>1, <1>2 DEF NotPublished
  <2>2. DOMAIN gate' = Threads
    BY <1>1 DEF IInv, TypeOK
  <2> QED
    BY <1>1, <2>1, <2>2, NextTierStep
<1>3. CASE gate[Mine(o)].kind # "reuse"
  BY <1>1, <1>3, FailStep DEF NotPublished
<1> QED
  BY <1>2, <1>3

LEMMA RefusedStep == ASSUME IInv, NEW o \in Orders, Refused(o) PROVE IInv'
<1>1. TypeOK /\ StoresOK /\ OrderOK(o)
  BY DEF IInv
<1>2. pc[o] = "waiting" /\ NotPublished(o) /\ UNCHANGED <<durable, memo, late, delivered>>
      /\ gate' = [gate EXCEPT ![Mine(o)] = Off]
  BY DEF Refused
<1>3. PICK t \in Threads : t = Mine(o) /\ t[1] = o
  BY <1>1, <1>2 DEF OrderOK, WaitOK, Mine, Threads
<1>4. DOMAIN gate = Threads
  BY <1>1 DEF TypeOK
<1>5. DOMAIN gate' = Threads /\ gate'[t] = Off /\ \A u \in Threads : u # t => gate'[u] = gate[u]
  BY <1>2, <1>3, <1>4
<1>6. ~late[o] => \A s \in Slots : gate'[<<o, s>>].pc = "off"
  <2>1. ASSUME NEW s \in Slots, ~late[o] PROVE gate'[<<o, s>>].pc = "off"
    <3>1. CASE <<o, s>> = t
      BY <1>5, <3>1 DEF Off
    <3>2. CASE <<o, s>> # t
      <4>1. gate'[<<o, s>>] = gate[<<o, s>>]
        BY <1>5, <3>2 DEF Threads
      <4>2. current[o] # s
        BY <1>3, <3>2 DEF Mine
      <4> QED
        BY <1>1, <2>1, <4>1, <4>2 DEF OrderOK, AloneOK
    <3> QED
      BY <3>1, <3>2
  <2> QED
    BY <2>1
<1>7. CASE gate[Mine(o)].kind = "reuse"
  <2>1. pc' = [pc EXCEPT ![o] = "tiers"] /\ current' = [current EXCEPT ![o] = 0]
        /\ UNCHANGED <<probe, got, at, files>>
    BY <1>2, <1>7 DEF NotPublished
  <2>2. \A u \in Threads : u[1] # o => gate'[u] = gate[u]
    BY <1>3, <1>5
  <2>3. \A u \in Threads : gate'[u] = gate[u] \/ gate'[u] = Off
    BY <1>5
  <2> QED
    BY <1>2, <1>5, <1>6, <2>1, <2>2, <2>3, NextTierStep
<1>8. CASE gate[Mine(o)].kind # "reuse"
  <2>1. Fails(o)
    BY <1>2, <1>8 DEF NotPublished
  <2>2. book' = book /\ models' = models /\ archive' = archive /\ memo' = memo /\ late' = late
        /\ delivered' = delivered
    BY <1>2 DEF durable
  <2>3. TypeOK'
    BY <1>1, <1>5, <2>1, <2>2, FailedTypes
  <2>4. StoresOK'
    BY <1>1, <2>2, StoresStay
  <2>5. OrderOK(o)'
    BY <1>1, <1>6, <2>1, <2>2, FailedOK
  <2>6. ASSUME NEW p \in Orders, p # o PROVE Left(p)
    <3>1. \A s \in Slots : gate'[<<p, s>>] = gate[<<p, s>>]
      BY <1>3, <1>5, <2>6 DEF Threads
    <3> QED
      BY <1>1, <2>1, <2>2, <2>6, <3>1, FailedOthers
  <2>7. \A u \in Threads : gate'[u] = gate[u] \/ ThreadOK(u)'
    BY <1>5, OffOK
  <2> QED
    BY <2>2, <2>3, <2>4, <2>5, <2>6, <2>7, Assemble
<1> QED
  BY <1>7, <1>8

-----------------------------------------------------------------------------
(* The compute thread: the archive and the package, and the wall *)

LEMMA ArchiveStep == ASSUME IInv, NEW o \in Orders, Archive(o) PROVE IInv'
<1>1. TypeOK /\ StoresOK /\ OrderOK(o)
  BY DEF IInv
<1>2. UNCHANGED <<book, completed, models, memo, pc, probe, late, current, got, delivered, gate, files, crashes>>
      /\ at' = [at EXCEPT ![o] = @ + 1] /\ pc[o] = "archive" /\ at[o] <= Len(got[o])
  BY DEF Archive
<1>3. at' \in [Orders -> Nat \ {0}] /\ \A p \in Orders : p # o => at'[p] = at[p]
  <2>1. at \in [Orders -> Nat \ {0}]
    BY <1>1 DEF TypeOK
  <2>2. at[o] + 1 \in Nat \ {0}
    BY <2>1
  <2> QED
    BY <1>2, <2>1, <2>2
<1>4. TypeOK'
  BY <1>1, <1>2, <1>3 DEF TypeOK
<1>5. StoresOK'
  <2>1. PICK r : r = got[o][at[o]]
    OBVIOUS
  <2>2. Fits(r.font, r.item, Mode(o))
    <3>1. at[o] \in 1..Len(got[o]) /\ 1..Len(got[o]) = DOMAIN got[o]
      <4>1. got[o] \in Seq(Range(got[o])) /\ at[o] \in Nat \ {0}
        BY <1>1 DEF TypeOK
      <4>2. Len(got[o]) \in Nat /\ 1..Len(got[o]) = DOMAIN got[o]
        BY <4>1
      <4> QED
        BY <1>2, <4>1, <4>2
    <3> QED
      BY <1>1, <2>1, <3>1 DEF OrderOK, ItemsOK
  <2>3. PICK k, kept : /\ k.style = r.item.style /\ k.fmt = r.item.fmt /\ k.mode = Mode(o)
                       /\ archive' = archive \/ archive' = Put(archive, k, [font |-> kept, att |-> r.font])
    <3>1. PICK by : TRUE /\ by = IF r.font.by = "binary" THEN "none" ELSE r.font.by
      OBVIOUS
    <3>2. PICK k : k = FontKey(r.item, Mode(o), r.provenance, by)
      OBVIOUS
    <3>3. PICK kept : kept = IF k \in DOMAIN archive THEN archive[k].font ELSE InFile(r)
      OBVIOUS
    <3>4. archive' = IF r.path = Archived THEN archive ELSE Put(archive, k, [font |-> kept, att |-> r.font])
      BY <2>1, <3>1, <3>2, <3>3 DEF Archive
    <3>5. k.style = r.item.style /\ k.fmt = r.item.fmt /\ k.mode = Mode(o)
      BY <3>2 DEF FontKey
    <3> QED
      BY <3>4, <3>5
  <2>4. ASSUME NEW x \in DOMAIN archive' PROVE Fits(archive'[x].att, x, x.mode)
    <3>1. CASE x \in DOMAIN archive /\ archive'[x] = archive[x]
      BY <1>1, <3>1 DEF StoresOK
    <3>2. CASE x = k /\ archive'[x] = [font |-> kept, att |-> r.font]
      <4>1. archive'[x].att = r.font
        BY <3>2
      <4>2. Fits(r.font, k, Mode(o))
        BY <2>2, <2>3, FitsByKey
      <4> QED
        BY <2>3, <3>2, <4>1, <4>2
    <3> QED
      BY <2>3, <3>1, <3>2 DEF Put
  <2> QED
    BY <1>1, <1>2, <2>4 DEF StoresOK
<1>6. OrderOK(o)'
  <2>1. Items(o)' = Items(o) /\ Mode(o)' = Mode(o) /\ Archived' = Archived
    BY <1>2, SameBook DEF Archived
  <2>2. ItemsOK(o)' /\ WaitOK(o)' /\ AloneOK(o)'
    BY <1>1, <1>2, <2>1 DEF OrderOK, ItemsOK, WaitOK, AloneOK
  <2>3. FilesOK(o)'
    BY <1>1, <1>2, <2>1 DEF OrderOK, FilesOK
  <2>4. OwnOK(o)'
    BY <1>1, <1>2, <2>1 DEF OrderOK, OwnOK
  <2> QED
    BY <2>2, <2>3, <2>4 DEF OrderOK
<1>7. ASSUME NEW p \in Orders, p # o PROVE Left(p)
  BY <1>2, <1>3, <1>7 DEF Left, FilesKept
<1> QED
  BY <1>2, <1>4, <1>5, <1>6, <1>7, Assemble

LEMMA PackageStep == ASSUME IInv, NEW o \in Orders, Package(o) PROVE IInv'
<1>1. TypeOK /\ StoresOK /\ OrderOK(o)
  BY DEF IInv
<1>2. /\ pc[o] = "archive" /\ ~late[o]
      /\ delivered' = [delivered EXCEPT ![o] = [i \in DOMAIN got[o] |->
            [font |-> InFile(got[o][i]), judged |-> got[o][i].font, item |-> got[o][i].item]]]
      /\ pc' = [pc EXCEPT ![o] = "packaged"]
      /\ got' = [got EXCEPT ![o] = <<>>] /\ at' = [at EXCEPT ![o] = 1]
      /\ files' = Cleaned(o)
  BY DEF Package
<1>3. book' = book /\ models' = models /\ archive' = archive /\ memo' = memo /\ late' = late
      /\ gate' = gate /\ probe' = probe /\ current' = current
  BY DEF Package, durable
<1>4. pc'[o] = "packaged" /\ got'[o] = << >>
  BY <1>1, <1>2 DEF TypeOK
<1>5. TypeOK'
  <2>1. pc' \in [Orders -> Stages] /\ at' \in [Orders -> Nat \ {0}]
    BY <1>1, <1>2 DEF TypeOK, Stages
  <2>2. DOMAIN got' = Orders /\ \A p \in Orders : got'[p] \in Seq(Range(got'[p]))
    BY <1>1, <1>2, EmptyOwn DEF TypeOK
  <2>3. DOMAIN delivered' = Orders
    BY <1>1, <1>2 DEF TypeOK
  <2> QED
    BY <1>1, <1>3, <2>1, <2>2, <2>3 DEF TypeOK
<1>6. StoresOK'
  BY <1>1, <1>3, StoresStay
<1>7. OrderOK(o)'
  <2>1. Items(o)' = Items(o) /\ Mode(o)' = Mode(o)
    BY <1>3, SameBook
  <2>2. ItemsOK(o)'
    BY <1>4, EmptyOwn DEF ItemsOK
  <2>3. WaitOK(o)'
    BY <1>4 DEF WaitOK
  <2>4. AloneOK(o)'
    BY <1>1, <1>2, <1>3 DEF OrderOK, AloneOK
  <2>5. FilesOK(o)'
    BY <1>4, EmptyOwn DEF FilesOK
  <2>6. OwnOK(o)'
    <3>1. delivered'[o] = [i \in DOMAIN got[o] |->
              [font |-> InFile(got[o][i]), judged |-> got[o][i].font, item |-> got[o][i].item]]
      BY <1>1, <1>2 DEF TypeOK
    <3>2. ASSUME NEW i \in DOMAIN got[o]
          PROVE  /\ delivered'[o][i].font = delivered'[o][i].judged
                 /\ Fits(delivered'[o][i].font, delivered'[o][i].item, Mode(o))
      <4>1. InFile(got[o][i]) = got[o][i].font
        BY <1>1, <1>2 DEF OrderOK, FilesOK, InFile
      <4>2. Fits(got[o][i].font, got[o][i].item, Mode(o))
        BY <1>1 DEF OrderOK, ItemsOK
      <4>3. /\ delivered'[o][i].font = InFile(got[o][i]) /\ delivered'[o][i].judged = got[o][i].font
            /\ delivered'[o][i].item = got[o][i].item
        BY <3>1
      <4> QED
        BY <4>1, <4>2, <4>3
    <3> QED
      BY <2>1, <3>1, <3>2 DEF OwnOK
  <2> QED
    BY <2>2, <2>3, <2>4, <2>5, <2>6 DEF OrderOK
<1>8. ASSUME NEW p \in Orders, p # o PROVE Left(p)
  <2>1. FilesKept(p)
    BY <1>2, <1>8, CleanedKeeps
  <2> QED
    BY <1>1, <1>2, <1>3, <1>8, <2>1 DEF Left, TypeOK
<1> QED
  BY <1>3, <1>5, <1>6, <1>7, <1>8, Assemble

LEMMA WallStep == ASSUME IInv, NEW o \in Orders, Wall(o) PROVE IInv'
<1>1. TypeOK /\ StoresOK /\ OrderOK(o)
  BY DEF IInv
<1>2. late' = [late EXCEPT ![o] = TRUE]
      /\ UNCHANGED <<book, models, archive, memo, pc, at, probe, current, got, delivered, gate, files>>
  BY DEF Wall, durable
<1>3. TypeOK'
  BY <1>1, <1>2 DEF TypeOK
<1>4. StoresOK'
  BY <1>1, <1>2, StoresStay
<1>5. late'[o]
  BY <1>1, <1>2 DEF TypeOK
<1>6. OrderOK(o)'
  <2>1. Items(o)' = Items(o) /\ Mode(o)' = Mode(o) /\ Archived' = Archived /\ Mine(o)' = Mine(o)
        /\ Item(o)' = Item(o)
    BY <1>2, SameBook DEF Archived, Mine, Item
  <2>2. ItemsOK(o)' /\ WaitOK(o)'
    BY <1>1, <1>2, <2>1 DEF OrderOK, ItemsOK, WaitOK
  <2>3. AloneOK(o)' /\ FilesOK(o)'
    BY <1>5 DEF AloneOK, FilesOK
  <2>4. OwnOK(o)'
    BY <1>1, <1>2, <2>1 DEF OrderOK, OwnOK
  <2> QED
    BY <2>2, <2>3, <2>4 DEF OrderOK
<1>7. ASSUME NEW p \in Orders, p # o PROVE Left(p)
  BY <1>1, <1>2, <1>7 DEF Left, FilesKept, TypeOK
<1> QED
  BY <1>2, <1>3, <1>4, <1>6, <1>7, Assemble

LEMMA CrashStep == ASSUME IInv, Crash PROVE IInv'
<1>1. TypeOK /\ StoresOK /\ \A o \in Orders : OrderOK(o)
  BY DEF IInv
<1>2. /\ memo' = <<>> /\ gate' = [t \in Threads |-> Off]
      /\ pc' = [o \in Orders |-> IF Idle[o] THEN pc[o] ELSE "item"]
      /\ at' = [o \in Orders |-> 1] /\ probe' = [o \in Orders |-> 0]
      /\ late' = [o \in Orders |-> FALSE] /\ current' = [o \in Orders |-> 0]
      /\ got' = [o \in Orders |-> <<>>]
      /\ UNCHANGED <<book, archive, models, delivered>>
  BY DEF Crash
<1>3. ASSUME NEW o \in Orders PROVE pc'[o] \in {"item", "packaged", "failed"}
  BY <1>2 DEF Idle
<1>4. TypeOK'
  <2>1. pc' \in [Orders -> Stages]
    BY <1>2, <1>3 DEF Stages
  <2>2. DOMAIN got' = Orders /\ \A p \in Orders : got'[p] \in Seq(Range(got'[p]))
    BY <1>2, EmptyOwn
  <2> QED
    BY <1>1, <1>2, <2>1, <2>2 DEF TypeOK
<1>5. StoresOK'
  BY <1>1, <1>2 DEF StoresOK
<1>6. ASSUME NEW t \in Threads PROVE ThreadOK(t)'
  BY <1>2, OffOK
<1>7. ASSUME NEW o \in Orders PROVE OrderOK(o)'
  <2>1. Items(o)' = Items(o) /\ Mode(o)' = Mode(o)
    BY <1>2, SameBook
  <2>2. at'[o] = 1 /\ got'[o] = << >>
    BY <1>2
  <2>3. ItemsOK(o)'
    BY <1>1, <2>1, <2>2, ItemsShape, EmptyOwn DEF ItemsOK
  <2>4. WaitOK(o)'
    BY <1>3 DEF WaitOK
  <2>5. AloneOK(o)'
    BY <1>2 DEF AloneOK, Threads, Off
  <2>6. FilesOK(o)'
    BY <1>3, <2>2, EmptyOwn DEF FilesOK
  <2>7. OwnOK(o)'
    BY <1>1, <1>2, <2>1 DEF OrderOK, OwnOK
  <2> QED
    BY <2>3, <2>4, <2>5, <2>6, <2>7 DEF OrderOK
<1> QED
  BY <1>4, <1>5, <1>6, <1>7 DEF IInv

-----------------------------------------------------------------------------
(* A gate thread *)

\* A step of a thread: it goes on with the font it was at, or is dropped when nobody waits for it,
\* and writes no file but its own, which it has written when it comes to be judged.
Works(t, g) ==
    /\ gate' = [gate EXCEPT ![t] = g]
    /\ UNCHANGED <<durable, thread, crashes>>
    /\ gate[t].pc /= "off"
    /\ ~Abandoned(t) =>
            g.pc /= "off" /\ g.col = gate[t].col /\ g.fmt = gate[t].fmt /\ g.kind = gate[t].kind
    /\ \A p \in DOMAIN files : p /= GatePath(t) => p \in DOMAIN files' /\ files'[p] = files[p]
    /\ ~late[t[1]] =>
            /\ g.pc \in {"judge", "published"} => GatePath(t) \in DOMAIN files'
            /\ g.pc = "published" => files'[GatePath(t)] = Built(g)

LEMMA WorksStep ==
    ASSUME IInv, NEW t \in Threads, NEW g, Works(t, g), ThreadOK(t)', StoresOK'
    PROVE  IInv'
<1>1. PICK o \in Orders, s \in Slots : t = <<o, s>>
  BY DEF Threads
<1>2. TypeOK /\ OrderOK(o)
  BY DEF IInv
<1>3. UNCHANGED <<book, pc, at, probe, late, current, got, delivered>>
  BY DEF Works, durable, thread
<1>4. gate'[t] = g /\ (\A u \in Threads : u # t => gate'[u] = gate[u]) /\ DOMAIN gate' = Threads
  BY <1>2 DEF Works, TypeOK
<1>5. TypeOK'
  BY <1>2, <1>3, <1>4 DEF TypeOK
<1>6. GatePath(t).order = o /\ t[1] = o /\ t[2] = s
  BY <1>1 DEF GatePath
<1>7. ASSUME NEW p \in Orders, p # o PROVE Left(p)
  <2>1. \A r \in Slots : gate'[<<p, r>>] = gate[<<p, r>>]
    BY <1>1, <1>4, <1>7 DEF Threads
  <2>2. FilesKept(p)
    BY <1>6, <1>7 DEF Works, FilesKept
  <2> QED
    BY <1>3, <2>1, <2>2 DEF Left
<1>8. Items(o)' = Items(o) /\ Mode(o)' = Mode(o) /\ Archived' = Archived /\ Mine(o)' = Mine(o)
      /\ Item(o)' = Item(o)
  BY <1>3, SameBook DEF Archived, Mine, Item
<1>9. ItemsOK(o)'
  BY <1>2, <1>3, <1>8 DEF OrderOK, ItemsOK
<1>10. WaitOK(o)'
  <2>1. SUFFICES ASSUME pc[o] = "waiting" PROVE WaitOK(o)'
    BY <1>3 DEF WaitOK
  <2>2. /\ current[o] \in Slots /\ gate[Mine(o)].pc /= "off"
        /\ StyleOf(gate[Mine(o)].col) = Item(o).style /\ gate[Mine(o)].fmt = Item(o).fmt
    BY <1>2, <2>1 DEF OrderOK, WaitOK
  <2>3. CASE Mine(o) = t
    <3>1. ~Abandoned(t)
      BY <1>6, <2>3 DEF Mine, Abandoned
    <3>2. gate'[Mine(o)].pc /= "off" /\ gate'[Mine(o)].col = gate[Mine(o)].col
          /\ gate'[Mine(o)].fmt = gate[Mine(o)].fmt
      BY <1>4, <2>3, <3>1 DEF Works
    <3> QED
      BY <1>3, <1>8, <2>2, <3>2 DEF WaitOK
  <2>4. CASE Mine(o) # t
    <3>1. Mine(o) \in Threads
      BY <2>2 DEF Mine, Threads
    <3>2. gate'[Mine(o)] = gate[Mine(o)]
      BY <1>4, <2>4, <3>1
    <3> QED
      BY <1>3, <1>8, <2>2, <3>2 DEF WaitOK
  <2> QED
    BY <2>3, <2>4
<1>11. AloneOK(o)'
  <2>1. ASSUME ~late[o], NEW r \in Slots, gate'[<<o, r>>].pc # "off" PROVE pc[o] = "waiting" /\ current[o] = r
    <3>1. gate[<<o, r>>].pc # "off"
      BY <1>1, <1>4, <2>1 DEF Works, Threads
    <3> QED
      BY <1>2, <2>1, <3>1 DEF OrderOK, AloneOK
  <2> QED
    BY <1>3, <2>1 DEF AloneOK
<1>12. FilesOK(o)'
  <2>1. SUFFICES ASSUME ~late[o] PROVE FilesOK(o)'
    BY <1>3 DEF FilesOK
  <2>2. pc[o] = "waiting" /\ current[o] = s /\ Mine(o) = t
    BY <1>1, <1>2, <2>1 DEF Works, OrderOK, AloneOK, Mine
  <2>3. /\ StyleOf(gate[t].col) = Item(o).style /\ gate[t].fmt = Item(o).fmt
        /\ at[o] \in DOMAIN Items(o) /\ Len(got[o]) = at[o] - 1
    BY <1>2, <2>2 DEF OrderOK, WaitOK, ItemsOK
  <2>4. GatePath(t).item = Item(o)
    <3>1. Item(o) = [style |-> Item(o).style, fmt |-> Item(o).fmt]
      BY <1>2, <2>3, ItemsShape DEF Item
    <3>2. GatePath(t).item = [style |-> StyleOf(gate[t].col), fmt |-> gate[t].fmt]
      BY DEF GatePath
    <3> QED
      BY <2>3, <3>1, <3>2, Zenon
  <2>5. ASSUME NEW i \in DOMAIN got[o]
        PROVE  got[o][i].path = Archived
               \/ (got[o][i].path \in DOMAIN files' /\ files'[got[o][i].path] = got[o][i].font)
    <3>1. got[o][i].path = Archived \/
          \E kind \in {"binary", "form", "reuse"} :
              got[o][i].path = [order |-> o, kind |-> kind, item |-> got[o][i].item]
      BY <1>2 DEF OrderOK, ItemsOK
    <3>2. i \in DOMAIN Items(o) /\ got[o][i].item = Items(o)[i] /\ i # at[o]
      <4>1. DOMAIN got[o] = 1..Len(got[o]) /\ at[o] \in Nat
        BY <1>2 DEF TypeOK
      <4>2. i # at[o]
        BY <2>3, <4>1
      <4> QED
        BY <1>2, <4>2 DEF OrderOK, ItemsOK
    <3>3. got[o][i].item # GatePath(t).item
      BY <1>2, <2>3, <2>4, <3>2, ItemsShape DEF Item
    <3>4. got[o][i].path = Archived \/ got[o][i].path.item = got[o][i].item
      <4>1. ASSUME NEW kind, got[o][i].path = [order |-> o, kind |-> kind, item |-> got[o][i].item]
            PROVE  got[o][i].path.item = got[o][i].item
        BY <4>1
      <4> QED
        BY <3>1, <4>1
    <3>5. got[o][i].path = Archived
          \/ (got[o][i].path \in DOMAIN files /\ files[got[o][i].path] = got[o][i].font)
      BY <1>2, <2>1 DEF OrderOK, FilesOK
    <3>6. got[o][i].path = Archived \/ got[o][i].path # GatePath(t)
      BY <3>3, <3>4
    <3> QED
      BY <3>5, <3>6 DEF Works
  <2>6. /\ g.pc \in {"judge", "published"} => GatePath(t) \in DOMAIN files'
        /\ g.pc = "published" => files'[GatePath(t)] = Built(g)
    BY <1>6, <2>1 DEF Works
  <2>7. GatePath(t)' = GatePath(t)
    <3>1. g.col = gate[t].col /\ g.fmt = gate[t].fmt /\ g.kind = gate[t].kind
      BY <1>6, <2>2 DEF Works, Abandoned
    <3> QED
      BY <1>4, <3>1 DEF GatePath
  <2>8. /\ gate'[Mine(o)'].pc \in {"judge", "published"} => GatePath(Mine(o))' \in DOMAIN files'
        /\ gate'[Mine(o)'].pc = "published" => files'[GatePath(Mine(o))'] = Built(gate[Mine(o)])'
    <3>1. Mine(o)' = t /\ GatePath(Mine(o))' = GatePath(t)' /\ gate'[Mine(o)'] = g
      BY <1>4, <1>8, <2>2 DEF GatePath
    <3>2. Built(gate[Mine(o)])' = Built(g)
      BY <3>1 DEF Built
    <3> QED
      BY <2>6, <2>7, <3>1, <3>2
  <2> QED
    BY <1>3, <1>8, <2>5, <2>8 DEF FilesOK
<1>13. OwnOK(o)'
  BY <1>2, <1>3, <1>8 DEF OrderOK, OwnOK
<1>14. OrderOK(o)'
  BY <1>9, <1>10, <1>11, <1>12, <1>13 DEF OrderOK
<1>15. \A u \in Threads : gate'[u] = gate[u] \/ ThreadOK(u)'
  BY <1>4
<1> QED
  BY <1>3, <1>5, <1>7, <1>14, <1>15, Assemble

\* A thread goes on in another stage, maybe by another hand.
Turned(t, stage, by) == [gate[t] EXCEPT !.pc = stage, !.by = by]

LEMMA TurnedIs ==
    ASSUME NEW t \in Threads, ThreadOK(t), gate[t].pc # "off", NEW stage, NEW by
    PROVE  /\ Turned(t, stage, by).pc = stage /\ Turned(t, stage, by).by = by
           /\ Turned(t, stage, by).col = gate[t].col /\ Turned(t, stage, by).fmt = gate[t].fmt
           /\ Turned(t, stage, by).kind = gate[t].kind /\ Turned(t, stage, by).mode = gate[t].mode
           /\ DOMAIN Turned(t, stage, by) = DOMAIN Off
<1>1. DOMAIN gate[t] = {"pc", "kind", "col", "by", "fmt", "mode", "own"}
  BY DEF ThreadOK, Off
<1>2. DOMAIN Off = {"pc", "kind", "col", "by", "fmt", "mode", "own"}
  BY DEF Off
<1> QED
  BY <1>1, <1>2 DEF Turned

\* What is left to show of a step of a thread that goes on.
LEMMA TurnedStep ==
    ASSUME IInv, NEW t \in Threads, gate[t].pc # "off", NEW stage \in GateStages, NEW by \in Authors,
           gate' = [gate EXCEPT ![t] = Turned(t, stage, by)], UNCHANGED <<durable, thread, crashes>>,
           gate[t].mode = "ORIGINAL" => by = "none",
           gate[t].kind = "reuse" \/ stage \in {"extend", "build", "judge", "published"} => gate[t].col \in Whole,
           stage \in {"judge", "published"} /\ gate[t].mode # "ORIGINAL" => Usable[gate[t].col][by],
           \A p \in DOMAIN files : p /= GatePath(t) => p \in DOMAIN files' /\ files'[p] = files[p],
           ~late[t[1]] =>
               /\ stage \in {"judge", "published"} => GatePath(t) \in DOMAIN files'
               /\ stage = "published" => files'[GatePath(t)] = FromModel(gate[t].col, by, gate[t].fmt),
           StoresOK'
    PROVE  IInv'
<1>1. PICK g : g = Turned(t, stage, by)
  OBVIOUS
<1>2. ThreadOK(t)
  BY DEF IInv
<1>3. /\ g.pc = stage /\ g.by = by /\ g.col = gate[t].col /\ g.fmt = gate[t].fmt
      /\ g.kind = gate[t].kind /\ g.mode = gate[t].mode /\ DOMAIN g = DOMAIN Off
  BY <1>1, <1>2, TurnedIs
<1>4. Built(g) = FromModel(gate[t].col, by, gate[t].fmt)
  BY <1>3 DEF Built
<1>5. g.pc # "off"
  BY <1>3 DEF GateStages
<1>6. Works(t, g)
  BY <1>1, <1>3, <1>4, <1>5 DEF Works
<1>7. gate'[t] = g
  BY <1>1 DEF IInv, TypeOK
<1>8. Mode(t[1])' = Mode(t[1])
  BY SameBook DEF durable
<1>9. ThreadOK(t)'
  <2>1. DOMAIN Off' = DOMAIN Off
    BY DEF Off
  <2> QED
    BY <1>2, <1>3, <1>7, <1>8, <2>1 DEF ThreadOK
<1> QED
  BY <1>6, <1>9, WorksStep

\* A refusal, heard or not.
LEMMA RefusalStep ==
    ASSUME IInv, NEW t \in Threads, gate[t].pc # "off", Ends(t, "refused"), StoresOK',
           \A p \in DOMAIN files : p /= GatePath(t) => p \in DOMAIN files' /\ files'[p] = files[p]
    PROVE  IInv'
<1>1. ThreadOK(t) /\ UNCHANGED <<durable, thread, crashes>>
  BY DEF IInv, Ends, Goes
<1>2. CASE Abandoned(t)
  <2>1. gate' = [gate EXCEPT ![t] = Off]
    BY <1>2 DEF Ends, Goes
  <2>2. Works(t, Off)
    BY <1>1, <1>2, <2>1 DEF Works, Off
  <2>3. ThreadOK(t)'
    <3>1. gate'[t] = Off
      BY <2>1 DEF IInv, TypeOK
    <3> QED
      BY <3>1, OffOK
  <2> QED
    BY <2>2, <2>3, WorksStep
<1>3. CASE ~Abandoned(t)
  <2>1. [gate[t] EXCEPT !.pc = "refused"] = Turned(t, "refused", gate[t].by)
    <3>1. DOMAIN gate[t] = {"pc", "kind", "col", "by", "fmt", "mode", "own"}
      BY <1>1 DEF ThreadOK, Off
    <3> QED
      BY <3>1 DEF Turned
  <2>2. gate' = [gate EXCEPT ![t] = Turned(t, "refused", gate[t].by)]
    BY <1>3, <2>1 DEF Ends, Goes
  <2>3. gate[t].by \in Authors /\ (gate[t].mode = "ORIGINAL" => gate[t].by = "none")
        /\ (gate[t].kind = "reuse" => gate[t].col \in Whole)
    BY <1>1 DEF ThreadOK
  <2>4. "refused" \in GateStages
    BY DEF GateStages
  <2> QED
    BY <1>1, <2>2, <2>3, <2>4, TurnedStep
<1> QED
  BY <1>2, <1>3

LEMMA SameFiles ==
    ASSUME files' = files
    PROVE  \A q : \A p \in DOMAIN files : p /= q => p \in DOMAIN files' /\ files'[p] = files[p]
OBVIOUS

LEMMA RememberedIs ==
    ASSUME NEW m \in [col : Whole, by : {"none"}], memo \in Seq([col : Whole, by : {"none"}])
    PROVE  Remembered(m) \in Seq([col : Whole, by : {"none"}])
<1> DEFINE T == [col : Whole, by : {"none"}]
           rest == IF m \in Range(memo) THEN RemoveAt(memo, CHOOSE i \in DOMAIN memo : memo[i] = m)
                   ELSE memo
           all == Append(rest, m)
<1>1. m \in T /\ memo \in Seq(T)
  OBVIOUS
<1> HIDE DEF T
<1>2. rest \in Seq(T)
  <2>1. CASE m \in Range(memo)
    <3>1. PICK i : i = CHOOSE j \in DOMAIN memo : memo[j] = m
      OBVIOUS
    <3>2. i \in DOMAIN memo
      BY <2>1, <3>1 DEF Range
    <3>3. i \in 1..Len(memo)
      BY <1>1, <3>2
    <3>4. SubSeq(memo, 1, i - 1) \in Seq(T) /\ SubSeq(memo, i + 1, Len(memo)) \in Seq(T)
      BY <1>1, <3>3
    <3>5. rest = SubSeq(memo, 1, i - 1) \o SubSeq(memo, i + 1, Len(memo))
      BY <2>1, <3>1 DEF RemoveAt
    <3> HIDE DEF rest
    <3> QED
      BY <3>4, <3>5
  <2>2. CASE m \notin Range(memo)
    BY <1>1, <2>2
  <2> QED
    BY <2>1, <2>2
<1> HIDE DEF rest
<1>3. all \in Seq(T) /\ all # << >>
  BY <1>1, <1>2
<1>4. Remembered(m) = IF Len(all) > MemoMax THEN Tail(all) ELSE all
  BY DEF Remembered, rest
<1> HIDE DEF all
<1> QED
  BY <1>3, <1>4 DEF T


-----------------------------------------------------------------------------
(* A gate thread, step by step *)

LEMMA InMemoIs ==
    ASSUME StoresOK, NEW c, NEW m \in InMemo(c)
    PROVE  m \in [col : Whole, by : {"none"}] /\ m.col = c
<1> DEFINE T == [col : Whole, by : {"none"}]
<1>1. memo \in Seq(T) /\ m \in Range(memo) /\ m.col = c
  BY DEF StoresOK, InMemo
<1> HIDE DEF T
<1>2. m \in T
  BY <1>1 DEF Range
<1> QED
  BY <1>1, <1>2 DEF T

LEMMA FormStep == ASSUME IInv, NEW t \in Threads, Form(t) PROVE IInv'
<1>1. StoresOK /\ ThreadOK(t) /\ gate[t].pc = "load" /\ gate[t].kind = "form" /\ files' = files
  BY DEF IInv, Form
<1>2. PICK g : g = gate[t]
  OBVIOUS
<1>3. gate[t].pc # "off" /\ g.col \in Collections
  BY <1>1, <1>2 DEF ThreadOK
<1>4. PICK formed : formed = IF InMemo(g.col) = {} THEN [col |-> g.col, by |-> "none"]
                             ELSE CHOOSE m \in InMemo(g.col) : TRUE
  OBVIOUS
<1>5. PICK ok \in BOOLEAN : ok = (Loads[g.col] /\ Partitions[g.col] /\ (InMemo(g.col) = {} => Forms[g.col]))
  OBVIOUS
<1>6. \/ /\ memo' = IF ok THEN Remembered(formed) ELSE memo
         /\ GoesOn(t, ok, [g EXCEPT !.pc = "extend", !.by = formed.by])
      \/ Ends(t, "refused") /\ UNCHANGED memo
  BY <1>2, <1>4, <1>5 DEF Form
<1>7. ok => g.col \in Whole
  <2>1. CASE InMemo(g.col) = {}
    BY <1>3, <1>5, <2>1, WholeIsFormed
  <2>2. CASE InMemo(g.col) # {}
    <3>1. PICK m \in InMemo(g.col) : TRUE
      BY <2>2
    <3> QED
      BY <1>1, <3>1, InMemoIs
  <2> QED
    BY <2>1, <2>2
<1>8. ok => formed \in [col : Whole, by : {"none"}] /\ formed.by = "none"
  <2>1. CASE InMemo(g.col) = {}
    BY <1>4, <1>7, <2>1
  <2>2. CASE InMemo(g.col) # {}
    <3>1. formed \in InMemo(g.col)
      BY <1>4, <2>2
    <3>2. formed \in [col : Whole, by : {"none"}]
      BY <1>1, <3>1, InMemoIs
    <3> QED
      BY <3>2
  <2> QED
    BY <2>1, <2>2
<1>9. UNCHANGED <<durable, thread, crashes>>
  BY <1>6 DEF GoesOn, Ends, Goes
<1>10. StoresOK'
  <2>1. models' = models /\ archive' = archive
    BY <1>9 DEF durable
  <2>2. memo' \in Seq([col : Whole, by : {"none"}])
    <3>1. memo \in Seq([col : Whole, by : {"none"}])
      BY <1>1 DEF StoresOK
    <3> QED
      BY <1>6, <1>8, <3>1, RememberedIs
  <2> QED
    BY <1>1, <2>1, <2>2 DEF StoresOK
<1>11. \A p \in DOMAIN files : p /= GatePath(t) => p \in DOMAIN files' /\ files'[p] = files[p]
  BY <1>1
<1>12. CASE Ends(t, "refused")
  BY <1>3, <1>10, <1>11, <1>12, RefusalStep
<1>13. CASE ~Ends(t, "refused")
  <2>1. ok /\ Goes(t, [g EXCEPT !.pc = "extend", !.by = formed.by])
    BY <1>6, <1>13 DEF GoesOn
  <2>2. gate' = [gate EXCEPT ![t] = Turned(t, "extend", "none")]
    BY <1>2, <1>8, <2>1 DEF Goes, Turned
  <2>3. gate[t].col \in Whole /\ "extend" \in GateStages /\ "none" \in Authors
    BY <1>2, <1>7, <2>1 DEF GateStages, Authors
  <2> QED
    BY <1>3, <1>9, <1>10, <1>11, <2>2, <2>3, TurnedStep
<1> QED
  BY <1>12, <1>13

\* A thread that leaves memo and files alone, and goes on or is refused.
LEMMA GoesOnStep ==
    ASSUME IInv, NEW t \in Threads, gate[t].pc # "off", NEW ok \in BOOLEAN, NEW by \in Authors,
           GoesOn(t, ok, Turned(t, "build", by)), UNCHANGED <<memo, files>>,
           gate[t].mode = "ORIGINAL" => by = "none", gate[t].col \in Whole
    PROVE  IInv'
<1>1. UNCHANGED <<durable, thread, crashes>>
  BY DEF GoesOn, Ends, Goes
<1>2. StoresOK'
  BY <1>1, StoresStay DEF IInv, durable
<1>3. \A p \in DOMAIN files : p /= GatePath(t) => p \in DOMAIN files' /\ files'[p] = files[p]
  OBVIOUS
<1>4. CASE Ends(t, "refused")
  BY <1>2, <1>3, <1>4, RefusalStep
<1>5. CASE ~Ends(t, "refused")
  <2>1. gate' = [gate EXCEPT ![t] = Turned(t, "build", by)]
    BY <1>5 DEF GoesOn, Goes
  <2>2. "build" \in GateStages
    BY DEF GateStages
  <2> QED
    BY <1>1, <1>2, <1>3, <2>1, <2>2, TurnedStep
<1> QED
  BY <1>4, <1>5

LEMMA TurnedKeeps ==
    ASSUME NEW t \in Threads, ThreadOK(t), gate[t].pc # "off", NEW stage
    PROVE  [gate[t] EXCEPT !.pc = stage] = Turned(t, stage, gate[t].by)
<1>1. DOMAIN gate[t] = {"pc", "kind", "col", "by", "fmt", "mode", "own"}
  BY DEF ThreadOK, Off
<1> QED
  BY <1>1 DEF Turned

LEMMA ReuseStep == ASSUME IInv, NEW t \in Threads, Reuse(t) PROVE IInv'
<1>1. /\ ThreadOK(t) /\ gate[t].pc = "load" /\ gate[t].kind = "reuse" /\ UNCHANGED <<memo, files>>
      /\ GoesOn(t, Loads[gate[t].col] /\ Partitions[gate[t].col], [gate[t] EXCEPT !.pc = "build"])
  BY DEF IInv, Reuse
<1>2. PICK ok \in BOOLEAN : ok = (Loads[gate[t].col] /\ Partitions[gate[t].col])
  OBVIOUS
<1>3. /\ gate[t].pc # "off" /\ gate[t].by \in Authors /\ (gate[t].mode = "ORIGINAL" => gate[t].by = "none")
      /\ gate[t].col \in Whole
  BY <1>1 DEF ThreadOK
<1>4. [gate[t] EXCEPT !.pc = "build"] = Turned(t, "build", gate[t].by)
  BY <1>1, <1>3, TurnedKeeps
<1>5. GoesOn(t, ok, Turned(t, "build", gate[t].by))
  BY <1>1, <1>2, <1>4 DEF GoesOn
<1> QED
  BY <1>1, <1>3, <1>5, GoesOnStep

LEMMA ExtendStep == ASSUME IInv, NEW t \in Threads, Extend(t) PROVE IInv'
<1>1. PICK by \in Authors \union {"failed"} :
        /\ by \in IF gate[t].mode = "ORIGINAL" THEN {"none"} ELSE Drawers[gate[t].col]
        /\ GoesOn(t, by /= "failed" /\ (gate[t].mode = "VIETNAMESE" => Nfd[gate[t].col][by]),
                  [gate[t] EXCEPT !.pc = "build", !.by = IF by = "none" THEN @ ELSE by])
  BY DEF Extend
<1>2. ThreadOK(t) /\ gate[t].pc = "extend" /\ UNCHANGED <<memo, files>>
  BY DEF IInv, Extend
<1>3. /\ gate[t].pc # "off" /\ gate[t].by \in Authors /\ (gate[t].mode = "ORIGINAL" => gate[t].by = "none")
      /\ gate[t].col \in Whole
  BY <1>2 DEF ThreadOK
<1>4. CASE by = "failed"
  <2>1. Ends(t, "refused")
    BY <1>1, <1>4 DEF GoesOn
  <2>2. UNCHANGED <<durable, thread, crashes>>
    BY <2>1 DEF Ends, Goes
  <2>3. StoresOK'
    BY <1>2, <2>2, StoresStay DEF IInv, durable
  <2> QED
    BY <1>2, <1>3, <2>1, <2>3, RefusalStep
<1>5. CASE by # "failed"
  <2>1. PICK hand : hand = IF by = "none" THEN gate[t].by ELSE by
    OBVIOUS
  <2>2. hand \in Authors /\ (gate[t].mode = "ORIGINAL" => hand = "none")
    BY <1>1, <1>3, <1>5, <2>1
  <2>3. [gate[t] EXCEPT !.pc = "build", !.by = IF by = "none" THEN @ ELSE by] = Turned(t, "build", hand)
    BY <2>1 DEF Turned
  <2>4. PICK ok \in BOOLEAN :
            ok = (by /= "failed" /\ (gate[t].mode = "VIETNAMESE" => Nfd[gate[t].col][by]))
    OBVIOUS
  <2>5. GoesOn(t, ok, Turned(t, "build", hand))
    BY <1>1, <2>3, <2>4 DEF GoesOn
  <2> QED
    BY <1>2, <1>3, <2>2, <2>5, GoesOnStep
<1> QED
  BY <1>4, <1>5

LEMMA BuildStep == ASSUME IInv, NEW t \in Threads, Build(t) PROVE IInv'
<1>1. /\ ThreadOK(t) /\ gate[t].pc = "build" /\ memo' = memo
      /\ files' = Put(files, GatePath(t), Built(gate[t]))
      /\ GoesOn(t, gate[t].mode = "VIETNAMESE" => Usable[gate[t].col][gate[t].by],
                [gate[t] EXCEPT !.pc = "judge"])
  BY DEF IInv, Build
<1>2. /\ gate[t].pc # "off" /\ gate[t].by \in Authors /\ (gate[t].mode = "ORIGINAL" => gate[t].by = "none")
      /\ gate[t].col \in Whole /\ gate[t].mode = Mode(t[1])
  BY <1>1 DEF ThreadOK
<1>3. UNCHANGED <<durable, thread, crashes>>
  BY <1>1 DEF GoesOn, Ends, Goes
<1>4. StoresOK'
  BY <1>1, <1>3, StoresStay DEF IInv, durable
<1>5. /\ GatePath(t) \in DOMAIN files' /\ files'[GatePath(t)] = Built(gate[t])
      /\ \A p \in DOMAIN files : p /= GatePath(t) => p \in DOMAIN files' /\ files'[p] = files[p]
  BY <1>1, PutKeeps
<1>6. CASE Ends(t, "refused")
  BY <1>2, <1>4, <1>5, <1>6, RefusalStep
<1>7. CASE ~Ends(t, "refused")
  <2>1. /\ gate[t].mode = "VIETNAMESE" => Usable[gate[t].col][gate[t].by]
        /\ gate' = [gate EXCEPT ![t] = [gate[t] EXCEPT !.pc = "judge"]]
    BY <1>1, <1>7 DEF GoesOn, Goes
  <2>2. gate' = [gate EXCEPT ![t] = Turned(t, "judge", gate[t].by)]
    BY <1>1, <1>2, <2>1, TurnedKeeps
  <2>3. gate[t].mode # "ORIGINAL" => Usable[gate[t].col][gate[t].by]
    <3>1. t[1] \in Orders
      BY DEF Threads
    <3>2. gate[t].mode \in Modes
      BY <1>2, <3>1, ItemsShape DEF IInv
    <3> QED
      BY <2>1, <3>2 DEF Modes
  <2>4. "judge" \in GateStages
    BY DEF GateStages
  <2> QED
    BY <1>2, <1>3, <1>4, <1>5, <2>2, <2>3, <2>4, TurnedStep
<1> QED
  BY <1>6, <1>7

LEMMA JudgeStep == ASSUME IInv, NEW t \in Threads, Judge(t) PROVE IInv'
<1>1. /\ ThreadOK(t) /\ gate[t].pc = "judge" /\ memo' = memo /\ files' = files
  BY DEF IInv, Judge
<1>2. PICK ok \in BOOLEAN :
        /\ Ends(t, IF ok /\ InTime(t) THEN "published" ELSE "refused")
        /\ ok => files[GatePath(t)] = Built(gate[t])
  <2>1. PICK yes \in BOOLEAN :
          yes = (/\ files[GatePath(t)] = Built(gate[t])
                 /\ Verdict[gate[t].col][gate[t].by][gate[t].kind = "form" /\ gate[t].mode = "VIETNAMESE"])
    OBVIOUS
  <2>2. Ends(t, IF yes /\ InTime(t) THEN "published" ELSE "refused")
    BY <2>1 DEF Judge
  <2> QED
    BY <2>1, <2>2
<1>3. /\ gate[t].pc # "off" /\ gate[t].by \in Authors /\ (gate[t].mode = "ORIGINAL" => gate[t].by = "none")
      /\ gate[t].col \in Whole /\ (gate[t].mode # "ORIGINAL" => Usable[gate[t].col][gate[t].by])
  BY <1>1 DEF ThreadOK
<1>4. UNCHANGED <<durable, thread, crashes>>
  BY <1>2 DEF Ends, Goes
<1>5. StoresOK'
  BY <1>1, <1>4, StoresStay DEF IInv, durable
<1>6. \A p \in DOMAIN files : p /= GatePath(t) => p \in DOMAIN files' /\ files'[p] = files[p]
  BY <1>1
<1>7. CASE Ends(t, "refused")
  BY <1>3, <1>5, <1>6, <1>7, RefusalStep
<1>8. CASE ~Ends(t, "refused")
  <2>1. ok /\ Ends(t, "published")
    BY <1>2, <1>8
  <2>2. gate' = [gate EXCEPT ![t] = [gate[t] EXCEPT !.pc = "published"]]
    BY <1>8, <2>1 DEF Ends, Goes
  <2>3. gate' = [gate EXCEPT ![t] = Turned(t, "published", gate[t].by)]
    BY <1>1, <1>3, <2>2, TurnedKeeps
  <2>4. ~late[t[1]] => GatePath(t) \in DOMAIN files
    <3>1. PICK o \in Orders, s \in Slots : t = <<o, s>> /\ t[1] = o
      BY DEF Threads
    <3>2. ~late[o] => pc[o] = "waiting" /\ current[o] = s
      BY <1>3, <3>1 DEF IInv, OrderOK, AloneOK
    <3>3. ~late[o] => pc[o] = "waiting" /\ Mine(o) = t
      BY <3>1, <3>2 DEF Mine
    <3> QED
      BY <1>1, <3>1, <3>3 DEF IInv, OrderOK, FilesOK
  <2>5. files[GatePath(t)] = FromModel(gate[t].col, gate[t].by, gate[t].fmt)
    BY <1>2, <2>1 DEF Built
  <2>6. "published" \in GateStages
    BY DEF GateStages
  <2> QED
    BY <1>1, <1>3, <1>4, <1>5, <1>6, <2>3, <2>4, <2>5, <2>6, TurnedStep
<1> QED
  BY <1>7, <1>8

-----------------------------------------------------------------------------
(* The invariant *)

LEMMA StutterStep == ASSUME IInv, UNCHANGED vars PROVE IInv'
<1>1. UNCHANGED <<book, archive, models, memo, gate, files>> /\ UNCHANGED thread
  BY DEF vars, durable
<1>2. UNCHANGED <<pc, at, probe, late, current, got, delivered>>
  BY <1>1 DEF thread
<1>3. TypeOK' /\ StoresOK'
  BY <1>1, <1>2, StoresStay DEF IInv, TypeOK
<1>4. \A t \in Threads : ThreadOK(t)'
  BY <1>1, ThreadStays DEF IInv
<1>5. ASSUME NEW o \in Orders PROVE OrderOK(o)'
  <2>1. Left(o)
    BY <1>1, <1>2 DEF Left, FilesKept
  <2> QED
    BY <1>1, <2>1, LeftStays DEF IInv
<1> QED
  BY <1>3, <1>4, <1>5 DEF IInv

LEMMA InitInv == Init => IInv
<1> SUFFICES ASSUME Init PROVE IInv
  OBVIOUS
<1>1. TypeOK
  <2>1. \A o \in Orders : got[o] \in Seq(Range(got[o]))
    BY EmptyOwn DEF Init
  <2> QED
    BY <2>1 DEF Init, TypeOK, Stages
<1>2. StoresOK
  BY DEF Init, StoresOK
<1>3. \A t \in Threads : gate[t].pc = "off"
  BY DEF Init, Off
<1>4. \A t \in Threads : ThreadOK(t)
  BY <1>3 DEF ThreadOK
<1>5. ASSUME NEW o \in Orders PROVE OrderOK(o)
  <2>1. pc[o] = "item" /\ at[o] = 1 /\ got[o] = << >> /\ delivered[o] = << >>
    BY DEF Init
  <2>2. ItemsOK(o)
    <3>1. 1 \in DOMAIN Items(o)
      BY <1>1, ItemsShape
    <3> QED
      BY <2>1, <3>1, EmptyOwn DEF ItemsOK
  <2>3. WaitOK(o) /\ FilesOK(o) /\ OwnOK(o)
    BY <2>1, EmptyOwn DEF WaitOK, FilesOK, OwnOK
  <2>4. AloneOK(o)
    BY <1>3 DEF AloneOK, Threads
  <2> QED
    BY <2>2, <2>3, <2>4 DEF OrderOK
<1> QED
  BY <1>1, <1>2, <1>4, <1>5 DEF IInv

LEMMA NextInv == IInv /\ [Next]_vars => IInv'
<1> SUFFICES ASSUME IInv, [Next]_vars PROVE IInv'
  OBVIOUS
<1>1. ASSUME NEW o \in Orders, Compute(o) PROVE IInv'
  BY <1>1, WallHitStep, TakeArchivedStep, TryModelStep, TakeBinaryStep, GateStartStep, TakeAnswerStep,
     RefusedStep, AbandonStep, ArchiveStep, PackageStep DEF Compute
<1>2. ASSUME NEW o \in Orders, Wall(o) PROVE IInv'
  BY <1>2, WallStep
<1>3. ASSUME NEW t \in Threads, GateStep(t) PROVE IInv'
  BY <1>3, FormStep, ReuseStep, ExtendStep, BuildStep, JudgeStep DEF GateStep
<1>4. CASE Crash
  BY <1>4, CrashStep
<1>5. CASE Finished \/ UNCHANGED vars
  BY <1>5, StutterStep DEF Finished
<1> QED
  BY <1>1, <1>2, <1>3, <1>4, <1>5 DEF Next

\* The stores that outlive an order and the files of an order that may still deliver are what they
\* are taken for (runner.py _tiered_resolve_artifact, release_gate.py execute).
THEOREM Invariance == Spec => []IInv
BY InitInv, NextInv, PTL DEF Spec

\* Whatever the memo, the model cache, the archive, abandoned threads and other orders hold, what is
\* delivered is the font that was judged, of the style, format and kind asked for
\* (runner.py L1 to L4, release_gate.py _formation_memo).
THEOREM DeliveredIsAsked == Spec => []DeliveredIsOwn
<1>1. IInv => DeliveredIsOwn
  <2> SUFFICES ASSUME IInv, NEW o \in Orders, NEW d \in Fonts(o)
               PROVE  /\ d.font = d.judged
                      /\ d.font.fmt = d.item.fmt
                      /\ IF d.font.by = "binary" THEN d.font.col = d.item.style /\ Mode(o) = "ORIGINAL"
                         ELSE /\ StyleOf(d.font.col) = d.item.style
                              /\ IF Mode(o) = "ORIGINAL" THEN d.font.by = "none"
                                 ELSE Required \subseteq DOMAIN Made[d.font.col][d.font.by].glyphs
    BY DEF DeliveredIsOwn
  <2>1. d.font = d.judged /\ Fits(d.font, d.item, Mode(o))
    BY DEF IInv, OrderOK, OwnOK, Fonts, Range
  <2> QED
    BY <2>1, UsableHasAll DEF Fits
<1> QED
  BY <1>1, Invariance, PTL

\* The pixels that vouch for a delivered font, whichever tier it comes from, are none that its glyphs
\* were fitted to (pipeline.py partition_snapshot, evaluator.py gate 0).
THEOREM UnseenJudges == Spec => []JudgedByUnseen
<1>1. IInv => JudgedByUnseen
  <2> SUFFICES ASSUME IInv, NEW o \in Orders, NEW d \in Fonts(o), d.font.by /= "binary"
               PROVE  UnseenTable[d.font.col]
    BY DEF JudgedByUnseen
  <2>1. Fits(d.font, d.item, Mode(o))
    BY DEF IInv, OrderOK, OwnOK, Fonts, Range
  <2> QED
    BY <2>1, WholeIsUnseen DEF Fits
<1> QED
  BY <1>1, Invariance, PTL

=============================================================================
