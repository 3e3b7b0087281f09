------------------------------ MODULE CheckoutProofs ------------------------------
(***************************************************************************)
(* What holds of the way to a paid order for every number of updates,      *)
(* handlers, transfers and families: an order is what the session had      *)
(* selected, an update writes its choice and its catalog at most once, and *)
(* an order is paid exactly when one payment, one job and one event of it  *)
(* are on record.                                                          *)
(*                                                                         *)
(* The inductive invariant has a part for each: what a handler has read is *)
(* the row as long as its version is (ReadsSound), a ledger row tells      *)
(* whether its update has done its change (CountsSound), a session that    *)
(* was ordered agrees with its order (OrderSound), and the rows of a       *)
(* settled order stand for one transfer (BooksSound).                      *)
(***************************************************************************)
EXTENDS Checkout, FiniteSetTheorems, TLAPS

Args == Families \cup AllStyles \cup Formats \cup Modes \cup {""}

Update ==
    {b \in [do : Taps \cup {"", "start", "url"}, arg : Args, token : Nat] :
        /\ b.do = "mode" => b.arg \in Modes
        /\ b.do = "format" => b.arg \in Formats
        /\ b.do = "url" => b.arg \in Families}

Places == {"off", "read", "menu", "ask", "flow", "offer", "reopen", "order", "done"}

Hand ==
    [pc : Places, read : Session, again : BOOLEAN, found : BOOLEAN]

Order ==
    [token : Nat, catalog : Families \cup {""}, styles : SUBSET AllStyles, formats : SUBSET Formats,
     mode : Modes \cup {""}, total : {Total(s) : s \in Session}, status : {"AWAITING_PAYMENT", "PAID"}]

Transfer == [order : Nat, exact : BOOLEAN]

Agreed == {"", "RECEIVED", "APPLIED", "COMPLETED"}

Counts == [delivered : Nat, choice : Nat, catalog : Nat, status : Nat]

HandlersOK ==
    /\ update \in [Updates -> Update] /\ hand \in [Updates -> Hand]
    /\ ledger \in [Updates -> Agreed] /\ writes \in [Updates -> Counts]

TypeOK ==
    /\ session \in Session /\ minted \in Nat /\ shown \subseteq Menus
    /\ HandlersOK
    /\ messages \in Nat /\ deaths \in Nat
    /\ catalogs \subseteq Families
    /\ request \in [Families -> {"", "PENDING", "COMPLETED", "FAILED"}]
    /\ agent \in [Families -> {"off", "advance", "idle", "reset", "select", "offer", "reopen"}]
    /\ orders \in Seq(Order)

-----------------------------------------------------------------------------
(* The inductive invariant *)

\* Two rows that differ in the pending link at most, which is written without a new version.
Alike(s, t) ==
    /\ s.token = t.token /\ s.catalog = t.catalog /\ s.styles = t.styles /\ s.formats = t.formats
    /\ s.status = t.status /\ s.order = t.order /\ s.mode = t.mode

\* t may be what became of the row s.
Evolves(s, t) == s.version < t.version \/ (s.version = t.version /\ Alike(s, t))

\* Handlers that will compare or use what they have read of the row.
Reading(h) == h.pc \in {"read", "order"}

ReadsSound == \A u \in Updates : Reading(hand[u]) => Evolves(hand[u].read, session)

\* A handler asks for the catalog of a link: that of its message, or one it has read.
Linked(h, b) ==
    \/ b.do = "mode" /\ h.read.pending # ""
    \/ h.pc = "flow" /\ b.do = "url"

FlowSound ==
    \A u \in Updates :
        /\ hand[u].pc \in {"ask", "flow"} => Linked(hand[u], update[u])
        /\ hand[u].pc = "order" => hand[u].read.mode # ""

\* A handler that may still make the choice of its update, or its first write under the ledger.
MayChange(h, b) ==
    \/ h.pc = "order"
    \/ h.pc = "read" /\ ~h.again
    \/ h.pc = "flow" /\ ~h.again /\ b.do # "mode"

\* One that may still fill in a catalog, and one that may still set the status.
MayFill(h) == ~h.again /\ h.pc \in {"read", "ask", "flow"}
MaySet(h) == h.pc \in {"read", "ask", "flow", "offer", "reopen"}

\* The writes w of an update b with the ledger row l and the handler h.
Counted(h, b, l, w) ==
    /\ w.choice = 0 \/ (w.choice = 1 /\ l = "APPLIED" /\ ~MayChange(h, b))
    /\ w.catalog = 0 \/ (w.catalog = 1 /\ l = "APPLIED" /\ ~MayChange(h, b) /\ ~MayFill(h))
    /\ b.do = "mode" \/ w.choice = 0 \/ w.catalog = 0
    /\ w.status <= w.delivered /\ (MaySet(h) => w.status < w.delivered)

CountsSound == \A u \in Updates : Counted(hand[u], update[u], ledger[u], writes[u])

\* The order o agrees with the row s.
Agrees(o, s) ==
    /\ o.token = s.token /\ o.total = Total(s)
    /\ o.catalog = s.catalog /\ o.mode = s.mode /\ o.styles = s.styles /\ o.formats = s.formats

OrderSound ==
    session.status = "ORDER_CREATED" =>
        session.mode # "" /\ session.order \in DOMAIN orders /\ Agrees(orders[session.order], session)

\* The rows of an order of each status.
Unpaid(o) == Rows(o) = {} /\ RowsIn(jobs, o) = {} /\ RowsIn(events, o) = {}

Paid(o) ==
    /\ \E x \in Transactions : Rows(o) = {[order |-> o, transaction |-> x]}
    /\ \E i \in DOMAIN jobs : RowsIn(jobs, o) = {i}
    /\ \E i \in DOMAIN events : RowsIn(events, o) = {i}

\* A transfer of the exact amount, of an order on record, and a row that stands for one.
Exact(x) == x \in Transactions /\ bank[x].exact /\ bank[x].order \in DOMAIN orders

Quotes(row) ==
    /\ Exact(row.transaction)
    /\ row = [order |-> bank[row.transaction].order, transaction |-> row.transaction]

TillsOK ==
    /\ jobs \in Seq(DOMAIN orders) /\ events \in Seq(DOMAIN orders)
    /\ bank \in [Transactions -> Transfer] /\ DOMAIN desk = Desks
    /\ answered \subseteq {x \in Transactions : bank[x] # NoTransfer}

TransfersSound == \A x \in Transactions : bank[x] = NoTransfer \/ bank[x].order \in DOMAIN orders

ReceiptsSound == \A p \in payments : Quotes(p) /\ orders[p.order].status = "PAID"

DesksSound == \A d \in Desks : desk[d] = Free \/ Quotes(desk[d])

RowsSound == \A o \in DOMAIN orders : IF orders[o].status = "PAID" THEN Paid(o) ELSE Unpaid(o)

AnswersSound == \A x \in answered : Exact(x) => orders[bank[x].order].status = "PAID"

BooksSound ==
    TillsOK /\ TransfersSound /\ ReceiptsSound /\ DesksSound /\ RowsSound /\ AnswersSound

HandlersSound == ReadsSound /\ FlowSound /\ CountsSound

IInv == TypeOK /\ HandlersSound /\ OrderSound /\ BooksSound

-----------------------------------------------------------------------------
(* The row of the session *)

LEMMA Numbers ==
    ASSUME NEW s \in Session
    PROVE  s.version \in Nat /\ s.token \in Nat /\ s.order \in Nat
BY DEF Session

LEMMA NextVersion ==
    ASSUME NEW s \in Session
    PROVE  \E n \in Nat : n = s.version + 1 /\ s.version < n
<1>1. s.version \in Nat
    BY Numbers
<1> QED BY <1>1

LEMMA EvolvesOn ==
    ASSUME NEW r \in Session, NEW s \in Session, NEW t \in Session, Evolves(r, s), Evolves(s, t)
    PROVE  Evolves(r, t)
<1>1. r.version \in Nat /\ s.version \in Nat /\ t.version \in Nat
    BY Numbers
<1>2. Alike(r, s) /\ Alike(s, t) => Alike(r, t)
    BY DEF Alike
<1> QED BY <1>1, <1>2 DEF Evolves

\* A row without a selection, which Fresh, WithCatalog and Cancelled make.
Plain(token, version, catalog, status, mode, pending) ==
    [token |-> token, version |-> version, catalog |-> catalog, styles |-> {}, formats |-> {"TTF"},
     status |-> status, order |-> 0, mode |-> mode, pending |-> pending]

LEMMA NoSelection ==
    /\ {"TTF"} \in SUBSET Formats /\ {} \in SUBSET AllStyles /\ 0 \in Nat
    /\ "" \in Families \cup {""} /\ "" \in Modes \cup {""}
    /\ "IDLE" \in Statuses /\ "SELECTING_STYLES" \in Statuses
BY FormatsAssumption DEF Statuses

LEMMA FreshRow ==
    ASSUME NEW token \in Nat, NEW version \in Nat
    PROVE  /\ Fresh(token, version) \in Session
           /\ Fresh(token, version).version = version /\ Fresh(token, version).status = "IDLE"
<1>1. Fresh(token, version) = Plain(token, version, "", "IDLE", "", "")
    BY DEF Fresh, Plain
<1>2. /\ Plain(token, version, "", "IDLE", "", "") \in Session
      /\ Plain(token, version, "", "IDLE", "", "").version = version
      /\ Plain(token, version, "", "IDLE", "", "").status = "IDLE"
    BY NoSelection, Zenon DEF Plain, Session
<1> QED BY <1>1, <1>2, Zenon

LEMMA ResetRow ==
    ASSUME NEW s \in Session, NEW token \in Nat
    PROVE  /\ Reset(s, token) \in Session /\ Evolves(s, Reset(s, token))
           /\ Reset(s, token).status # "ORDER_CREATED"
<1>1. PICK n \in Nat : n = s.version + 1 /\ s.version < n
    BY NextVersion
<1>2. Reset(s, token) = Fresh(token, n)
    BY <1>1 DEF Reset
<1>3. /\ Reset(s, token) \in Session /\ Reset(s, token).version = n
      /\ Reset(s, token).status = "IDLE"
    BY <1>2, FreshRow
<1> QED BY <1>1, <1>3 DEF Evolves

LEMMA CatalogRow ==
    ASSUME NEW s \in Session, NEW token \in Nat, NEW f \in Families \cup {""}
    PROVE  /\ WithCatalog(s, token, f) \in Session /\ Evolves(s, WithCatalog(s, token, f))
           /\ WithCatalog(s, token, f).status # "ORDER_CREATED"
<1>1. PICK n \in Nat : n = s.version + 1 /\ s.version < n
    BY NextVersion
<1>2. s.mode \in Modes \cup {""} /\ s.pending \in Families \cup {""}
    BY DEF Session
<1>3. PICK mode \in Modes \cup {""}, pending \in Families \cup {""} :
          mode = s.mode /\ pending = s.pending
    BY <1>2
<1>4. WithCatalog(s, token, f) =
          [Fresh(token, n) EXCEPT !.catalog = f, !.status = "SELECTING_STYLES",
                                  !.mode = mode, !.pending = pending]
    BY <1>1, <1>3, Zenon DEF WithCatalog
<1>5. WithCatalog(s, token, f) = Plain(token, n, f, "SELECTING_STYLES", mode, pending)
    BY <1>4 DEF Fresh, Plain
<1>6. /\ Plain(token, n, f, "SELECTING_STYLES", mode, pending) \in Session
      /\ Plain(token, n, f, "SELECTING_STYLES", mode, pending).version = n
      /\ Plain(token, n, f, "SELECTING_STYLES", mode, pending).status = "SELECTING_STYLES"
    BY NoSelection, Zenon DEF Plain, Session
<1>7. /\ WithCatalog(s, token, f) \in Session /\ WithCatalog(s, token, f).version = n
      /\ WithCatalog(s, token, f).status = "SELECTING_STYLES"
    BY <1>5, <1>6, Zenon
<1> QED BY <1>1, <1>7 DEF Evolves

LEMMA CancelledRow ==
    ASSUME NEW s \in Session, NEW token \in Nat
    PROVE  /\ Cancelled(s, token) \in Session /\ Evolves(s, Cancelled(s, token))
           /\ Cancelled(s, token).status # "ORDER_CREATED"
<1>1. PICK n \in Nat : n = s.version + 1 /\ s.version < n
    BY NextVersion
<1>2. s.mode \in Modes \cup {""} /\ s.pending \in Families \cup {""}
    BY DEF Session
<1>3. PICK mode \in Modes \cup {""}, pending \in Families \cup {""} :
          mode = s.mode /\ pending = s.pending
    BY <1>2
<1>4. Cancelled(s, token) = [Fresh(token, n) EXCEPT !.mode = mode, !.pending = pending]
    BY <1>1, <1>3, Zenon DEF Cancelled, Reset
<1>5. Cancelled(s, token) = Plain(token, n, "", "IDLE", mode, pending)
    BY <1>4 DEF Fresh, Plain
<1>6. /\ Plain(token, n, "", "IDLE", mode, pending) \in Session
      /\ Plain(token, n, "", "IDLE", mode, pending).version = n
      /\ Plain(token, n, "", "IDLE", mode, pending).status = "IDLE"
    BY NoSelection, Zenon DEF Plain, Session
<1>7. /\ Cancelled(s, token) \in Session /\ Cancelled(s, token).version = n
      /\ Cancelled(s, token).status = "IDLE"
    BY <1>5, <1>6, Zenon
<1> QED BY <1>1, <1>7 DEF Evolves

LEMMA PendingRow ==
    ASSUME NEW s \in Session, NEW f \in Families
    PROVE  /\ WithPending(s, f) \in Session /\ Evolves(s, WithPending(s, f))
           /\ Alike(s, WithPending(s, f))
<1>1. CASE s.mode = ""
    <2>1. WithPending(s, f) = [s EXCEPT !.pending = f]
        BY <1>1 DEF WithPending
    <2>2. [s EXCEPT !.pending = f] \in Session
        BY DEF Session
    <2> QED BY <2>1, <2>2 DEF Session, Evolves, Alike
<1>2. CASE s.mode # ""
    BY <1>2 DEF WithPending, Evolves, Alike
<1> QED BY <1>1, <1>2

LEMMA StatusRow ==
    ASSUME NEW s \in Session, NEW status \in Statuses
    PROVE  /\ WithStatus(s, status) \in Session /\ Evolves(s, WithStatus(s, status))
           /\ WithStatus(s, status).status = status
           /\ WithStatus(s, status) = [s EXCEPT !.status = status, !.version = s.version + 1]
<1>1. PICK n \in Nat : n = s.version + 1 /\ s.version < n
    BY NextVersion
<1>2. s.version \in Nat
    BY Numbers
<1>3. WithStatus(s, status) = [s EXCEPT !.status = status, !.version = n]
    BY <1>1 DEF WithStatus
<1>4. [s EXCEPT !.status = status, !.version = n] \in Session
    BY <1>1, <1>2 DEF Session
<1> QED BY <1>1, <1>2, <1>3, <1>4 DEF Session, Evolves

LEMMA OrderedRow ==
    ASSUME NEW s \in Session, NEW o \in Nat
    PROVE  /\ Ordered(s, o) \in Session /\ Evolves(s, Ordered(s, o))
           /\ Ordered(s, o).order = o
           /\ Ordered(s, o).token = s.token /\ Ordered(s, o).catalog = s.catalog
           /\ Ordered(s, o).styles = s.styles /\ Ordered(s, o).formats = s.formats
           /\ Ordered(s, o).mode = s.mode
<1>1. PICK n \in Nat : n = s.version + 1 /\ s.version < n
    BY NextVersion
<1>2. s.version \in Nat
    BY Numbers
<1>3. Ordered(s, o) = [s EXCEPT !.status = "ORDER_CREATED", !.version = n, !.order = o]
    BY <1>1 DEF Ordered, WithStatus
<1>4. [s EXCEPT !.status = "ORDER_CREATED", !.version = n, !.order = o] \in Session
    BY <1>1, <1>2 DEF Session, Statuses
<1> QED BY <1>1, <1>2, <1>3, <1>4 DEF Session, Evolves

LEMMA StylesRow ==
    ASSUME NEW s \in Session, NEW styles \in SUBSET AllStyles
    PROVE  /\ [s EXCEPT !.styles = styles, !.version = s.version + 1] \in Session
           /\ Evolves(s, [s EXCEPT !.styles = styles, !.version = s.version + 1])
           /\ [s EXCEPT !.styles = styles, !.version = s.version + 1].status = s.status
<1>1. PICK n \in Nat : n = s.version + 1 /\ s.version < n
    BY NextVersion
<1>2. [s EXCEPT !.styles = styles, !.version = n] \in Session
    BY DEF Session
<1>3. [s EXCEPT !.styles = styles, !.version = s.version + 1] = [s EXCEPT !.styles = styles, !.version = n]
    BY <1>1
<1> QED BY <1>1, <1>2, <1>3 DEF Session, Evolves

LEMMA FormatsRow ==
    ASSUME NEW s \in Session, NEW formats \in SUBSET Formats
    PROVE  /\ [s EXCEPT !.formats = formats, !.version = s.version + 1] \in Session
           /\ Evolves(s, [s EXCEPT !.formats = formats, !.version = s.version + 1])
           /\ [s EXCEPT !.formats = formats, !.version = s.version + 1].status = s.status
<1>1. PICK n \in Nat : n = s.version + 1 /\ s.version < n
    BY NextVersion
<1>2. [s EXCEPT !.formats = formats, !.version = n] \in Session
    BY DEF Session
<1>3. [s EXCEPT !.formats = formats, !.version = s.version + 1] = [s EXCEPT !.formats = formats, !.version = n]
    BY <1>1
<1> QED BY <1>1, <1>2, <1>3 DEF Session, Evolves

LEMMA ModeRow ==
    ASSUME NEW s \in Session, NEW mode \in Modes
    PROVE  /\ [s EXCEPT !.mode = mode, !.pending = "", !.version = s.version + 1] \in Session
           /\ Evolves(s, [s EXCEPT !.mode = mode, !.pending = "", !.version = s.version + 1])
           /\ [s EXCEPT !.mode = mode, !.pending = "", !.version = s.version + 1].status = s.status
<1>1. PICK n \in Nat : n = s.version + 1 /\ s.version < n
    BY NextVersion
<1>2. [s EXCEPT !.mode = mode, !.pending = "", !.version = n] \in Session
    BY DEF Session
<1>3. [s EXCEPT !.mode = mode, !.pending = "", !.version = s.version + 1] = [s EXCEPT !.mode = mode, !.pending = "", !.version = n]
    BY <1>1
<1> QED BY <1>1, <1>2, <1>3 DEF Session, Evolves

\* What a tap writes: never over a session that was ordered.
LEMMA WrittenRow ==
    ASSUME NEW s \in Session, NEW read \in Session, NEW b \in Update, NEW token \in Nat,
           b.do \in Taps \ {"confirm"}, Admits(read, b), Hits(s, read, b.do),
           s.status = "ORDER_CREATED" => s.mode # ""
    PROVE  /\ Written(s, read, b, token) \in Session /\ Evolves(s, Written(s, read, b, token))
           /\ Written(s, read, b, token).status # "ORDER_CREATED"
<1>1. s.status # "ORDER_CREATED"
    BY DEF Hits, From, Taps
<1>2. CASE b.do = "mode"
    <2>1. Written(s, read, b, token) =
              [s EXCEPT !.mode = b.arg, !.pending = "", !.version = s.version + 1]
        BY <1>2 DEF Written
    <2>2. b.arg \in Modes
        BY <1>2 DEF Update
    <2> QED BY <1>1, <2>1, <2>2, ModeRow, Zenon
<1>3. CASE b.do \in {"style", "all", "clear"}
    <2>1. ASSUME NEW styles \in SUBSET AllStyles,
                 Written(s, read, b, token) = [s EXCEPT !.styles = styles, !.version = s.version + 1]
          PROVE  /\ Written(s, read, b, token) \in Session /\ Evolves(s, Written(s, read, b, token))
                 /\ Written(s, read, b, token).status # "ORDER_CREATED"
        BY <1>1, <2>1, StylesRow, Zenon
    <2>2. read.catalog \in Families /\ read.styles \in SUBSET AllStyles
        BY <1>3 DEF Admits, Session
    <2>3. StylesOf(read.catalog) \in SUBSET AllStyles
        BY <2>2 DEF AllStyles
    <2>4. CASE b.do = "style"
        <3>1. Toggled(read.styles, b.arg) \in SUBSET AllStyles
            BY <2>2, <2>3, <2>4 DEF Admits, Toggled
        <3> QED BY <2>1, <2>4, <3>1, Zenon DEF Written
    <2>5. CASE b.do = "all"
        BY <2>1, <2>3, <2>5, Zenon DEF Written
    <2>6. CASE b.do = "clear"
        <3>1. {} \in SUBSET AllStyles
            OBVIOUS
        <3> QED BY <2>1, <2>6, <3>1, Zenon DEF Written
    <2> QED BY <1>3, <2>4, <2>5, <2>6
<1>4. CASE b.do = "format"
    <2>1. Written(s, read, b, token) =
              [s EXCEPT !.formats = Toggled(read.formats, b.arg), !.version = s.version + 1]
        BY <1>4, Zenon DEF Written
    <2>2. b.arg \in Formats /\ read.formats \in SUBSET Formats
        BY <1>4 DEF Update, Session
    <2>3. Toggled(read.formats, b.arg) \in SUBSET Formats
        BY <2>2 DEF Toggled
    <2> QED BY <1>1, <2>1, <2>3, FormatsRow, Zenon
<1>5. ASSUME NEW status \in Statuses \ {"ORDER_CREATED"},
             Written(s, read, b, token) = WithStatus(s, status)
      PROVE  /\ Written(s, read, b, token) \in Session /\ Evolves(s, Written(s, read, b, token))
             /\ Written(s, read, b, token).status # "ORDER_CREATED"
    <2>1. status \in Statuses /\ status # "ORDER_CREATED"
        OBVIOUS
    <2>2. /\ WithStatus(s, status) \in Session /\ Evolves(s, WithStatus(s, status))
          /\ WithStatus(s, status).status = status
        BY <2>1, StatusRow
    <2> QED BY <1>5, <2>1, <2>2, Zenon
<1>6. CASE b.do \in {"next", "back", "review"}
    <2>1. {"SELECTING_FORMATS", "SELECTING_STYLES", "CONFIRMING"} \subseteq Statuses \ {"ORDER_CREATED"}
        BY DEF Statuses
    <2> QED BY <1>5, <1>6, <2>1 DEF Written
<1>7. CASE b.do = "cancel"
    <2>1. Written(s, read, b, token) = Cancelled(s, token)
        BY <1>7 DEF Written
    <2> QED BY <2>1, CancelledRow, Zenon
<1> QED BY <1>2, <1>3, <1>4, <1>6, <1>7 DEF Taps

-----------------------------------------------------------------------------
(* Handlers of updates *)

\* Where a handler goes.
Moved(u, pc, found) ==
    [pc |-> pc, found |-> found, read |-> IF Uses(u, pc) THEN hand[u].read ELSE Off.read,
     again |-> hand[u].again /\ pc \in {"ask", "flow"}]

LEMMA OffHand == Off \in Hand /\ Off.pc = "off" /\ Off.read \in Session
<1>1. Fresh(0, 0) \in Session
    BY FreshRow
<1> QED BY <1>1 DEF Off, Hand, Places

\* A step of the handler of u that leaves its update alone, brings the handler to h, the ledger
\* row to l and its writes to n.
LEMMA HandlerSteps ==
    ASSUME IInv, NEW u \in Updates, NEW h \in Hand, NEW l \in Agreed, NEW n \in Counts,
           NEW b \in Update,
           hand' = [hand EXCEPT ![u] = h], ledger' = [ledger EXCEPT ![u] = l],
           writes' = [writes EXCEPT ![u] = n], update' = [update EXCEPT ![u] = b],
           session' \in Session, Evolves(session, session'),
           Reading(h) => Evolves(h.read, session'),
           h.pc \in {"ask", "flow"} => Linked(h, b), h.pc = "order" => h.read.mode # "",
           Counted(h, b, l, n)
    PROVE  HandlersOK' /\ HandlersSound'
<1>1. HandlersOK /\ session \in Session
    BY DEF IInv, TypeOK
<1>2. HandlersOK'
    BY <1>1 DEF HandlersOK
<1>3. /\ hand'[u] = h /\ ledger'[u] = l /\ writes'[u] = n /\ update'[u] = b
      /\ \A v \in Updates \ {u} :
            /\ hand'[v] = hand[v] /\ ledger'[v] = ledger[v]
            /\ writes'[v] = writes[v] /\ update'[v] = update[v]
    BY <1>1 DEF HandlersOK
<1>4. ReadsSound'
    <2>1. ASSUME NEW v \in Updates \ {u}, Reading(hand[v])
          PROVE  Evolves(hand[v].read, session')
        <3>1. hand[v].read \in Session /\ Evolves(hand[v].read, session)
            BY <1>1, <2>1 DEF IInv, HandlersSound, ReadsSound, HandlersOK, Hand
        <3> QED BY <1>1, <3>1, EvolvesOn
    <2> QED BY <1>3, <2>1, Zenon DEF ReadsSound
<1>5. FlowSound'
    BY <1>3, Zenon DEF IInv, HandlersSound, FlowSound
<1>6. CountsSound'
    BY <1>3, Zenon DEF IInv, HandlersSound, CountsSound
<1> QED BY <1>2, <1>4, <1>5, <1>6 DEF HandlersSound

\* The handler of u goes on at pc, its ledger row becomes l and its writes n.
Moves(u, pc, found, l, n) ==
    /\ pc \in Places \ {"read"} /\ found \in BOOLEAN /\ l \in Agreed /\ n \in Counts
    /\ Continue(u, pc, found) /\ ledger' = [ledger EXCEPT ![u] = l]
    /\ writes' = [writes EXCEPT ![u] = n] /\ update' = update
    /\ pc = "order" => hand[u].pc = "read" /\ hand[u].read.mode # ""
    /\ pc = "ask" => update[u].do = "mode" /\ hand[u].read.pending # ""
    /\ pc = "flow" =>
           update[u].do = "url" \/ (update[u].do = "mode" /\ hand[u].read.pending # "")
    /\ Counted(Moved(u, pc, found), update[u], l, n)

LEMMA HandlerMoves ==
    ASSUME IInv, NEW u \in Updates, NEW pc, NEW found, NEW l, NEW n, Moves(u, pc, found, l, n),
           session' \in Session, Evolves(session, session')
    PROVE  HandlersOK' /\ HandlersSound'
<1> USE DEF Moves
<1>1. HandlersOK /\ session \in Session
    BY DEF IInv, TypeOK
<1>2. update' = [update EXCEPT ![u] = update[u]] /\ update[u] \in Update /\ hand[u] \in Hand
    BY <1>1 DEF HandlersOK
<1>3. /\ hand' = [hand EXCEPT ![u] = Moved(u, pc, found)]
      /\ Moved(u, pc, found) \in Hand /\ Moved(u, pc, found).pc = pc
      /\ Moved(u, pc, found).again = (hand[u].again /\ pc \in {"ask", "flow"})
      /\ Uses(u, pc) => Moved(u, pc, found).read = hand[u].read
    <2>1. hand' = [hand EXCEPT ![u] = Moved(u, pc, found)]
        BY DEF Continue, Moved
    <2>2. hand[u].read \in Session /\ hand[u].again \in BOOLEAN /\ Off.read \in Session
        BY <1>2, OffHand DEF Hand
    <2>3. Moved(u, pc, found) \in Hand
        BY <2>2 DEF Moved, Hand
    <2> QED BY <2>1, <2>3 DEF Moved
<1> DEFINE h == Moved(u, pc, found)
<1> HIDE DEF h
<1>4. Reading(h) => Evolves(h.read, session')
    <2>1. ASSUME Reading(h)
          PROVE  Evolves(h.read, session')
        <3>1. pc = "order" /\ hand[u].pc = "read" /\ h.read = hand[u].read
            BY <1>3, <2>1 DEF Reading, Uses, h
        <3>2. hand[u].read \in Session /\ Evolves(hand[u].read, session)
            BY <1>2, <3>1 DEF IInv, HandlersSound, ReadsSound, Hand, Reading
        <3> QED BY <1>1, <3>1, <3>2, EvolvesOn
    <2> QED BY <2>1
<1>5. /\ h.pc \in {"ask", "flow"} => Linked(h, update[u])
      /\ h.pc = "order" => h.read.mode # ""
    BY <1>3 DEF Linked, Uses, h
<1>6. Counted(h, update[u], l, n)
    BY DEF h
<1>7. h \in Hand /\ hand' = [hand EXCEPT ![u] = h]
    BY <1>3 DEF h
<1> QED BY <1>2, <1>4, <1>5, <1>6, <1>7, HandlerSteps

LEMMA MovedHand ==
    ASSUME NEW u, NEW pc, NEW found
    PROVE  /\ Moved(u, pc, found).pc = pc
           /\ Moved(u, pc, found).again = (hand[u].again /\ pc \in {"ask", "flow"})
BY DEF Moved

\* One more write is one more.
LEMMA MoreWrites ==
    ASSUME NEW w \in Counts
    PROVE  /\ /\ Chosen(w) \in Counts /\ Chosen(w).choice = w.choice + 1
              /\ Chosen(w).catalog = w.catalog
              /\ Chosen(w).status = w.status /\ Chosen(w).delivered = w.delivered
           /\ /\ Filled(w) \in Counts /\ Filled(w).catalog = w.catalog + 1
              /\ Filled(w).choice = w.choice
              /\ Filled(w).status = w.status /\ Filled(w).delivered = w.delivered
           /\ /\ StatusSet(w) \in Counts /\ StatusSet(w).status = w.status + 1
              /\ StatusSet(w).choice = w.choice
              /\ StatusSet(w).catalog = w.catalog /\ StatusSet(w).delivered = w.delivered
           /\ /\ Delivered(w) \in Counts /\ Delivered(w).delivered = w.delivered + 1
              /\ Delivered(w).choice = w.choice
              /\ Delivered(w).catalog = w.catalog /\ Delivered(w).status = w.status
           /\ NoWrites \in Counts /\ NoWrites.choice = 0 /\ NoWrites.catalog = 0
           /\ NoWrites.status = 0 /\ NoWrites.delivered = 0
<1>1. w.choice \in Nat /\ w.catalog \in Nat /\ w.status \in Nat /\ w.delivered \in Nat
    BY DEF Counts
<1> QED BY <1>1 DEF Chosen, Filled, StatusSet, Delivered, NoWrites, Counts

\* What a handler may still write only gets less as it goes on.
Onward(h, b, pc) ==
    /\ pc = "order" => h.pc = "read" /\ ~h.again
    /\ pc \in {"ask", "flow"} => h.pc \in {"read", "ask"}
    /\ pc = "flow" => b.do = "mode" \/ h.pc = "read"
    /\ pc \in {"offer", "reopen"} => h.pc \in {"flow", "offer"}
    /\ pc # "read"

LEMMA MayLess ==
    ASSUME NEW u, NEW pc, NEW found, NEW b, Onward(hand[u], b, pc)
    PROVE  /\ MayChange(Moved(u, pc, found), b) => MayChange(hand[u], b)
           /\ MayFill(Moved(u, pc, found)) => MayFill(hand[u])
           /\ MaySet(Moved(u, pc, found)) => MaySet(hand[u])
<1> DEFINE h == Moved(u, pc, found)
<1>1. h.pc = pc /\ h.again = (hand[u].again /\ pc \in {"ask", "flow"})
    BY MovedHand
<1> HIDE DEF h
<1>2. MayChange(h, b) => MayChange(hand[u], b)
    BY <1>1 DEF MayChange, Onward
<1>3. MayFill(h) => MayFill(hand[u])
    BY <1>1 DEF MayFill, Onward
<1>4. MaySet(h) => MaySet(hand[u])
    BY <1>1 DEF MaySet, Onward
<1> QED BY <1>2, <1>3, <1>4 DEF h

\* The ledger row and the kinds of write of a step: none, a choice, a catalog, a status.
Step(u, pc, l, n) ==
    LET w == writes[u]
    IN  \/ n = w /\ l \in {ledger[u], "APPLIED"}
        \/ /\ n = Chosen(w) /\ l = "APPLIED"
           /\ MayChange(hand[u], update[u]) /\ pc \notin {"order", "flow"}
        \/ /\ n = Filled(w) /\ l = "APPLIED"
           /\ hand[u].pc = "flow" /\ ~hand[u].again /\ pc = "offer"
        \/ n = StatusSet(w) /\ l = ledger[u] /\ MaySet(hand[u]) /\ pc = "done"

\* The counts of a handler g still hold of one that may write less.
LEMMA CountedOn ==
    ASSUME NEW g, NEW h, NEW b, NEW k, NEW l, NEW w, Counted(g, b, k, w),
           l = k \/ l = "APPLIED", MayChange(h, b) => MayChange(g, b),
           MayFill(h) => MayFill(g), MaySet(h) => MaySet(g)
    PROVE  Counted(h, b, l, w)
BY Zenon DEF Counted

\* They hold of one that may write no more.
LEMMA CountedLast ==
    ASSUME NEW h, NEW b, NEW w, w.choice \in {0, 1}, w.catalog \in {0, 1},
           ~MayChange(h, b), w.catalog = 0 \/ ~MayFill(h),
           b.do = "mode" \/ w.choice = 0 \/ w.catalog = 0,
           w.status <= w.delivered, MaySet(h) => w.status < w.delivered
    PROVE  Counted(h, b, "APPLIED", w)
BY DEF Counted

LEMMA CountsGoOn ==
    ASSUME IInv, NEW u \in Updates, NEW pc, NEW found, NEW l, NEW n,
           Onward(hand[u], update[u], pc), Step(u, pc, l, n)
    PROVE  n \in Counts /\ l \in Agreed /\ Counted(Moved(u, pc, found), update[u], l, n)
<1> DEFINE w == writes[u]
           h == Moved(u, pc, found)
           b == update[u]
<1>1. w \in Counts /\ ledger[u] \in Agreed /\ Counted(hand[u], b, ledger[u], w)
    BY DEF IInv, TypeOK, HandlersOK, HandlersSound, CountsSound
<1>2. /\ w.choice \in Nat /\ w.catalog \in Nat /\ w.status \in Nat /\ w.delivered \in Nat
      /\ "APPLIED" \in Agreed
    BY <1>1 DEF Counts, Agreed
<1>3. /\ MayChange(h, b) => MayChange(hand[u], b)
      /\ MayFill(h) => MayFill(hand[u])
      /\ MaySet(h) => MaySet(hand[u])
    BY MayLess
<1>4. h.pc = pc /\ h.again = (hand[u].again /\ pc \in {"ask", "flow"})
    BY MovedHand
<1>5. w.status <= w.delivered /\ (MaySet(h) => w.status < w.delivered)
    BY <1>1, <1>3, Zenon DEF Counted
<1> HIDE DEF h, w, b
<1>6. CASE n = w /\ l \in {ledger[u], "APPLIED"}
    <2>1. n \in Counts /\ l \in Agreed
        BY <1>1, <1>2, <1>6
    <2>2. Counted(h, b, l, n)
        BY <1>1, <1>3, <1>6, CountedOn, Zenon
    <2> QED BY <2>1, <2>2 DEF h, b
<1>7. CASE /\ n = Chosen(w) /\ l = "APPLIED"
           /\ MayChange(hand[u], b) /\ pc \notin {"order", "flow"}
    <2>1. w.choice = 0 /\ w.catalog = 0
        BY <1>1, <1>7, Zenon DEF Counted
    <2>2. n \in Counts /\ n.choice = 1 /\ n.catalog = 0 /\ n.status = w.status /\ n.delivered = w.delivered
        BY <1>1, <1>2, <1>7, <2>1, MoreWrites
    <2>3. ~MayChange(h, b)
        BY <1>4, <1>7 DEF MayChange, Onward
    <2>4. Counted(h, b, "APPLIED", n)
        BY <1>5, <2>2, <2>3, CountedLast
    <2> QED BY <1>2, <1>7, <2>2, <2>4 DEF h, b
<1>8. CASE /\ n = Filled(w) /\ l = "APPLIED"
           /\ hand[u].pc = "flow" /\ ~hand[u].again /\ pc = "offer"
    <2>1. MayFill(hand[u]) /\ (b.do # "mode" => MayChange(hand[u], b))
        BY <1>8 DEF MayFill, MayChange
    <2>2. w.catalog = 0 /\ (b.do # "mode" => w.choice = 0)
        BY <1>1, <2>1, Zenon DEF Counted
    <2>3. n \in Counts /\ n.catalog = 1 /\ n.choice = w.choice /\ n.status = w.status /\ n.delivered = w.delivered
        BY <1>1, <1>2, <1>8, <2>2, MoreWrites
    <2>4. ~MayChange(h, b) /\ ~MayFill(h)
        BY <1>4, <1>8 DEF MayChange, MayFill
    <2>5. n.choice \in {0, 1} /\ (b.do = "mode" \/ n.choice = 0)
        BY <1>1, <2>2, <2>3, Zenon DEF Counted
    <2>6. Counted(h, b, "APPLIED", n)
        BY <1>5, <2>3, <2>4, <2>5, CountedLast
    <2> QED BY <1>2, <1>8, <2>3, <2>6 DEF h, b
<1>9. CASE n = StatusSet(w) /\ l = ledger[u] /\ MaySet(hand[u]) /\ pc = "done"
    <2>1. /\ n \in Counts /\ n.choice = w.choice /\ n.catalog = w.catalog
          /\ n.status = w.status + 1 /\ n.delivered = w.delivered
        BY <1>1, <1>9, MoreWrites
    <2>2. w.status < w.delivered
        BY <1>1, <1>9 DEF Counted
    <2>3. n.status <= n.delivered
        BY <1>2, <2>1, <2>2
    <2>4. ~MaySet(h) /\ ~MayChange(h, b) /\ ~MayFill(h)
        BY <1>4, <1>9 DEF MaySet, MayChange, MayFill
    <2>5. Counted(h, b, l, n)
        BY <1>1, <1>9, <2>1, <2>3, <2>4, Zenon DEF Counted
    <2> QED BY <1>1, <1>9, <2>1, <2>5 DEF h, b
<1> QED BY <1>6, <1>7, <1>8, <1>9, Zenon DEF Step, w, b

\* A step of the handler of u that goes on at pc.
LEMMA HandlerGoes ==
    ASSUME IInv, NEW u \in Updates, NEW pc \in Places \ {"read"}, NEW found \in BOOLEAN,
           NEW l, NEW n, Step(u, pc, l, n), Onward(hand[u], update[u], pc),
           Continue(u, pc, found), ledger' = [ledger EXCEPT ![u] = l],
           writes' = [writes EXCEPT ![u] = n], update' = update,
           session' \in Session, Evolves(session, session'),
           pc = "order" => hand[u].read.mode # "",
           pc = "ask" => update[u].do = "mode" /\ hand[u].read.pending # "",
           pc = "flow" =>
               update[u].do = "url" \/ (update[u].do = "mode" /\ hand[u].read.pending # "")
    PROVE  HandlersOK' /\ HandlersSound'
<1>1. n \in Counts /\ l \in Agreed /\ Counted(Moved(u, pc, found), update[u], l, n)
    BY CountsGoOn
<1>2. pc = "order" => hand[u].pc = "read" /\ hand[u].read.mode # ""
    BY DEF Onward
<1>3. Moves(u, pc, found, l, n)
    BY <1>1, <1>2, Zenon DEF Moves
<1> QED BY <1>3, HandlerMoves

\* One that writes nothing, though its ledger row may become APPLIED.
LEMMA HandlerPasses ==
    ASSUME IInv, NEW u \in Updates, NEW pc \in Places \ {"read"}, NEW found \in BOOLEAN,
           Continue(u, pc, found), ledger' \in {ledger, Applied(u)}, UNCHANGED <<writes, update>>,
           session' \in Session, Evolves(session, session'), Onward(hand[u], update[u], pc),
           pc = "order" => hand[u].read.mode # "",
           pc = "ask" => update[u].do = "mode" /\ hand[u].read.pending # "",
           pc = "flow" =>
               update[u].do = "url" \/ (update[u].do = "mode" /\ hand[u].read.pending # "")
    PROVE  HandlersOK' /\ HandlersSound'
<1>1. HandlersOK
    BY DEF IInv, TypeOK
<1>2. PICK l \in {ledger[u], "APPLIED"} : ledger' = [ledger EXCEPT ![u] = l]
    <2>1. ledger = [ledger EXCEPT ![u] = ledger[u]]
        BY <1>1 DEF HandlersOK
    <2>2. \/ ledger' = [ledger EXCEPT ![u] = ledger[u]]
          \/ ledger' = [ledger EXCEPT ![u] = "APPLIED"]
        BY <2>1 DEF Applied
    <2> QED BY <2>2, Zenon
<1>3. PICK n : n = writes[u]
    OBVIOUS
<1>4. writes' = [writes EXCEPT ![u] = n] /\ update' = update
    BY <1>1, <1>3 DEF HandlersOK
<1>5. Step(u, pc, l, n)
    BY <1>2, <1>3, Zenon DEF Step
<1>6. n \in Counts /\ l \in Agreed /\ Counted(Moved(u, pc, found), update[u], l, n)
    BY <1>5, CountsGoOn
<1>7. pc = "order" => hand[u].pc = "read" /\ hand[u].read.mode # ""
    BY DEF Onward
<1>8. Moves(u, pc, found, l, n)
    BY <1>2, <1>4, <1>6, <1>7, Zenon DEF Moves
<1> QED BY <1>8, HandlerMoves

\* One that makes the choice of its update.
LEMMA HandlerChanges ==
    ASSUME IInv, NEW u \in Updates, NEW pc \in {"done", "menu", "ask"},
           MayChange(hand[u], update[u]),
           Goto(u, pc), ledger' = Applied(u), writes' = [writes EXCEPT ![u] = Chosen(@)],
           update' = update, session' \in Session, Evolves(session, session'),
           pc = "ask" => update[u].do = "mode" /\ hand[u].read.pending # "" /\ hand[u].pc = "read"
    PROVE  HandlersOK' /\ HandlersSound'
<1>1. Step(u, pc, "APPLIED", Chosen(writes[u]))
    BY Zenon DEF Step
<1>2. /\ ledger' = [ledger EXCEPT ![u] = "APPLIED"]
      /\ writes' = [writes EXCEPT ![u] = Chosen(writes[u])]
    BY DEF Applied
<1>3. Continue(u, pc, FALSE) /\ FALSE \in BOOLEAN /\ pc \in Places \ {"read"}
    BY DEF Goto, Places
<1>4. Onward(hand[u], update[u], pc) /\ pc # "order" /\ pc # "flow"
    BY DEF Onward
<1> QED BY <1>1, <1>2, <1>3, <1>4, HandlerGoes

\* One that sets the status.
LEMMA HandlerSets ==
    ASSUME IInv, NEW u \in Updates, MaySet(hand[u]), Goto(u, "done"), ledger' = ledger,
           writes' = [writes EXCEPT ![u] = StatusSet(@)],
           update' = update, session' \in Session, Evolves(session, session')
    PROVE  HandlersOK' /\ HandlersSound'
<1>1. Step(u, "done", ledger[u], StatusSet(writes[u]))
    BY Zenon DEF Step
<1>2. HandlersOK
    BY DEF IInv, TypeOK
<1>3. /\ ledger' = [ledger EXCEPT ![u] = ledger[u]]
      /\ writes' = [writes EXCEPT ![u] = StatusSet(writes[u])]
    BY <1>2 DEF HandlersOK
<1>4. Continue(u, "done", FALSE) /\ FALSE \in BOOLEAN /\ "done" \in Places \ {"read"}
    BY DEF Goto, Places
<1>5. Onward(hand[u], update[u], "done")
    BY DEF Onward
<1> QED BY <1>1, <1>3, <1>4, <1>5, HandlerGoes

-----------------------------------------------------------------------------
(* The rest of the invariant across a step of the webhook or of the agent *)

\* The row is replaced by one that may follow it, and never by one that is ordered.
RowStep ==
    /\ session' \in Session /\ minted' \in Nat /\ Evolves(session, session')
    /\ session'.status = "ORDER_CREATED" => Alike(session, session')

LEMMA RowStays ==
    ASSUME IInv, UNCHANGED <<session, minted>>
    PROVE  RowStep
BY DEF IInv, TypeOK, RowStep, Evolves, Alike

LEMMA RowChanges ==
    ASSUME IInv, session' \in Session, minted' \in Nat, Evolves(session, session'),
           session'.status # "ORDER_CREATED"
    PROVE  RowStep
BY DEF RowStep

LEMMA OrderStays ==
    ASSUME IInv, RowStep, UNCHANGED orders
    PROVE  OrderSound'
<1>1. ASSUME session'.status = "ORDER_CREATED"
      PROVE  /\ session'.mode # "" /\ session'.order \in DOMAIN orders
             /\ Agrees(orders[session'.order], session')
    <2>1. Alike(session, session')
        BY <1>1 DEF RowStep
    <2>2. /\ session.mode # "" /\ session.order \in DOMAIN orders
          /\ Agrees(orders[session.order], session)
        BY <1>1, <2>1 DEF Alike, IInv, OrderSound
    <2>3. Total(session') = Total(session)
        BY <2>1, Zenon DEF Alike, Total
    <2> QED BY <2>1, <2>2, <2>3, Zenon DEF Alike, Agrees
<1> QED BY <1>1 DEF OrderSound

LEMMA BooksStay ==
    ASSUME BooksSound, UNCHANGED <<orders, tills>>
    PROVE  BooksSound'
<1>1. /\ orders' = orders /\ payments' = payments /\ jobs' = jobs /\ events' = events
      /\ bank' = bank /\ desk' = desk /\ answered' = answered
    BY DEF tills
<1>2. \A x : (Exact(x)' = Exact(x)) /\ (Quotes(x)' = Quotes(x))
    BY <1>1, Zenon DEF Exact, Quotes
<1>3. \A o : Paid(o)' = Paid(o) /\ Unpaid(o)' = Unpaid(o)
    BY <1>1, Zenon DEF Paid, Unpaid, Rows, RowsIn
<1>4. TillsOK' /\ TransfersSound'
    BY <1>1 DEF BooksSound, TillsOK, TransfersSound
<1>5. ReceiptsSound' /\ DesksSound' /\ AnswersSound'
    BY <1>1, <1>2, Zenon DEF BooksSound, ReceiptsSound, DesksSound, AnswersSound
<1>6. RowsSound'
    BY <1>1, <1>3, Zenon DEF BooksSound, RowsSound
<1> QED BY <1>4, <1>5, <1>6 DEF BooksSound

LibraryOK ==
    /\ catalogs \subseteq Families
    /\ request \in [Families -> {"", "PENDING", "COMPLETED", "FAILED"}]
    /\ agent \in [Families -> {"off", "advance", "idle", "reset", "select", "offer", "reopen"}]

LEMMA ChatSteps ==
    ASSUME IInv, RowStep, UNCHANGED <<orders, tills>>, shown' \subseteq Menus, messages' \in Nat,
           deaths' \in Nat, LibraryOK', HandlersOK', HandlersSound'
    PROVE  IInv'
<1>1. TypeOK'
    BY DEF IInv, TypeOK, RowStep, LibraryOK
<1>2. BooksSound
    BY DEF IInv
<1> QED BY <1>1, <1>2, OrderStays, BooksStay DEF IInv

\* The webhook's handlers that leave the catalogs, the counts of messages and of deaths alone.
LEMMA WebhookSteps ==
    ASSUME IInv, RowStep, UNCHANGED <<orders, tills, messages, deaths, library>>,
           shown' \subseteq Menus, HandlersOK', HandlersSound'
    PROVE  IInv'
<1>1. LibraryOK' /\ messages' \in Nat /\ deaths' \in Nat
    BY DEF IInv, TypeOK, LibraryOK, library
<1> QED BY <1>1, ChatSteps

\* The reports of the agent, which leave the handlers alone.
LEMMA AgentSteps ==
    ASSUME IInv, RowStep, LibraryOK', shown' \subseteq Menus,
           UNCHANGED <<orders, tills, update, ledger, hand, messages, deaths, writes>>
    PROVE  IInv'
<1>1. HandlersOK' /\ messages' \in Nat /\ deaths' \in Nat
    BY DEF IInv, TypeOK, HandlersOK
<1>2. ReadsSound'
    <2>1. ASSUME NEW u \in Updates, Reading(hand[u])
          PROVE  Evolves(hand[u].read, session')
        <3>1. /\ hand[u].read \in Session /\ Evolves(hand[u].read, session)
              /\ session \in Session /\ session' \in Session /\ Evolves(session, session')
            BY <2>1 DEF IInv, HandlersSound, ReadsSound, TypeOK, HandlersOK, Hand, RowStep
        <3> QED BY <3>1, EvolvesOn
    <2> QED BY <2>1 DEF ReadsSound
<1>3. FlowSound' /\ CountsSound'
    BY DEF IInv, HandlersSound, FlowSound, CountsSound
<1> QED BY <1>1, <1>2, <1>3, ChatSteps DEF HandlersSound

-----------------------------------------------------------------------------
(* The steps of the webhook *)

LEMMA AButton ==
    ASSUME NEW do, NEW arg, NEW token
    PROVE  /\ Button(do, arg, token).do = do /\ Button(do, arg, token).arg = arg
           /\ Button(do, arg, token).token = token
BY DEF Button

LEMMA UpdateOf ==
    ASSUME NEW do \in Taps \cup {"", "start", "url"}, NEW arg \in Args, NEW token \in Nat,
           do = "mode" => arg \in Modes, do = "format" => arg \in Formats,
           do = "url" => arg \in Families
    PROVE  Button(do, arg, token) \in Update
BY DEF Button, Update

LEMMA ButtonsFit ==
    ASSUME NEW m \in Menus
    PROVE  Buttons(m, AllStyles) \subseteq Update
<1>1. m.token \in Nat /\ m.name \in {"modes", "styles", "formats", "order"}
    BY DEF Menus
<1>2. ASSUME NEW does \in SUBSET (Taps \cup {"", "start", "url"}), NEW args \in SUBSET Args,
             "mode" \in does => args \subseteq Modes, "format" \in does => args \subseteq Formats,
             "url" \notin does
      PROVE  [do : does, arg : args, token : {m.token}] \subseteq Update
    BY <1>1, <1>2 DEF Update
<1>3. CASE m.name = "modes"
    <2>1. [do : {"mode"}, arg : Modes, token : {m.token}] \subseteq Update
        BY <1>2 DEF Taps, Args
    <2> QED BY <1>3, <2>1 DEF Buttons
<1>4. CASE m.name = "styles"
    <2>1. [do : {"style"}, arg : AllStyles, token : {m.token}] \subseteq Update
        BY <1>2 DEF Taps, Args
    <2>2. [do : {"all", "clear", "next"}, arg : {""}, token : {m.token}] \subseteq Update
        BY <1>2 DEF Taps, Args
    <2> QED BY <1>4, <2>1, <2>2 DEF Buttons
<1>5. CASE m.name = "formats"
    <2>1. [do : {"format"}, arg : Formats, token : {m.token}] \subseteq Update
        BY <1>2 DEF Taps, Args
    <2>2. [do : {"back", "review"}, arg : {""}, token : {m.token}] \subseteq Update
        BY <1>2 DEF Taps, Args
    <2> QED BY <1>5, <2>1, <2>2 DEF Buttons
<1>6. CASE m.name = "order"
    <2>1. [do : {"cancel", "confirm"}, arg : {""}, token : {m.token}] \subseteq Update
        BY <1>2 DEF Taps, Args
    <2> QED BY <1>6, <2>1 DEF Buttons
<1> QED BY <1>1, <1>3, <1>4, <1>5, <1>6

LEMMA InputsFit ==
    ASSUME shown \subseteq Menus
    PROVE  Inputs \subseteq Update
<1>1. Button("start", "", 0) \in Update
    BY UpdateOf DEF Args
<1>2. \A f \in Families : Button("url", f, 0) \in Update
    BY UpdateOf DEF Args
<1>3. \A m \in shown : Buttons(m, AllStyles) \subseteq Update
    BY ButtonsFit
<1> QED BY <1>1, <1>2, <1>3, Zenon DEF Inputs

LEMMA NoUpdateFits == NoUpdate \in Update
BY UpdateOf DEF NoUpdate, Args

LEMMA ReceiveKeeps ==
    ASSUME IInv, NEW u \in Updates, Receive(u)
    PROVE  IInv'
<1>1. /\ HandlersOK /\ session \in Session /\ shown \subseteq Menus
      /\ messages \in Nat /\ deaths \in Nat
    BY DEF IInv, TypeOK
<1> DEFINE h == [pc |-> "read", read |-> session, again |-> ledger[u] = "APPLIED", found |-> FALSE]
           l == IF ledger[u] = "" THEN "RECEIVED" ELSE ledger[u]
<1>2. h \in Hand /\ h.pc = "read" /\ h.read = session /\ h.again = (ledger[u] = "APPLIED")
    BY <1>1 DEF Hand, Places
<1>3. l \in Agreed /\ (ledger[u] = "APPLIED" => l = "APPLIED")
    BY <1>1 DEF HandlersOK, Agreed
<1>4. \E b \in Update : update' = [update EXCEPT ![u] = b]
    <2>1. CASE ledger[u] = ""
        <3>1. \E b \in Inputs : update' = [update EXCEPT ![u] = b]
            BY <2>1, Zenon DEF Receive
        <3> QED BY <1>1, <3>1, InputsFit
    <2>2. CASE ledger[u] # ""
        <3>1. update' = update
            BY <2>2, Zenon DEF Receive
        <3> QED BY <1>1, <3>1 DEF HandlersOK
    <2> QED BY <2>1, <2>2
<1>5. PICK b \in Update : update' = [update EXCEPT ![u] = b]
    BY <1>4
<1>6. /\ hand' = [hand EXCEPT ![u] = h] /\ ledger' = [ledger EXCEPT ![u] = l]
      /\ writes' = [writes EXCEPT ![u] = Delivered(writes[u])]
      /\ UNCHANGED <<orders, tills, session, minted, shown, deaths, library>>
    <2>1. ledger' = [ledger EXCEPT ![u] = l]
        BY <1>1 DEF Receive, HandlersOK
    <2> QED BY <2>1, Zenon DEF Receive
<1>7. messages' \in Nat
    <2>1. messages' = messages \/ messages' = messages + 1
        BY DEF Receive
    <2> QED BY <1>1, <2>1
<1> DEFINE w == writes[u]
<1>8. /\ w \in Counts /\ Delivered(w) \in Counts /\ Delivered(w).delivered = w.delivered + 1
      /\ Delivered(w).choice = w.choice /\ Delivered(w).catalog = w.catalog
      /\ Delivered(w).status = w.status
    BY <1>1, MoreWrites DEF HandlersOK
<1>9. Counted(hand[u], update[u], ledger[u], w)
    BY DEF IInv, HandlersSound, CountsSound
<1>10. RowStep
    BY <1>6, RowStays
<1> HIDE DEF h, l
<1>11. Counted(h, b, l, Delivered(w))
    <2>1. w.choice \in Nat /\ w.catalog \in Nat /\ w.status \in Nat /\ w.delivered \in Nat
        BY <1>8 DEF Counts
    <2>2. Delivered(w).status < Delivered(w).delivered /\ Delivered(w).status <= Delivered(w).delivered
        BY <1>8, <1>9, <2>1 DEF Counted
    <2>3. h.again => ~MayChange(h, b) /\ ~MayFill(h)
        BY <1>2, Zenon DEF MayChange, MayFill
    <2>4. b.do = "mode" \/ w.choice = 0 \/ w.catalog = 0
        <3>1. CASE ledger[u] = ""
            BY <1>9, <3>1, Zenon DEF Counted
        <3>2. CASE ledger[u] # ""
            <4>1. update' = update /\ update \in [Updates -> Update]
                BY <1>1, <3>2, Zenon DEF Receive, HandlersOK
            <4>2. b = update[u]
                BY <1>5, <4>1
            <4> QED BY <1>9, <4>2, Zenon DEF Counted
        <3> QED BY <3>1, <3>2
    <2>5. /\ w.choice = 0 \/ (w.choice = 1 /\ ledger[u] = "APPLIED")
          /\ w.catalog = 0 \/ (w.catalog = 1 /\ ledger[u] = "APPLIED")
        BY <1>9, Zenon DEF Counted
    <2> HIDE DEF w
    <2> QED BY <1>2, <1>3, <1>8, <2>2, <2>3, <2>4, <2>5, Zenon DEF Counted
<1>12. HandlersOK' /\ HandlersSound'
    <2>1. Reading(h) => Evolves(h.read, session')
        BY <1>2, <1>10 DEF RowStep
    <2>2. ~(h.pc \in {"ask", "flow"}) /\ h.pc # "order"
        BY <1>2
    <2>3. session' \in Session /\ Evolves(session, session')
        BY <1>10 DEF RowStep
    <2> HIDE DEF w
    <2> QED BY <1>2, <1>3, <1>5, <1>6, <1>8, <1>11, <2>1, <2>2, <2>3, HandlerSteps DEF w
<1>13. LibraryOK' /\ shown' \subseteq Menus /\ deaths' \in Nat
    BY <1>1, <1>6 DEF IInv, TypeOK, LibraryOK, library
<1> QED BY <1>6, <1>7, <1>10, <1>12, <1>13, ChatSteps

\* A handler that ends: its ledger row becomes l, its update b and its writes n.
LEMMA HandlerEnds ==
    ASSUME IInv, NEW u \in Updates, NEW l \in Agreed, NEW n \in Counts, NEW b \in Update,
           hand' = [hand EXCEPT ![u] = Off], ledger' = [ledger EXCEPT ![u] = l],
           writes' = [writes EXCEPT ![u] = n], update' = [update EXCEPT ![u] = b],
           \/ n = NoWrites
           \/ l = ledger[u] /\ b = update[u] /\ n = writes[u],
           UNCHANGED session
    PROVE  HandlersOK' /\ HandlersSound'
<1>1. Off \in Hand /\ Off.pc = "off"
    BY OffHand
<1>2. /\ Reading(Off) => Evolves(Off.read, session')
      /\ Off.pc \in {"ask", "flow"} => Linked(Off, b)
      /\ Off.pc = "order" => Off.read.mode # ""
    BY <1>1 DEF Reading
<1>3. Counted(Off, b, l, n)
    <2>1. ~MayChange(Off, b) /\ ~MayFill(Off) /\ ~MaySet(Off)
        BY <1>1 DEF MayChange, MayFill, MaySet
    <2>2. CASE n = NoWrites
        <3>1. n.choice = 0 /\ n.catalog = 0 /\ n.status = 0 /\ n.delivered = 0
            BY <2>2, MoreWrites
        <3>2. 0 <= 0
            OBVIOUS
        <3> QED BY <2>1, <3>1, <3>2, Zenon DEF Counted
    <2>3. CASE l = ledger[u] /\ b = update[u] /\ n = writes[u]
        <3>1. Counted(hand[u], b, l, n)
            BY <2>3 DEF IInv, HandlersSound, CountsSound
        <3> QED BY <2>1, <3>1, Zenon DEF Counted
    <2> QED BY <2>2, <2>3
<1>4. session' \in Session /\ Evolves(session, session')
    BY DEF IInv, TypeOK, Evolves, Alike
<1> HIDE DEF Off
<1> QED BY <1>1, <1>2, <1>3, <1>4, HandlerSteps

LEMMA CompleteKeeps ==
    ASSUME IInv, NEW u \in Updates, Complete(u)
    PROVE  IInv'
<1>1. "COMPLETED" \in Agreed /\ NoWrites \in Counts /\ NoUpdate \in Update
    BY NoUpdateFits DEF Agreed, NoWrites, Counts
<1>2. RowStep
    BY RowStays DEF Complete
<1>3. HandlersOK' /\ HandlersSound'
    BY <1>1, HandlerEnds, Zenon DEF Complete
<1>4. shown' \subseteq Menus /\ UNCHANGED <<orders, tills, messages, deaths, library>>
    BY DEF Complete, IInv, TypeOK
<1> QED BY <1>2, <1>3, <1>4, WebhookSteps

LEMMA DieKeeps ==
    ASSUME IInv, NEW u \in Updates, Die(u)
    PROVE  IInv'
<1>1. /\ HandlersOK /\ shown \subseteq Menus /\ messages \in Nat /\ deaths \in Nat
    BY DEF IInv, TypeOK
<1>2. /\ writes[u] \in Counts /\ writes = [writes EXCEPT ![u] = writes[u]]
      /\ ledger[u] \in Agreed /\ ledger = [ledger EXCEPT ![u] = ledger[u]]
      /\ update[u] \in Update /\ update = [update EXCEPT ![u] = update[u]]
    BY <1>1 DEF HandlersOK
<1>3. RowStep
    BY RowStays DEF Die
<1>4. HandlersOK' /\ HandlersSound'
    <2>1. /\ hand' = [hand EXCEPT ![u] = Off] /\ writes' = [writes EXCEPT ![u] = writes[u]]
          /\ ledger' = [ledger EXCEPT ![u] = ledger[u]]
          /\ update' = [update EXCEPT ![u] = update[u]] /\ UNCHANGED session
        BY <1>2, Zenon DEF Die
    <2> QED BY <1>1, <1>2, <2>1, HandlerEnds
<1>5. deaths' \in Nat
    BY <1>1 DEF Die
<1>6. LibraryOK' /\ shown' \subseteq Menus /\ messages' \in Nat
    BY <1>1 DEF Die, IInv, TypeOK, LibraryOK, library
<1> QED BY <1>3, <1>4, <1>5, <1>6, ChatSteps DEF Die

\* The token a row is minted with, or the last one.
LEMMA MintedStays ==
    ASSUME NEW new \in Session, minted \in Nat,
           minted' = IF new.token > minted THEN new.token ELSE minted
    PROVE  minted' \in Nat
BY Numbers

LEMMA NextToken ==
    ASSUME minted \in Nat
    PROVE  minted + 1 \in Nat
OBVIOUS

LEMMA RestartKeeps ==
    ASSUME IInv, NEW u \in Updates, Restart(u)
    PROVE  IInv'
<1>1. session \in Session /\ minted \in Nat /\ minted + 1 \in Nat /\ shown \subseteq Menus
    BY NextToken DEF IInv, TypeOK
<1>2. /\ hand[u].pc = "read" /\ Goto(u, "done") /\ Continue(u, "done", FALSE)
      /\ UNCHANGED <<orders, tills, update, shown, messages, deaths, library>>
    BY DEF Restart, Is, At, Goto
<1>3. "done" \in Places \ {"read"} /\ "done" \in {"done", "menu", "ask"} /\ FALSE \in BOOLEAN
    BY DEF Places
<1>4. CASE hand[u].again
    <2>1. UNCHANGED <<session, minted, ledger, writes>>
        BY <1>4 DEF Restart
    <2>2. RowStep
        BY <2>1, RowStays
    <2>3. HandlersOK' /\ HandlersSound'
        BY <1>2, <1>3, <2>1, <2>2, HandlerPasses DEF RowStep, Onward
    <2> QED BY <1>1, <1>2, <2>2, <2>3, WebhookSteps
<1>5. CASE ~hand[u].again
    <2>1. Change(u, Reset(session, minted + 1))
        BY <1>5 DEF Restart
    <2>2. /\ Reset(session, minted + 1) \in Session
          /\ Evolves(session, Reset(session, minted + 1))
          /\ Reset(session, minted + 1).status # "ORDER_CREATED"
        BY <1>1, ResetRow
    <2>3. RowStep
        <3>1. minted' \in Nat
            BY <1>1, <2>1, <2>2, MintedStays DEF Change
        <3> QED BY <2>1, <2>2, <3>1, RowChanges DEF Change
    <2>4. HandlersOK' /\ HandlersSound'
        <3>1. MayChange(hand[u], update[u])
            BY <1>2, <1>5 DEF MayChange
        <3> QED BY <1>2, <1>3, <2>1, <2>3, <3>1, HandlerChanges DEF Change, RowStep
    <2> QED BY <1>1, <1>2, <2>3, <2>4, WebhookSteps
<1> QED BY <1>4, <1>5

LEMMA RememberKeeps ==
    ASSUME IInv, NEW u \in Updates, Remember(u)
    PROVE  IInv'
<1>1. session \in Session /\ minted \in Nat /\ shown \subseteq Menus /\ update[u].arg \in Families
    BY DEF IInv, TypeOK, HandlersOK, Update, Remember, Is
<1>2. /\ hand[u].pc = "read" /\ Goto(u, "menu") /\ Continue(u, "menu", FALSE)
      /\ UNCHANGED <<orders, tills, update, shown, messages, deaths, library>>
    BY DEF Remember, Is, At, Goto
<1>3. "menu" \in Places \ {"read"} /\ "menu" \in {"done", "menu", "ask"} /\ FALSE \in BOOLEAN
    BY DEF Places
<1>4. CASE hand[u].again
    <2>1. UNCHANGED <<session, minted, ledger, writes>>
        BY <1>4 DEF Remember
    <2>2. RowStep
        BY <2>1, RowStays
    <2>3. HandlersOK' /\ HandlersSound'
        BY <1>2, <1>3, <2>1, <2>2, HandlerPasses DEF RowStep, Onward
    <2> QED BY <1>1, <1>2, <2>2, <2>3, WebhookSteps
<1>5. CASE ~hand[u].again
    <2> DEFINE new == WithPending(session, update[u].arg)
    <2>1. Change(u, new)
        BY <1>5 DEF Remember
    <2>2. new \in Session /\ Evolves(session, new) /\ Alike(session, new)
        BY <1>1, PendingRow
    <2> HIDE DEF new
    <2>3. RowStep
        <3>1. minted' \in Nat
            BY <1>1, <2>1, <2>2, MintedStays DEF Change
        <3> QED BY <2>1, <2>2, <3>1 DEF Change, RowStep
    <2>4. HandlersOK' /\ HandlersSound'
        <3>1. MayChange(hand[u], update[u])
            BY <1>2, <1>5 DEF MayChange
        <3> QED BY <1>2, <1>3, <2>1, <2>3, <3>1, HandlerChanges DEF Change, RowStep
    <2> QED BY <1>1, <1>2, <2>3, <2>4, WebhookSteps
<1> QED BY <1>4, <1>5

LEMMA AskKeeps ==
    ASSUME IInv, NEW u \in Updates, Ask(u)
    PROVE  IInv'
<1>1. /\ update[u] \in Update /\ hand[u].read \in Session
      /\ shown \subseteq Menus /\ messages \in Nat /\ deaths \in Nat /\ LibraryOK
      /\ hand[u].pc = "ask" => Linked(hand[u], update[u])
    BY DEF IInv, TypeOK, HandlersOK, Hand, LibraryOK, HandlersSound, FlowSound
<1> DEFINE f == Wanted(u)
           found == f \in catalogs
<1>2. /\ Continue(u, "flow", found)
      /\ request' = [request EXCEPT ![f] = IF f \in catalogs THEN "COMPLETED" ELSE
                                            IF @ = "COMPLETED" THEN @ ELSE "PENDING"]
      /\ UNCHANGED <<orders, tills, session, minted, update, ledger, shown, messages, deaths, writes,
                     catalogs, agent>>
    BY Zenon DEF Ask
<1>3. \/ update[u].do = "url" /\ hand[u].pc = "read"
      \/ update[u].do = "mode" /\ hand[u].read.pending # "" /\ hand[u].pc = "ask"
    BY <1>1, Zenon DEF Ask, Is, At, Linked
<1>4. RowStep
    BY <1>2, RowStays
<1> HIDE DEF f, found
<1>5. HandlersOK' /\ HandlersSound'
    <2>1. /\ "flow" \in Places \ {"read"} /\ found \in BOOLEAN
          /\ "flow" # "order" /\ "flow" # "ask"
        BY DEF Places, found
    <2>2. ledger' \in {ledger, Applied(u)} /\ UNCHANGED <<writes, update>>
        BY <1>2
    <2>3. Onward(hand[u], update[u], "flow")
        BY <1>3 DEF Onward
    <2> QED BY <1>2, <1>3, <1>4, <2>1, <2>2, <2>3, HandlerPasses DEF RowStep
<1>6. LibraryOK'
    BY <1>1, <1>2 DEF LibraryOK
<1>7. shown' \subseteq Menus /\ messages' \in Nat /\ deaths' \in Nat
    BY <1>1, <1>2
<1> QED BY <1>2, <1>4, <1>5, <1>6, <1>7, ChatSteps

LEMMA AwaitKeeps ==
    ASSUME IInv, NEW u \in Updates, Await(u)
    PROVE  IInv'
<1>1. session \in Session /\ minted \in Nat /\ shown \subseteq Menus
    BY DEF IInv, TypeOK
<1>2. /\ hand[u].pc = "flow" /\ Goto(u, "done") /\ Continue(u, "done", FALSE)
      /\ UNCHANGED <<orders, tills, minted, update, ledger, shown, messages, deaths, library>>
    BY DEF Await, At, Goto
<1>3. CASE hand[u].again
    <2>1. UNCHANGED <<session, minted, ledger, writes>>
        BY <1>2, <1>3 DEF Await
    <2>2. RowStep
        BY <2>1, RowStays
    <2>3. "done" \in Places \ {"read"} /\ FALSE \in BOOLEAN
        BY DEF Places
    <2>4. HandlersOK' /\ HandlersSound'
        BY <1>2, <2>1, <2>2, <2>3, HandlerPasses DEF RowStep, Onward
    <2> QED BY <1>1, <1>2, <2>2, <2>4, WebhookSteps
<1>4. CASE ~hand[u].again
    <2>1. /\ session' = WithStatus(session, "AWAITING_CATALOG")
          /\ writes' = [writes EXCEPT ![u] = StatusSet(@)]
        BY <1>4 DEF Await, SetStatus
    <2>2. /\ WithStatus(session, "AWAITING_CATALOG") \in Session
          /\ Evolves(session, WithStatus(session, "AWAITING_CATALOG"))
          /\ WithStatus(session, "AWAITING_CATALOG").status # "ORDER_CREATED"
        BY <1>1, StatusRow DEF Statuses
    <2>3. RowStep
        BY <1>1, <1>2, <2>1, <2>2, RowChanges
    <2>4. MaySet(hand[u])
        BY <1>2 DEF MaySet
    <2>5. HandlersOK' /\ HandlersSound'
        BY <1>2, <2>1, <2>3, <2>4, HandlerSets DEF RowStep
    <2> QED BY <1>1, <1>2, <2>3, <2>5, WebhookSteps
<1> QED BY <1>3, <1>4

LEMMA WantedFits ==
    ASSUME HandlersOK, NEW u \in Updates
    PROVE  update[u].do = "url" \/ hand[u].read.pending # "" => Wanted(u) \in Families
BY DEF HandlersOK, Hand, Session, Update, Wanted

LEMMA SelectKeeps ==
    ASSUME IInv, NEW u \in Updates, Select(u)
    PROVE  IInv'
<1>1. /\ session \in Session /\ minted \in Nat /\ minted + 1 \in Nat /\ shown \subseteq Menus
      /\ HandlersOK /\ Linked(hand[u], update[u])
    BY NextToken DEF IInv, TypeOK, Select, At, HandlersSound, FlowSound
<1>2. /\ hand[u].pc = "flow" /\ Goto(u, "offer") /\ Continue(u, "offer", FALSE)
      /\ UNCHANGED <<orders, tills, update, shown, messages, deaths, library>>
    BY DEF Select, At, Goto
<1>3. "offer" \in Places \ {"read"} /\ FALSE \in BOOLEAN /\ Onward(hand[u], update[u], "offer")
    BY <1>2 DEF Places, Onward
<1>4. CASE hand[u].again
    <2>1. UNCHANGED <<session, minted, ledger, writes>>
        BY <1>4 DEF Select
    <2>2. RowStep
        BY <2>1, RowStays
    <2>3. HandlersOK' /\ HandlersSound'
        BY <1>2, <1>3, <2>1, <2>2, HandlerPasses DEF RowStep, Onward
    <2> QED BY <1>1, <1>2, <2>2, <2>3, WebhookSteps
<1>5. CASE ~hand[u].again
    <2>1. /\ session' = WithCatalog(session, minted + 1, Wanted(u)) /\ minted' = minted + 1
          /\ ledger' = Applied(u)
          /\ writes' = [writes EXCEPT ![u] = Filled(@)]
        BY <1>5 DEF Select
    <2>2. Wanted(u) \in Families \cup {""}
        BY <1>1, WantedFits, Zenon DEF Linked
    <2>3. RowStep
        <3>1. /\ WithCatalog(session, minted + 1, Wanted(u)) \in Session
              /\ Evolves(session, WithCatalog(session, minted + 1, Wanted(u)))
              /\ WithCatalog(session, minted + 1, Wanted(u)).status # "ORDER_CREATED"
            BY <1>1, <2>2, CatalogRow
        <3> QED BY <1>1, <2>1, <3>1, RowChanges
    <2>4. Step(u, "offer", "APPLIED", Filled(writes[u]))
        BY <1>2, <1>5, Zenon DEF Step
    <2>5. /\ ledger' = [ledger EXCEPT ![u] = "APPLIED"]
          /\ writes' = [writes EXCEPT ![u] = Filled(writes[u])]
        BY <2>1 DEF Applied
    <2>6. HandlersOK' /\ HandlersSound'
        BY <1>2, <1>3, <2>3, <2>4, <2>5, HandlerGoes DEF RowStep
    <2> QED BY <1>1, <1>2, <2>3, <2>6, WebhookSteps
<1> QED BY <1>4, <1>5

\* A handler that only goes on, maybe after it sent a keyboard.
LEMMA HandlerShows ==
    ASSUME IInv, NEW u \in Updates, NEW pc \in Places \ {"read", "ask", "flow"}, Goto(u, pc),
           UNCHANGED <<orders, tills, session, minted, update, ledger, messages, deaths, writes, library>>,
           shown' \subseteq Menus, Onward(hand[u], update[u], pc),
           pc = "order" => hand[u].read.mode # ""
    PROVE  IInv'
<1>1. RowStep
    BY RowStays
<1>2. Continue(u, pc, FALSE) /\ FALSE \in BOOLEAN /\ ledger' \in {ledger, Applied(u)}
    BY DEF Goto
<1>3. HandlersOK' /\ HandlersSound'
    BY <1>1, <1>2, HandlerPasses DEF RowStep
<1> QED BY <1>1, <1>3, WebhookSteps

LEMMA MenuFits ==
    ASSUME NEW name \in {"modes", "styles", "formats", "order"}, NEW token \in Nat
    PROVE  Menu(name, token) \in Menus
BY DEF Menu, Menus

LEMMA OfferKeeps ==
    ASSUME IInv, NEW u \in Updates, Offer(u)
    PROVE  IInv'
<1>1. session \in Session /\ shown \subseteq Menus
    BY DEF IInv, TypeOK
<1>2. Menu("styles", session.token) \in Menus
    BY <1>1, Numbers, MenuFits
<1>3. shown' \subseteq Menus
    BY <1>1, <1>2 DEF Offer
<1>4. /\ "reopen" \in Places \ {"read", "ask", "flow"} /\ "reopen" # "order"
      /\ Onward(hand[u], update[u], "reopen")
    BY DEF Places, Offer, At, Onward
<1> QED BY <1>3, <1>4, HandlerShows DEF Offer

LEMMA ReopenKeeps ==
    ASSUME IInv, NEW u \in Updates, Reopen(u)
    PROVE  IInv'
<1>1. session \in Session /\ minted \in Nat /\ shown \subseteq Menus
    BY DEF IInv, TypeOK
<1>2. /\ hand[u].pc = "reopen" /\ Goto(u, "done")
      /\ session' = WithStatus(session, "SELECTING_STYLES")
      /\ writes' = [writes EXCEPT ![u] = StatusSet(@)]
      /\ UNCHANGED <<orders, tills, minted, update, ledger, shown, messages, deaths, library>>
    BY DEF Reopen, At, SetStatus
<1>3. RowStep
    <2>1. /\ WithStatus(session, "SELECTING_STYLES") \in Session
          /\ Evolves(session, WithStatus(session, "SELECTING_STYLES"))
          /\ WithStatus(session, "SELECTING_STYLES").status # "ORDER_CREATED"
        BY <1>1, StatusRow DEF Statuses
    <2> QED BY <1>1, <1>2, <2>1, RowChanges
<1>4. HandlersOK' /\ HandlersSound'
    <2>1. MaySet(hand[u])
        BY <1>2 DEF MaySet
    <2> QED BY <1>2, <1>3, <2>1, HandlerSets DEF RowStep
<1> QED BY <1>1, <1>2, <1>3, <1>4, WebhookSteps

LEMMA RefuseKeeps ==
    ASSUME IInv, NEW u \in Updates, Refuse(u)
    PROVE  IInv'
<1>1. /\ "done" \in Places \ {"read", "ask", "flow"} /\ "done" # "order"
      /\ Onward(hand[u], update[u], "done")
    BY DEF Places, Onward
<1>2. shown' \subseteq Menus
    BY DEF Refuse, IInv, TypeOK
<1> QED BY <1>1, <1>2, HandlerShows DEF Refuse

LEMMA ReplayKeeps ==
    ASSUME IInv, NEW u \in Updates, Replay(u)
    PROVE  IInv'
<1>1. /\ "done" \in Places \ {"read", "ask", "flow"} /\ "done" # "order"
      /\ Onward(hand[u], update[u], "done")
    BY DEF Places, Onward
<1>2. hand[u].read \in Session /\ shown \subseteq Menus
    BY DEF IInv, TypeOK, HandlersOK, Hand
<1>3. hand[u].read.token \in Nat
    BY <1>2, Numbers
<1>4. \A name \in {"styles", "formats", "order"} : Menu(name, hand[u].read.token) \in Menus
    BY <1>3, MenuFits
<1>5. shown' \subseteq Menus
    BY <1>2, <1>4 DEF Replay, MenuOf
<1> QED BY <1>1, <1>5, HandlerShows DEF Replay

LEMMA DrawKeeps ==
    ASSUME IInv, NEW u \in Updates, Draw(u)
    PROVE  IInv'
<1>1. /\ "done" \in Places \ {"read", "ask", "flow"} /\ "done" # "order"
      /\ Onward(hand[u], update[u], "done")
    BY DEF Places, Onward
<1>2. hand[u].read \in Session /\ update[u] \in Update /\ shown \subseteq Menus
    BY DEF IInv, TypeOK, HandlersOK, Hand
<1>3. hand[u].read.token \in Nat /\ update[u].token \in Nat
    BY <1>2, Numbers DEF Update
<1>4. \A name \in {"modes", "styles", "formats", "order"} :
          Menu(name, hand[u].read.token) \in Menus /\ Menu(name, update[u].token) \in Menus
    BY <1>3, MenuFits
<1>5. shown' \subseteq Menus
    BY <1>2, <1>4 DEF Draw, MenuAfter
<1> QED BY <1>1, <1>5, HandlerShows DEF Draw

LEMMA FindOrderKeeps ==
    ASSUME IInv, NEW u \in Updates, FindOrder(u)
    PROVE  IInv'
<1>1. {"done", "order"} \subseteq Places \ {"read", "ask", "flow"}
    BY DEF Places
<1>2. PICK pc \in {"done", "order"} : Goto(u, pc)
    BY Zenon DEF FindOrder
<1>3. hand[u].pc = "read" /\ ~hand[u].again /\ hand[u].read.mode # ""
    BY Zenon DEF FindOrder, Is, At, Admits
<1>4. shown' \subseteq Menus
    BY DEF FindOrder, IInv, TypeOK
<1>5. pc \in Places \ {"read", "ask", "flow"} /\ Onward(hand[u], update[u], pc)
    BY <1>1, <1>2, <1>3 DEF Onward
<1> QED BY <1>2, <1>3, <1>4, <1>5, HandlerShows DEF FindOrder

LEMMA TapKeeps ==
    ASSUME IInv, NEW u \in Updates, Tap(u)
    PROVE  IInv'
<1> DEFINE b == update[u]
           read == hand[u].read
           new == Written(session, read, b, minted + 1)
<1>1. /\ session \in Session /\ minted \in Nat /\ minted + 1 \in Nat /\ shown \subseteq Menus
      /\ b \in Update /\ read \in Session
    BY NextToken DEF IInv, TypeOK, HandlersOK, Hand
<1>2. /\ hand[u].pc = "read" /\ ~hand[u].again /\ b.do \in Taps \ {"confirm"} /\ Admits(read, b)
      /\ UNCHANGED <<orders, tills, update, shown, messages, deaths, library>>
    BY Zenon DEF Tap, IsTap, At
<1>3. "done" \in Places \ {"read"} /\ FALSE \in BOOLEAN /\ Onward(hand[u], b, "done")
    BY DEF Places, Onward
<1>4. CASE Hits(session, read, b.do)
    <2>1. Change(u, new) /\ Goto(u, IF b.do = "mode" /\ read.pending # "" THEN "ask" ELSE "menu")
        BY <1>4, Zenon DEF Tap
    <2>2. new \in Session /\ Evolves(session, new) /\ new.status # "ORDER_CREATED"
        <3>1. session.status = "ORDER_CREATED" => session.mode # ""
            BY DEF IInv, OrderSound
        <3> QED BY <1>1, <1>2, <1>4, <3>1, WrittenRow
    <2> HIDE DEF new
    <2>3. RowStep
        <3>1. minted' \in Nat
            BY <1>1, <2>1, <2>2, MintedStays DEF Change
        <3> QED BY <2>1, <2>2, <3>1, RowChanges DEF Change
    <2>4. PICK pc \in {"ask", "menu"} :
              Goto(u, pc) /\ (pc = "ask" => b.do = "mode" /\ read.pending # "")
        BY <2>1, Zenon
    <2>5. pc \in {"done", "menu", "ask"}
        BY <2>4
    <2>6. MayChange(hand[u], update[u])
        BY <1>2 DEF MayChange
    <2>7. /\ ledger' = Applied(u) /\ writes' = [writes EXCEPT ![u] = Chosen(@)] /\ update' = update
          /\ session' \in Session /\ Evolves(session, session')
        BY <1>2, <2>1, <2>3 DEF Change, RowStep
    <2>8. HandlersOK' /\ HandlersSound'
        BY <1>2, <2>4, <2>5, <2>6, <2>7, HandlerChanges
    <2> QED BY <1>1, <1>2, <2>3, <2>8, WebhookSteps
<1>5. CASE ~Hits(session, read, b.do)
    <2>1. /\ ledger' \in {ledger, Applied(u)} /\ Continue(u, "done", FALSE)
          /\ UNCHANGED <<session, minted, writes>>
        BY <1>5 DEF Tap, Goto
    <2>2. RowStep
        BY <2>1, RowStays
    <2>3. HandlersOK' /\ HandlersSound'
        BY <1>2, <1>3, <2>1, <2>2, HandlerPasses DEF RowStep
    <2> QED BY <1>1, <1>2, <2>2, <2>3, WebhookSteps
<1> QED BY <1>4, <1>5

-----------------------------------------------------------------------------
(* The steps of the agent's reports *)

\* A report that leaves the row and the keyboards alone.
LEMMA LibrarySteps ==
    ASSUME IInv, LibraryOK', UNCHANGED <<orders, tills, chat>>
    PROVE  IInv'
<1>1. RowStep
    BY RowStays DEF chat
<1>2. shown' \subseteq Menus
    BY DEF IInv, TypeOK, chat
<1> QED BY <1>1, <1>2, AgentSteps DEF chat

LEMMA ReportsKeep ==
    ASSUME IInv, NEW f \in Families, Persist(f) \/ FailRequest(f) \/ Look(f)
    PROVE  IInv'
<1>1. LibraryOK
    BY DEF IInv, TypeOK, LibraryOK
<1>2. CASE Persist(f)
    <2>1. LibraryOK'
        BY <1>1, <1>2 DEF Persist, Report_, LibraryOK
    <2> QED BY <1>2, <2>1, LibrarySteps DEF Persist
<1>3. CASE FailRequest(f)
    <2>1. LibraryOK'
        BY <1>1, <1>3 DEF FailRequest, Report_, LibraryOK
    <2> QED BY <1>3, <2>1, LibrarySteps DEF FailRequest
<1>4. CASE Look(f)
    <2>1. PICK to \in {"off", "reset", "select"} : agent' = [agent EXCEPT ![f] = to]
        BY <1>4, Zenon DEF Look, Report_
    <2>2. LibraryOK'
        BY <1>1, <1>4, <2>1 DEF Look, LibraryOK
    <2> QED BY <1>4, <2>2, LibrarySteps DEF Look
<1> QED BY <1>2, <1>3, <1>4

LEMMA IdleKeeps ==
    ASSUME IInv, NEW f \in Families, Idle(f)
    PROVE  IInv'
<1>1. /\ session \in Session /\ minted \in Nat /\ minted + 1 \in Nat /\ shown \subseteq Menus
      /\ LibraryOK /\ f \in Families \cup {""}
    BY NextToken DEF IInv, TypeOK, LibraryOK
<1>2. /\ WithStatus(session, "IDLE") \in Session
      /\ Evolves(session, WithStatus(session, "IDLE"))
      /\ WithStatus(session, "IDLE").status # "ORDER_CREATED"
    BY <1>1, StatusRow DEF Statuses
<1>3. RowStep
    BY <1>1, <1>2, RowChanges DEF Idle
<1>4. LibraryOK' /\ shown' \subseteq Menus
    BY <1>1 DEF Idle, Report_, LibraryOK
<1> QED BY <1>3, <1>4, AgentSteps DEF Idle

LEMMA AdvanceKeeps ==
    ASSUME IInv, NEW f \in Families, Advance(f)
    PROVE  IInv'
<1>1. /\ session \in Session /\ minted \in Nat /\ minted + 1 \in Nat /\ shown \subseteq Menus
      /\ LibraryOK /\ f \in Families \cup {""}
    BY NextToken DEF IInv, TypeOK, LibraryOK
<1>2. /\ WithCatalog(session, minted + 1, f) \in Session
      /\ Evolves(session, WithCatalog(session, minted + 1, f))
      /\ WithCatalog(session, minted + 1, f).status # "ORDER_CREATED"
    BY <1>1, CatalogRow DEF Statuses
<1>3. RowStep
    BY <1>1, <1>2, RowChanges DEF Advance
<1>4. LibraryOK' /\ shown' \subseteq Menus
    BY <1>1 DEF Advance, Report_, LibraryOK
<1> QED BY <1>3, <1>4, AgentSteps DEF Advance

LEMMA ReopenStylesKeeps ==
    ASSUME IInv, NEW f \in Families, ReopenStyles(f)
    PROVE  IInv'
<1>1. /\ session \in Session /\ minted \in Nat /\ minted + 1 \in Nat /\ shown \subseteq Menus
      /\ LibraryOK /\ f \in Families \cup {""}
    BY NextToken DEF IInv, TypeOK, LibraryOK
<1>2. /\ WithStatus(session, "SELECTING_STYLES") \in Session
      /\ Evolves(session, WithStatus(session, "SELECTING_STYLES"))
      /\ WithStatus(session, "SELECTING_STYLES").status # "ORDER_CREATED"
    BY <1>1, StatusRow DEF Statuses
<1>3. RowStep
    BY <1>1, <1>2, RowChanges DEF ReopenStyles
<1>4. LibraryOK' /\ shown' \subseteq Menus
    BY <1>1 DEF ReopenStyles, Report_, LibraryOK
<1> QED BY <1>3, <1>4, AgentSteps DEF ReopenStyles

LEMMA OfferStylesKeeps ==
    ASSUME IInv, NEW f \in Families, OfferStyles(f)
    PROVE  IInv'
<1>1. session \in Session /\ shown \subseteq Menus /\ LibraryOK
    BY DEF IInv, TypeOK, LibraryOK
<1>2. Menu("styles", session.token) \in Menus
    BY <1>1, Numbers, MenuFits
<1>3. RowStep
    BY RowStays DEF OfferStyles
<1>4. LibraryOK' /\ shown' \subseteq Menus
    BY <1>1, <1>2 DEF OfferStyles, Report_, LibraryOK
<1> QED BY <1>3, <1>4, AgentSteps DEF OfferStyles

-----------------------------------------------------------------------------
(* Orders and payments *)

LEMMA RowsOfAppended ==
    ASSUME NEW S, NEW table \in Seq(S), NEW o, NEW p
    PROVE  RowsIn(Append(table, o), p) =
               IF p = o THEN RowsIn(table, p) \cup {Len(table) + 1} ELSE RowsIn(table, p)
BY DEF RowsIn

\* An order just made has no rows yet.
LEMMA BooksOfNew ==
    ASSUME BooksSound, orders \in Seq(Order), UNCHANGED tills, NEW new \in Order,
           new.status = "AWAITING_PAYMENT", orders' = Append(orders, new)
    PROVE  BooksSound'
<1> DEFINE n == Len(orders) + 1
<1>1. /\ payments' = payments /\ jobs' = jobs /\ events' = events
      /\ bank' = bank /\ desk' = desk /\ answered' = answered
    BY DEF tills
<1>2. /\ DOMAIN orders' = DOMAIN orders \cup {n} /\ n \notin DOMAIN orders
      /\ \A o \in DOMAIN orders : orders'[o] = orders[o]
      /\ orders'[n] = new
    OBVIOUS
<1> HIDE DEF n
<1>3. \A x : (Exact(x)' <=> Exact(x)) /\ (Quotes(x)' <=> Quotes(x))
    <2>1. ASSUME NEW x \in Transactions, bank[x].exact
          PROVE  bank[x].order \in DOMAIN orders
        BY <2>1 DEF BooksSound, TransfersSound, NoTransfer
    <2>2. \A x : Exact(x)' <=> Exact(x)
        BY <1>1, <1>2, <2>1, Zenon DEF Exact
    <2> QED BY <1>1, <2>2, Zenon DEF Quotes
<1>4. \A o : Paid(o)' = Paid(o) /\ Unpaid(o)' = Unpaid(o)
    BY <1>1, Zenon DEF Paid, Unpaid, Rows, RowsIn
<1>5. \A p \in payments : p.order \in DOMAIN orders
    BY DEF BooksSound, ReceiptsSound, Quotes, Exact
<1>6. TillsOK' /\ TransfersSound'
    BY <1>1, <1>2 DEF BooksSound, TillsOK, TransfersSound
<1>7. ReceiptsSound' /\ DesksSound'
    BY <1>1, <1>2, <1>3, <1>5, Zenon DEF BooksSound, ReceiptsSound, DesksSound
<1>8. RowsSound'
    <2>1. Rows(n) = {}
        BY <1>2, <1>5 DEF Rows
    <2>2. RowsIn(jobs, n) = {} /\ RowsIn(events, n) = {}
        BY <1>2 DEF BooksSound, TillsOK, RowsIn
    <2>3. Unpaid(n)
        BY <2>1, <2>2 DEF Unpaid
    <2> QED BY <1>2, <1>4, <2>3 DEF BooksSound, RowsSound
<1>9. AnswersSound'
    <2>1. ASSUME NEW x \in answered, Exact(x)
          PROVE  orders'[bank[x].order].status = "PAID"
        <3>1. bank[x].order \in DOMAIN orders /\ orders[bank[x].order].status = "PAID"
            BY <2>1, Zenon DEF BooksSound, AnswersSound, Exact
        <3> QED BY <1>2, <3>1, Zenon
    <2> QED BY <1>1, <1>3, <2>1, Zenon DEF AnswersSound
<1> QED BY <1>6, <1>7, <1>8, <1>9 DEF BooksSound

LEMMA CreateOrderKeeps ==
    ASSUME IInv, NEW u \in Updates, CreateOrder(u)
    PROVE  IInv'
<1> DEFINE r == hand[u].read
           new == [token |-> r.token, catalog |-> r.catalog, styles |-> r.styles,
                   formats |-> r.formats, mode |-> r.mode, total |-> Total(r),
                   status |-> "AWAITING_PAYMENT"]
           n == Len(orders) + 1
<1>1. /\ session \in Session /\ minted \in Nat /\ shown \subseteq Menus /\ r \in Session
      /\ orders \in Seq(Order) /\ messages \in Nat /\ deaths \in Nat
    BY DEF IInv, TypeOK, HandlersOK, Hand
<1>2. /\ hand[u].pc = "order" /\ Goto(u, "done") /\ Continue(u, "done", FALSE)
      /\ UNCHANGED <<tills, update, shown, messages, deaths, library>>
    BY DEF CreateOrder, At, Goto
<1>3. /\ "done" \in Places \ {"read"} /\ "done" \in {"done", "menu", "ask"} /\ FALSE \in BOOLEAN
      /\ Onward(hand[u], update[u], "done")
    BY DEF Places, Onward
<1>4. CASE ~(Hits(session, r, "confirm") /\ ~Ordering(r.token))
    <2>1. UNCHANGED <<orders, session, minted, ledger, writes>>
        BY <1>4, Zenon DEF CreateOrder
    <2>2. RowStep
        BY <2>1, RowStays
    <2>3. ledger' \in {ledger, Applied(u)} /\ UNCHANGED <<writes, update>>
        BY <1>2, <2>1
    <2>4. HandlersOK' /\ HandlersSound'
        BY <1>2, <1>3, <2>2, <2>3, HandlerPasses DEF RowStep
    <2> QED BY <1>1, <1>2, <2>1, <2>2, <2>4, WebhookSteps
<1>5. CASE Hits(session, r, "confirm") /\ ~Ordering(r.token)
    <2>1. orders' = Append(orders, new) /\ Change(u, Ordered(session, n))
        BY <1>5, Zenon DEF CreateOrder
    <2>2. n \in Nat /\ n \in DOMAIN Append(orders, new) /\ Append(orders, new)[n] = new
        BY <1>1
    <2>3. /\ new.token = r.token /\ new.catalog = r.catalog /\ new.styles = r.styles
          /\ new.formats = r.formats /\ new.mode = r.mode /\ new.total = Total(r)
          /\ new.status = "AWAITING_PAYMENT"
        OBVIOUS
    <2>4. new \in Order
        BY <1>1, Zenon DEF Order, Session
    <2>5. Alike(r, session) /\ r.mode # ""
        <3>1. Evolves(r, session) /\ r.mode # ""
            BY <1>2 DEF IInv, HandlersSound, ReadsSound, FlowSound, Reading
        <3>2. session.version = r.version /\ session.version \in Nat
            BY <1>1, <1>5, Numbers DEF Hits
        <3>3. ~(r.version < session.version)
            BY <3>2
        <3> QED BY <3>1, <3>3, Zenon DEF Evolves
    <2> HIDE DEF new, n
    <2>6. /\ Ordered(session, n) \in Session /\ Evolves(session, Ordered(session, n))
          /\ Ordered(session, n).order = n
          /\ Ordered(session, n).token = session.token
          /\ Ordered(session, n).catalog = session.catalog
          /\ Ordered(session, n).styles = session.styles
          /\ Ordered(session, n).formats = session.formats
          /\ Ordered(session, n).mode = session.mode
        BY <1>1, <2>2, OrderedRow
    <2>7. minted' \in Nat
        BY <1>1, <2>1, <2>6, MintedStays DEF Change
    <2>8. session' \in Session /\ Evolves(session, session') /\ session' = Ordered(session, n)
        BY <2>1, <2>6 DEF Change
    <2>9. HandlersOK' /\ HandlersSound'
        <3>1. MayChange(hand[u], update[u])
            BY <1>2 DEF MayChange
        <3>2. /\ ledger' = Applied(u) /\ writes' = [writes EXCEPT ![u] = Chosen(@)]
              /\ update' = update
            BY <1>2, <2>1 DEF Change
        <3> QED BY <1>2, <1>3, <2>8, <3>1, <3>2, HandlerChanges
    <2>10. OrderSound'
        <3>1. Total(session') = Total(r)
            BY <2>5, <2>6, <2>8, Zenon DEF Alike, Total
        <3>2. Agrees(new, session')
            BY <2>3, <2>5, <2>6, <2>8, <3>1, Zenon DEF Alike, Agrees
        <3>3. /\ session'.order \in DOMAIN orders' /\ orders'[session'.order] = new
              /\ session'.mode # ""
            BY <2>1, <2>2, <2>5, <2>6, <2>8, Zenon DEF Alike
        <3> QED BY <3>2, <3>3, Zenon DEF OrderSound
    <2>11. BooksSound'
        BY <1>1, <1>2, <2>1, <2>3, <2>4, BooksOfNew DEF IInv
    <2>12. orders' \in Seq(Order)
        BY <1>1, <2>1, <2>4
    <2>13. TypeOK'
        BY <1>1, <1>2, <2>7, <2>8, <2>9, <2>12 DEF IInv, TypeOK, library
    <2> QED BY <2>9, <2>10, <2>11, <2>13 DEF IInv
<1> QED BY <1>4, <1>5

LEMMA OrderTyped ==
    ASSUME orders \in Seq(Order), NEW o \in DOMAIN orders
    PROVE  orders[o] \in Order /\ orders[o].status \in {"AWAITING_PAYMENT", "PAID"}
<1>1. orders[o] \in Order
    OBVIOUS
<1> QED BY <1>1 DEF Order

\* Transfers are made, and desks and answers move, while orders and their rows stay.
LEMMA BooksKept ==
    ASSUME BooksSound, UNCHANGED <<orders, payments, jobs, events>>,
           \A x \in Transactions : bank[x] # NoTransfer => bank'[x] = bank[x],
           TillsOK', TransfersSound',
           \A d \in Desks : desk'[d] \in {Free, desk[d]} \/ Quotes(desk'[d]),
           answered' \subseteq {x \in Transactions : bank[x] # NoTransfer},
           \A x \in answered' : Exact(x) => orders[bank[x].order].status = "PAID"
    PROVE  BooksSound'
<1>1. ASSUME NEW x, Exact(x)
      PROVE  Exact(x)' /\ bank'[x] = bank[x]
    <2>1. x \in Transactions /\ bank[x] # NoTransfer
        BY <1>1 DEF Exact, NoTransfer
    <2> QED BY <1>1, <2>1, Zenon DEF Exact
<1>2. ASSUME NEW row, Quotes(row)
      PROVE  Quotes(row)'
    BY <1>1, <1>2, Zenon DEF Quotes
<1>3. \A o : Paid(o)' = Paid(o) /\ Unpaid(o)' = Unpaid(o)
    BY Zenon DEF Paid, Unpaid, Rows, RowsIn
<1>4. ReceiptsSound'
    BY <1>2, Zenon DEF BooksSound, ReceiptsSound
<1>5. DesksSound'
    <2>1. \A d \in Desks : desk[d] = Free \/ Quotes(desk[d])
        BY DEF BooksSound, DesksSound
    <2>2. \A d \in Desks : desk'[d] = Free \/ Quotes(desk'[d])
        BY <2>1, Zenon
    <2> QED BY <1>2, <2>2, Zenon DEF DesksSound
<1>6. RowsSound'
    BY <1>3, Zenon DEF BooksSound, RowsSound
<1>7. AnswersSound'
    <2>1. ASSUME NEW x \in answered'
          PROVE  bank'[x] = bank[x] /\ (Exact(x)' <=> Exact(x))
        BY <2>1, Zenon DEF Exact
    <2> QED BY <2>1, Zenon DEF AnswersSound
<1> QED BY <1>4, <1>5, <1>6, <1>7 DEF BooksSound

LEMMA PayKeeps ==
    ASSUME BooksSound, orders \in Seq(Order), NEW x \in Transactions, Pay(x)
    PROVE  BooksSound'
<1>1. PICK o \in DOMAIN orders, exact \in BOOLEAN :
          bank' = [bank EXCEPT ![x] = [order |-> o, exact |-> exact]]
    BY DEF Pay
<1>2. /\ bank[x] = NoTransfer /\ UNCHANGED <<orders, payments, jobs, events, desk, answered>>
      /\ bank \in [Transactions -> Transfer]
    BY DEF Pay, BooksSound, TillsOK
<1>3. [order |-> o, exact |-> exact] \in Transfer
    <2>1. o \in Nat
        OBVIOUS
    <2> QED BY <2>1 DEF Transfer
<1>4. \A y \in Transactions : bank[y] # NoTransfer => bank'[y] = bank[y]
    BY <1>1, <1>2, Zenon
<1>5. answered \subseteq {y \in Transactions : bank[y] # NoTransfer} /\ DOMAIN desk = Desks
    BY DEF BooksSound, TillsOK
<1>6. TillsOK'
    <2>1. bank' \in [Transactions -> Transfer]
        BY <1>1, <1>2, <1>3
    <2>2. answered' \subseteq {y \in Transactions : bank'[y] # NoTransfer}
        BY <1>2, <1>4, <1>5
    <2> QED BY <1>2, <1>5, <2>1, <2>2 DEF BooksSound, TillsOK
<1>7. TransfersSound'
    BY <1>1, <1>2 DEF BooksSound, TransfersSound
<1>8. \A y \in answered : Exact(y) => orders[bank[y].order].status = "PAID"
    BY DEF BooksSound, AnswersSound
<1> QED BY <1>2, <1>4, <1>5, <1>6, <1>7, <1>8, BooksKept, Zenon

LEMMA LostKeeps ==
    ASSUME BooksSound, NEW d \in Desks, Lost(d)
    PROVE  BooksSound'
<1>1. /\ desk' = [desk EXCEPT ![d] = Free]
      /\ UNCHANGED <<orders, payments, jobs, events, bank, answered>>
    BY DEF Lost
<1>2. TillsOK' /\ TransfersSound'
    BY <1>1 DEF BooksSound, TillsOK, TransfersSound
<1>3. \A e \in Desks : desk'[e] \in {Free, desk[e]}
    BY <1>1 DEF BooksSound, TillsOK
<1>4. /\ answered' \subseteq {y \in Transactions : bank[y] # NoTransfer}
      /\ \A y \in answered' : Exact(y) => orders[bank[y].order].status = "PAID"
    BY <1>1 DEF BooksSound, TillsOK, AnswersSound
<1> QED BY <1>1, <1>2, <1>3, <1>4, BooksKept, Zenon

LEMMA ReportKeeps ==
    ASSUME BooksSound, NEW d \in Desks, NEW x \in Transactions, Report(d, x)
    PROVE  BooksSound'
<1>1. bank[x] # NoTransfer /\ UNCHANGED <<orders, payments, jobs, events, bank>>
    BY DEF Report
<1>2. bank[x].order \in DOMAIN orders
    BY <1>1 DEF BooksSound, TransfersSound
<1>3. /\ answered \subseteq {y \in Transactions : bank[y] # NoTransfer}
      /\ \A y \in answered : Exact(y) => orders[bank[y].order].status = "PAID"
      /\ DOMAIN desk = Desks
    BY DEF BooksSound, TillsOK, AnswersSound
<1>4. CASE bank[x].exact /\ ~\E p \in payments : p.transaction = x
    <2> DEFINE row == [order |-> bank[x].order, transaction |-> x]
    <2>1. desk' = [desk EXCEPT ![d] = row] /\ answered' = answered
        BY <1>4, Zenon DEF Report
    <2>2. Quotes(row)
        BY <1>2, <1>4 DEF Quotes, Exact
    <2> HIDE DEF row
    <2>3. \A e \in Desks : desk'[e] = desk[e] \/ Quotes(desk'[e])
        BY <1>3, <2>1, <2>2
    <2>4. TillsOK' /\ TransfersSound'
        BY <1>1, <2>1 DEF BooksSound, TillsOK, TransfersSound
    <2> QED BY <1>1, <1>3, <2>1, <2>3, <2>4, BooksKept, Zenon
<1>5. CASE ~(bank[x].exact /\ ~\E p \in payments : p.transaction = x)
    <2>1. answered' = answered \cup {x} /\ desk' = desk
        BY <1>5, Zenon DEF Report
    <2>2. ASSUME Exact(x)
          PROVE  orders[bank[x].order].status = "PAID"
        <3>1. PICK p \in payments : p.transaction = x
            BY <1>5, <2>2 DEF Exact
        <3> QED BY <3>1 DEF BooksSound, ReceiptsSound, Quotes
    <2>3. /\ answered' \subseteq {y \in Transactions : bank[y] # NoTransfer}
          /\ \A y \in answered' : Exact(y) => orders[bank[y].order].status = "PAID"
        BY <1>1, <1>3, <2>1, <2>2, Zenon
    <2>4. TillsOK' /\ TransfersSound'
        BY <1>1, <2>1, <2>3 DEF BooksSound, TillsOK, TransfersSound
    <2>5. \A e \in Desks : desk'[e] = desk[e]
        BY <2>1
    <2> QED BY <1>1, <1>3, <2>1, <2>3, <2>4, <2>5, BooksKept, Zenon
<1> QED BY <1>4, <1>5

\* The batch: the order of the desk gets its rows and its status together.
LEMMA SettleKeeps ==
    ASSUME BooksSound, orders \in Seq(Order), NEW d \in Desks, Settle(d)
    PROVE  BooksSound'
<1>0. PICK o, x : o = desk[d].order /\ x = desk[d].transaction
    OBVIOUS
<1> DEFINE row == [order |-> o, transaction |-> x]
<1>1. /\ Quotes(desk[d]) /\ Exact(x) /\ bank[x].order = o /\ o \in DOMAIN orders
      /\ x \in Transactions /\ desk[d] = row
    <2>1. Quotes(desk[d])
        BY DEF BooksSound, DesksSound, Settle
    <2>2. Exact(x) /\ bank[x].order = o /\ desk[d] = row
        BY <1>0, <2>1 DEF Quotes
    <2> QED BY <2>1, <2>2 DEF Exact
<1>2. /\ answered' \in {answered, answered \cup {x}} /\ desk' = [desk EXCEPT ![d] = Free]
      /\ bank' = bank
    BY <1>0 DEF Settle
<1>3. /\ answered \subseteq {y \in Transactions : bank[y] # NoTransfer}
      /\ \A y \in answered : Exact(y) => orders[bank[y].order].status = "PAID"
      /\ DOMAIN desk = Desks /\ jobs \in Seq(DOMAIN orders) /\ events \in Seq(DOMAIN orders)
      /\ bank \in [Transactions -> Transfer]
    BY DEF BooksSound, TillsOK, AnswersSound
<1>4. answered' \subseteq {y \in Transactions : bank[y] # NoTransfer}
    BY <1>1, <1>2, <1>3 DEF Exact, NoTransfer
<1>5. \A e \in Desks : desk'[e] \in {Free, desk[e]}
    BY <1>2, <1>3
<1> HIDE DEF row
<1>6. CASE UNCHANGED <<orders, payments, jobs, events>> /\ orders[o].status = "PAID"
    <2>1. TillsOK' /\ TransfersSound'
        BY <1>2, <1>3, <1>4, <1>6 DEF BooksSound, TillsOK, TransfersSound
    <2>2. \A y \in answered' : Exact(y) => orders[bank[y].order].status = "PAID"
        BY <1>1, <1>2, <1>3, <1>6
    <2> QED BY <1>2, <1>4, <1>5, <1>6, <2>1, <2>2, BooksKept, Zenon
<1>7. CASE \E p \in payments : p.transaction = x
    <2>1. UNCHANGED <<orders, payments, jobs, events>>
        BY <1>0, <1>7, Zenon DEF Settle
    <2>2. PICK p \in payments : p.transaction = x
        BY <1>7
    <2>3. Quotes(p) /\ orders[p.order].status = "PAID"
        BY DEF BooksSound, ReceiptsSound
    <2>4. p.order = o
        BY <1>1, <2>2, <2>3 DEF Quotes
    <2> QED BY <1>6, <2>1, <2>3, <2>4
<1>8. CASE (~\E p \in payments : p.transaction = x) /\ ~Awaiting(o)
    <2>1. payments' = payments \cup Receipt(o, x) /\ UNCHANGED <<orders, jobs, events>>
        BY <1>0, <1>8, Zenon DEF Settle
    <2>2. payments' = payments
        BY <1>8, <2>1 DEF Receipt
    <2>3. orders[o].status = "PAID"
        BY <1>1, <1>8, OrderTyped DEF Awaiting
    <2> QED BY <1>6, <2>1, <2>2, <2>3
<1>9. CASE (~\E p \in payments : p.transaction = x) /\ Awaiting(o)
    <2>1. /\ payments' = payments \cup {row} /\ jobs' = Append(jobs, o)
          /\ events' = Append(events, o) /\ orders' = [orders EXCEPT ![o].status = "PAID"]
        BY <1>0, <1>9, Zenon DEF Settle, Receipt, row
    <2>2. /\ DOMAIN orders' = DOMAIN orders /\ orders'[o].status = "PAID"
          /\ \A q \in DOMAIN orders : q # o => orders'[q] = orders[q]
        BY <1>1, <2>1, OrderTyped DEF Order
    <2>3. \A y : (Exact(y)' <=> Exact(y)) /\ (Quotes(y)' <=> Quotes(y))
        BY <1>2, <2>2, Zenon DEF Exact, Quotes
    <2>4. TillsOK'
        <3>1. /\ Append(jobs, o) \in Seq(DOMAIN orders) /\ Append(events, o) \in Seq(DOMAIN orders)
            BY <1>1, <1>3
        <3>2. DOMAIN desk' = Desks
            BY <1>2, <1>3
        <3> QED BY <1>2, <1>3, <1>4, <2>1, <2>2, <3>1, <3>2, Zenon DEF TillsOK
    <2>5. TransfersSound' /\ DesksSound'
        <3>1. TransfersSound'
            BY <1>2, <2>2, Zenon DEF BooksSound, TransfersSound
        <3>2. DesksSound'
            BY <1>5, <2>3 DEF BooksSound, DesksSound
        <3> QED BY <3>1, <3>2
    <2>6. ReceiptsSound'
        <3>1. ASSUME NEW p \in payments
              PROVE  Quotes(p) /\ orders'[p.order].status = "PAID"
            <4>1. Quotes(p) /\ orders[p.order].status = "PAID" /\ p.order \in DOMAIN orders
                BY DEF BooksSound, ReceiptsSound, Quotes, Exact
            <4> QED BY <2>2, <4>1, Zenon
        <3>2. Quotes(row) /\ row.order = o
            BY <1>1 DEF row
        <3> QED BY <2>1, <2>2, <2>3, <3>1, <3>2, Zenon DEF ReceiptsSound
    <2>7. \A q : /\ RowsIn(jobs', q) = IF q = o THEN RowsIn(jobs, q) \cup {Len(jobs) + 1}
                                        ELSE RowsIn(jobs, q)
                 /\ RowsIn(events', q) = IF q = o THEN RowsIn(events, q) \cup {Len(events) + 1}
                                          ELSE RowsIn(events, q)
        BY <1>3, <2>1, RowsOfAppended
    <2>8. Unpaid(o)
        BY <1>1, <1>9 DEF BooksSound, RowsSound, Awaiting
    <2>9. Paid(o)'
        <3>1. Rows(o)' = {row}
            BY <1>1, <2>1, <2>8 DEF Unpaid, Rows, row
        <3>2. /\ Len(jobs) + 1 \in DOMAIN jobs' /\ RowsIn(jobs', o) = {Len(jobs) + 1}
              /\ Len(events) + 1 \in DOMAIN events' /\ RowsIn(events', o) = {Len(events) + 1}
            BY <1>3, <2>1, <2>7, <2>8 DEF Unpaid
        <3> QED BY <1>1, <3>1, <3>2, Zenon DEF Paid, row
    <2>10. ASSUME NEW q \in DOMAIN orders, q # o
           PROVE  IF orders[q].status = "PAID" THEN Paid(q)' ELSE Unpaid(q)'
        <3>1. Rows(q)' = Rows(q)
            BY <2>1, <2>10 DEF Rows, row
        <3>2. RowsIn(jobs', q) = RowsIn(jobs, q) /\ RowsIn(events', q) = RowsIn(events, q)
            BY <2>7, <2>10
        <3>3. DOMAIN jobs \subseteq DOMAIN jobs' /\ DOMAIN events \subseteq DOMAIN events'
            BY <1>3, <2>1
        <3>4. IF orders[q].status = "PAID" THEN Paid(q) ELSE Unpaid(q)
            BY DEF BooksSound, RowsSound
        <3> QED BY <3>1, <3>2, <3>3, <3>4, Zenon DEF Paid, Unpaid
    <2>11. RowsSound'
        BY <1>1, <2>2, <2>9, <2>10, Zenon DEF RowsSound
    <2>12. AnswersSound'
        <3>1. ASSUME NEW y \in answered', Exact(y)
              PROVE  orders'[bank[y].order].status = "PAID"
            <4>1. CASE bank[y].order = o
                BY <2>2, <4>1
            <4>2. CASE bank[y].order # o
                <5>1. y # x
                    BY <1>1, <4>2
                <5>2. y \in answered
                    BY <1>2, <3>1, <5>1
                <5>3. orders[bank[y].order].status = "PAID" /\ bank[y].order \in DOMAIN orders
                    BY <1>3, <3>1, <5>2 DEF Exact
                <5> QED BY <2>2, <4>2, <5>3, Zenon
            <4> QED BY <4>1, <4>2
        <3> QED BY <1>2, <2>3, <3>1, Zenon DEF AnswersSound
    <2> QED BY <2>4, <2>5, <2>6, <2>11, <2>12 DEF BooksSound
<1> QED BY <1>7, <1>8, <1>9

\* What the payments may do to the orders.
OrdersGo ==
    orders' = orders \/ \E o \in DOMAIN orders : orders' = [orders EXCEPT ![o].status = "PAID"]

LEMMA OrdersKept ==
    ASSUME OrdersGo, orders \in Seq(Order)
    PROVE  /\ orders' \in Seq(Order) /\ DOMAIN orders' = DOMAIN orders
           /\ \A o \in DOMAIN orders, s \in Session :
                  Agrees(orders[o], s) => Agrees(orders'[o], s)
<1>1. CASE orders' = orders
    BY <1>1
<1>2. ASSUME NEW q \in DOMAIN orders, orders' = [orders EXCEPT ![q].status = "PAID"]
      PROVE  /\ orders' \in Seq(Order) /\ DOMAIN orders' = DOMAIN orders
             /\ \A o \in DOMAIN orders, s \in Session :
                    Agrees(orders[o], s) => Agrees(orders'[o], s)
    <2>1. orders[q] \in Order
        OBVIOUS
    <2>2. [orders[q] EXCEPT !.status = "PAID"] \in Order
        BY <2>1 DEF Order
    <2>3. orders' = [orders EXCEPT ![q] = [orders[q] EXCEPT !.status = "PAID"]]
        BY <1>2
    <2>4. orders' \in Seq(Order) /\ DOMAIN orders' = DOMAIN orders
        BY <2>2, <2>3
    <2>5. ASSUME NEW o \in DOMAIN orders, NEW s \in Session, Agrees(orders[o], s)
          PROVE  Agrees(orders'[o], s)
        <3>1. CASE o = q
            BY <2>1, <2>3, <2>5, <3>1 DEF Agrees, Order
        <3>2. CASE o # q
            <4>1. orders'[o] = orders[o]
                BY <2>3, <3>2
            <4> QED BY <2>5, <4>1
        <3> QED BY <3>1, <3>2
    <2> QED BY <2>4, <2>5
<1> QED BY <1>1, <1>2 DEF OrdersGo

LEMMA PaymentsKeep ==
    ASSUME IInv, PaymentsNext, UNCHANGED <<chat, library>>
    PROVE  IInv'
<1>1. BooksSound /\ orders \in Seq(Order) /\ session \in Session
    BY DEF IInv, TypeOK
<1>2. BooksSound' /\ OrdersGo
    <2>1. CASE \E x \in Transactions : Pay(x)
        BY <1>1, <2>1, PayKeeps DEF OrdersGo, Pay
    <2>2. CASE \E d \in Desks, x \in Transactions : Report(d, x)
        BY <1>1, <2>2, ReportKeeps DEF OrdersGo, Report
    <2>3. ASSUME NEW d \in Desks, Settle(d)
          PROVE  BooksSound' /\ OrdersGo
        <3>1. desk[d].order \in DOMAIN orders
            <4>1. Quotes(desk[d])
                BY <2>3 DEF Settle, IInv, BooksSound, DesksSound
            <4>2. PICK row : row = desk[d]
                OBVIOUS
            <4>3. row.order = bank[row.transaction].order
                BY <4>1, <4>2 DEF Quotes
            <4> QED BY <4>1, <4>2, <4>3, Zenon DEF Quotes, Exact
        <3>2. OrdersGo
            BY <2>3, <3>1, Zenon DEF Settle, OrdersGo
        <3> QED BY <1>1, <2>3, <3>2, SettleKeeps
    <2>4. ASSUME NEW d \in Desks, Lost(d)
          PROVE  BooksSound' /\ OrdersGo
        BY <1>1, <2>4, LostKeeps DEF OrdersGo, Lost
    <2> QED BY <2>1, <2>2, <2>3, <2>4 DEF PaymentsNext
<1>3. /\ orders' \in Seq(Order) /\ DOMAIN orders' = DOMAIN orders
      /\ \A o \in DOMAIN orders : Agrees(orders[o], session) => Agrees(orders'[o], session)
    BY <1>1, <1>2, OrdersKept
<1>4. OrderSound'
    BY <1>3 DEF chat, IInv, OrderSound
<1>5. TypeOK'
    BY <1>3 DEF chat, library, IInv, TypeOK, HandlersOK
<1>6. HandlersSound'
    BY DEF chat, IInv, HandlersSound, ReadsSound, FlowSound, CountsSound
<1> QED BY <1>2, <1>4, <1>5, <1>6 DEF IInv

-----------------------------------------------------------------------------
(* The theorems *)

LEMMA InitSound == Init => IInv
<1> SUFFICES ASSUME Init
             PROVE  IInv
    OBVIOUS
<1>1. PICK start \in Starts :
          session = start.session /\ minted = start.session.token /\ shown = start.shown
    BY DEF Init
<1>2. /\ session \in Session /\ session.status # "ORDER_CREATED" /\ shown \subseteq Menus
      /\ minted \in Nat
    BY <1>1, StartsAssumption, Numbers
<1>3. HandlersOK
    <2>1. Off \in Hand /\ NoUpdate \in Update /\ "" \in Agreed /\ NoWrites \in Counts
        BY OffHand, NoUpdateFits DEF Agreed, NoWrites, Counts
    <2> QED BY <2>1, Zenon DEF Init, HandlersOK
<1>4. catalogs \subseteq Families /\ orders \in Seq(Order) /\ messages \in Nat /\ deaths \in Nat
    <2>1. catalogs = Known /\ orders = <<>> /\ messages = 0 /\ deaths = 0
        BY DEF Init
    <2> QED BY <2>1, KnownAssumption
<1>5. /\ request \in [Families -> {"", "PENDING", "COMPLETED", "FAILED"}]
      /\ agent \in [Families -> {"off", "advance", "idle", "reset", "select", "offer", "reopen"}]
    BY DEF Init
<1>6. HandlersSound
    <2>1. \A u \in Updates : hand[u].pc = "off" /\ writes[u] = NoWrites
        BY OffHand DEF Init
    <2>2. /\ NoWrites.choice = 0 /\ NoWrites.catalog = 0
          /\ NoWrites.status <= NoWrites.delivered
        BY DEF NoWrites
    <2>3. CountsSound
        <3>1. \A u \in Updates : ~MaySet(hand[u])
            BY <2>1 DEF MaySet
        <3> QED BY <2>1, <2>2, <3>1, Zenon DEF CountsSound, Counted
    <2> QED BY <2>1, <2>3 DEF HandlersSound, ReadsSound, FlowSound, Reading
<1>7. OrderSound
    BY <1>2 DEF OrderSound
<1>8. BooksSound
    <2>1. /\ orders = <<>> /\ payments = {} /\ jobs = <<>> /\ events = <<>> /\ answered = {}
          /\ bank = [x \in Transactions |-> NoTransfer] /\ desk = [d \in Desks |-> Free]
        BY DEF Init, PaymentsInit
    <2>2. NoTransfer \in Transfer
        BY DEF NoTransfer, Transfer
    <2>3. TillsOK /\ TransfersSound /\ RowsSound
        BY <2>1, <2>2 DEF TillsOK, TransfersSound, RowsSound
    <2>4. ReceiptsSound /\ DesksSound /\ AnswersSound
        BY <2>1, Zenon DEF ReceiptsSound, DesksSound, AnswersSound
    <2> QED BY <2>3, <2>4 DEF BooksSound
<1> QED BY <1>2, <1>3, <1>4, <1>5, <1>6, <1>7, <1>8 DEF IInv, TypeOK

LEMMA HandlerKeeps ==
    ASSUME IInv, NEW u \in Updates, Handler(u)
    PROVE  IInv'
BY ReceiveKeeps, CompleteKeeps, DieKeeps, RestartKeeps, RememberKeeps, AskKeeps, AwaitKeeps,
   SelectKeeps, OfferKeeps, ReopenKeeps, RefuseKeeps, ReplayKeeps, TapKeeps, DrawKeeps,
   FindOrderKeeps, CreateOrderKeeps, Zenon
   DEF Handler, CatalogFlow

LEMMA AgentKeeps ==
    ASSUME IInv, NEW f \in Families, Agent(f)
    PROVE  IInv'
BY ReportsKeep, IdleKeeps, AdvanceKeeps, OfferStylesKeeps, ReopenStylesKeeps, Zenon DEF Agent

LEMMA NothingKeeps ==
    ASSUME IInv, UNCHANGED vars
    PROVE  IInv'
<1>1. LibraryOK'
    BY DEF IInv, TypeOK, LibraryOK, vars, library
<1> QED BY <1>1, LibrarySteps DEF vars

LEMMA NextKeeps == IInv /\ [Next]_vars => IInv'
BY HandlerKeeps, AgentKeeps, PaymentsKeep, NothingKeeps, Zenon DEF Next, Finished

\* The inductive invariant holds throughout: whatever updates, reports of the agent and
\* transfers arrive, at whatever time handlers die.
THEOREM CheckoutSound == Spec => []IInv
BY InitSound, NextKeeps, PTL DEF Spec

\* A session that was ordered agrees with its order in everything: the confirmation orders
\* what its compare-and-set saw, and no tap reaches the row once it is ordered
\* (createOrderFromSession, the CAS statements of session-service.ts).
THEOREM OrderMatches == Spec => []OrderIsSelection
<1>1. IInv => OrderIsSelection
    BY DEF IInv, OrderSound, OrderIsSelection, Agrees
<1> QED BY <1>1, CheckoutSound, PTL

\* However often Telegram delivers an update and whenever its handler dies: the choice of the
\* user and the catalog are each written at most once, for the write and the ledger row that
\* tells of it are one batch, and the status at most once by each delivery.
THEOREM ChangesOnce == Spec => []AppliedOnce
<1>1. ASSUME IInv, NEW u \in Updates
      PROVE  LET w == writes[u]
             IN  /\ w.choice <= 1 /\ w.catalog <= 1 /\ w.status <= w.delivered
                 /\ update[u].do # "mode" => w.choice + w.catalog <= 1
    <2>1. PICK w : w = writes[u]
        OBVIOUS
    <2>2. Counted(hand[u], update[u], ledger[u], w)
        BY <1>1, <2>1 DEF IInv, HandlersSound, CountsSound
    <2>3. /\ w.choice \in {0, 1} /\ w.catalog \in {0, 1} /\ w.status <= w.delivered
          /\ update[u].do = "mode" \/ w.choice = 0 \/ w.catalog = 0
        BY <2>2, Zenon DEF Counted
    <2> QED BY <2>1, <2>3
<1>2. IInv => AppliedOnce
    BY <1>1 DEF AppliedOnce
<1> QED BY <1>2, CheckoutSound, PTL

\* An order is paid exactly when one payment, one job and one event of it are on record, and
\* no exact transfer is acknowledged before (the batch of payment-service.ts).
THEOREM PaymentsWhole == Spec => []PaidWhole
<1>1. ASSUME IInv
      PROVE  PaidWhole
    <2>1. \A o : Cardinality({o}) = 1
        BY FS_Singleton
    <2>2. Cardinality({}) = 0
        BY FS_EmptySet
    <2>3. ASSUME NEW o \in DOMAIN orders
          PROVE  LET n == IF orders[o].status = "PAID" THEN 1 ELSE 0
                 IN  /\ Cardinality(Rows(o)) = n
                     /\ Cardinality(RowsIn(jobs, o)) = n
                     /\ Cardinality(RowsIn(events, o)) = n
        <3>1. CASE orders[o].status = "PAID"
            <4>1. Paid(o)
                BY <1>1, <3>1 DEF IInv, BooksSound, RowsSound
            <4> QED BY <2>1, <3>1, <4>1, Zenon DEF Paid
        <3>2. CASE orders[o].status # "PAID"
            <4>1. Unpaid(o)
                BY <1>1, <3>2 DEF IInv, BooksSound, RowsSound
            <4> QED BY <2>2, <3>2, <4>1, Zenon DEF Unpaid
        <3> QED BY <3>1, <3>2
    <2>4. ASSUME NEW x \in answered, bank[x].exact
          PROVE  orders[bank[x].order].status = "PAID"
        <3>1. x \in Transactions /\ bank[x] # NoTransfer
            BY <1>1 DEF IInv, BooksSound, TillsOK
        <3>2. Exact(x)
            BY <1>1, <2>4, <3>1 DEF IInv, BooksSound, TransfersSound, Exact
        <3> QED BY <1>1, <3>2 DEF IInv, BooksSound, AnswersSound
    <2> QED BY <2>3, <2>4 DEF PaidWhole
<1> QED BY <1>1, CheckoutSound, PTL
=============================================================================
