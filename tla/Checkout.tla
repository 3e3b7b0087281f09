--------------------------------- MODULE Checkout ---------------------------------
(***************************************************************************)
(* One user's way to a paid order: the webhook that takes the updates of   *)
(* Telegram (telegram-webhook.ts), the orders they create                  *)
(* (order-service.ts), and the agent's reports on the catalogs asked for   *)
(* (internal-catalog.ts, catalog-service.ts).  Every call of D1 and of     *)
(* Telegram is a step; handlers of different updates run side by side, and *)
(* an update whose handler died or answered 500 is delivered again.        *)
(***************************************************************************)
EXTENDS Sessions, Payments, SequencesExt

CONSTANTS
    Updates,            \* update ids: 1..n
    Starts,             \* the sessions, and what they were shown, users may be met in
    Known,              \* families whose catalog is there at the start
    MaxMessages,        \* bound: updates that are messages
    MaxAtOnce,          \* bound: updates handled at the same time
    MaxDeaths           \* bound: handlers that die or answer 500

\* No order is on record yet.
ASSUME StartsAssumption ==
    \A start \in Starts :
        /\ start.session \in Session /\ start.session.status # "ORDER_CREATED"
        /\ start.shown \subseteq Menus

ASSUME KnownAssumption == Known \subseteq Families

VARIABLES
    session, minted,    \* the row, and the last token
    update, ledger,     \* content and telegram_updates row of every update
    hand,               \* handlers of updates
    shown,              \* menus the user can see
    catalogs,           \* families with a catalog
    asked, request,     \* catalog_requests by created_at, and their statuses
    agent,              \* handlers of the agent's reports
    messages, deaths,
    writes              \* history: deliveries of an open update, and its writes of the session

chat == <<session, minted, update, ledger, hand, shown, messages, deaths, writes>>
library == <<catalogs, asked, request, agent>>
vars == <<orders, tills, chat, library>>

NoUpdate == Button("", "", 0)

NoWrites == [delivered |-> 0, choice |-> 0, catalog |-> 0, status |-> 0]

\* A write of the session: what the user chose or ordered, the catalog of a link, or the status
\* alone.
Delivered(w) == [w EXCEPT !.delivered = @ + 1]
Chosen(w) == [w EXCEPT !.choice = @ + 1]
Filled(w) == [w EXCEPT !.catalog = @ + 1]
StatusSet(w) == [w EXCEPT !.status = @ + 1]

Off == [pc |-> "off", read |-> Fresh(0, 0), again |-> FALSE, found |-> FALSE]

Init ==
    /\ \E start \in Starts : session = start.session /\ minted = start.session.token /\ shown = start.shown
    /\ update = [u \in Updates |-> NoUpdate] /\ ledger = [u \in Updates |-> ""]
    /\ hand = [u \in Updates |-> Off]
    /\ catalogs = Known /\ asked = SetToSeq(Known)
    /\ request = [f \in Families |-> IF f \in Known THEN "COMPLETED" ELSE ""]
    /\ agent = [f \in Families |-> "off"]
    /\ messages = 0 /\ deaths = 0 /\ writes = [u \in Updates |-> NoWrites]
    /\ orders = <<>> /\ PaymentsInit

-----------------------------------------------------------------------------
(* The webhook: the ledger, the handler, and the answer.                    *)

\* What was read is kept as long as the handler uses it.
Uses(u, pc) ==
    \/ pc = "order"
    \/ pc = "menu" /\ update[u].do = "url"
    \/ pc \in {"ask", "flow"} /\ update[u].do = "mode"

Continue(u, pc, found) ==
    hand' = [hand EXCEPT ![u] =
        [pc |-> pc, found |-> found, read |-> IF Uses(u, pc) THEN @.read ELSE Off.read,
         again |-> @.again /\ pc \in {"ask", "flow"}]]

Goto(u, pc) == Continue(u, pc, FALSE)

At(u, pc) == hand[u].pc = pc

\* A message, or a button of any menu shown: what "family" of a button may toggle is listed
\* in the message.
Inputs ==
    {Button("start", "", 0)} \cup {Button("url", f, 0) : f \in Families}
        \cup UNION {Buttons(m, AllStyles) : m \in shown}

Receive(u) ==
    /\ At(u, "off") /\ ledger[u] # "COMPLETED"
    /\ Cardinality({v \in Updates : ~At(v, "off")}) < MaxAtOnce
    /\ IF ledger[u] = ""
       THEN /\ \A v \in Updates : v < u => ledger[v] # ""
            /\ \E input \in Inputs :
                  /\ update' = [update EXCEPT ![u] = input]
                  /\ messages' = IF input.do \in Taps THEN messages ELSE messages + 1
            /\ messages' <= MaxMessages
       ELSE UNCHANGED <<update, messages>>
    /\ ledger' = [ledger EXCEPT ![u] = IF @ = "" THEN "RECEIVED" ELSE @]
    /\ hand' = [hand EXCEPT ![u] = [pc |-> "read", read |-> session, again |-> ledger[u] = "APPLIED",
                                    found |-> FALSE]]
    /\ writes' = [writes EXCEPT ![u] = Delivered(@)]
    /\ UNCHANGED <<orders, tills, session, minted, shown, deaths, library>>

Complete(u) ==
    /\ At(u, "done")
    /\ ledger' = [ledger EXCEPT ![u] = "COMPLETED"]
    /\ hand' = [hand EXCEPT ![u] = Off] /\ update' = [update EXCEPT ![u] = NoUpdate]
    /\ writes' = [writes EXCEPT ![u] = NoWrites]
    /\ UNCHANGED <<orders, tills, session, minted, shown, messages, deaths, library>>

\* D1 or Telegram fails and the answer is a 500, or the worker dies.  Before its first write
\* this is no more than a late delivery.
Die(u) ==
    /\ ~At(u, "off") /\ ~At(u, "read") /\ deaths < MaxDeaths
    /\ deaths' = deaths + 1
    /\ hand' = [hand EXCEPT ![u] = Off]
    /\ UNCHANGED <<orders, tills, session, minted, update, ledger, shown, messages, writes, library>>

\* The session statement and the ledger statement of one batch.
Applied_Fault(u) == ledger
Applied(u) == [ledger EXCEPT ![u] = "APPLIED"]

Change(u, new) ==
    /\ session' = new /\ minted' = IF new.token > minted THEN new.token ELSE minted
    /\ ledger' = Applied(u) /\ writes' = [writes EXCEPT ![u] = Chosen(@)]

Is(u, do) == At(u, "read") /\ update[u].do = do

Restart(u) ==
    /\ Is(u, "start") /\ Goto(u, "done")
    /\ IF hand[u].again THEN UNCHANGED <<session, minted, ledger, writes>>
       ELSE Change(u, Reset(session, minted + 1))
    /\ UNCHANGED <<orders, tills, update, shown, messages, deaths, library>>

\* A link before a mode: remembered while the mode is absent, and the modes are offered.
Remember(u) ==
    /\ Is(u, "url") /\ hand[u].read.mode = "" /\ Goto(u, "menu")
    /\ IF hand[u].again THEN UNCHANGED <<session, minted, ledger, writes>>
       ELSE Change(u, WithPending(session, update[u].arg))
    /\ UNCHANGED <<orders, tills, update, shown, messages, deaths, library>>

-----------------------------------------------------------------------------
(* startCatalogFlow                                                         *)

\* The family an update is about.
Wanted(u) == IF update[u].do = "url" THEN update[u].arg ELSE hand[u].read.pending

\* The request row keeps its created_at; then the catalog is looked for.
Ask(u) ==
    /\ \/ Is(u, "url") /\ hand[u].read.mode # ""
       \/ At(u, "ask")
    /\ LET f == Wanted(u)
       IN  /\ asked' = IF f \in Range(asked) THEN asked ELSE Append(asked, f)
           /\ request' = [request EXCEPT ![f] = IF f \in catalogs THEN "COMPLETED" ELSE
                                                IF @ = "COMPLETED" THEN @ ELSE "PENDING"]
           /\ Continue(u, "flow", f \in catalogs)
    /\ UNCHANGED <<orders, tills, session, minted, update, ledger, shown, messages, deaths, writes, catalogs, agent>>

\* setStatusUnconditional, under no ledger row: a delivery sets the status whatever an earlier
\* one did.
SetStatus(u, status) ==
    session' = WithStatus(session, status) /\ writes' = [writes EXCEPT ![u] = StatusSet(@)]

Await(u) ==
    /\ At(u, "flow") /\ ~hand[u].found /\ Goto(u, "done")
    /\ IF hand[u].again THEN UNCHANGED <<session, writes>>
       ELSE SetStatus(u, "AWAITING_CATALOG")
    /\ UNCHANGED <<orders, tills, minted, update, ledger, shown, messages, deaths, library>>

Select(u) ==
    /\ At(u, "flow") /\ hand[u].found /\ Goto(u, "offer")
    /\ IF hand[u].again THEN UNCHANGED <<session, minted, ledger, writes>>
       ELSE /\ session' = WithCatalog(session, minted + 1, Wanted(u)) /\ minted' = minted + 1
            /\ ledger' = Applied(u) /\ writes' = [writes EXCEPT ![u] = Filled(@)]
    /\ UNCHANGED <<orders, tills, update, shown, messages, deaths, library>>

\* The row is read again, its keyboard sent, and the status set once more whatever it is.
Offer(u) ==
    /\ At(u, "offer") /\ Goto(u, "reopen")
    /\ shown' = shown \cup {Menu("styles", session.token)}
    /\ UNCHANGED <<orders, tills, session, minted, update, ledger, messages, deaths, writes, library>>

Reopen(u) ==
    /\ At(u, "reopen") /\ Goto(u, "done")
    /\ SetStatus(u, "SELECTING_STYLES")
    /\ UNCHANGED <<orders, tills, minted, update, ledger, shown, messages, deaths, library>>

CatalogFlow(u) == Ask(u) \/ Await(u) \/ Select(u) \/ Offer(u) \/ Reopen(u)

-----------------------------------------------------------------------------
(* Buttons                                                                  *)

IsTap(u) == At(u, "read") /\ update[u].do \in Taps

Refuse(u) ==
    /\ IsTap(u) /\ ~hand[u].again /\ ~Admits(hand[u].read, update[u])
    /\ Goto(u, "done")
    /\ UNCHANGED <<orders, tills, session, minted, update, ledger, shown, messages, deaths, writes, library>>

\* An update that was applied only draws the row as it is.
Replay(u) ==
    /\ IsTap(u) /\ hand[u].again /\ Goto(u, "done")
    /\ shown' = shown \cup MenuOf(hand[u].read)
    /\ UNCHANGED <<orders, tills, session, minted, update, ledger, messages, deaths, writes, library>>

\* The compare-and-set.  One that misses is applied all the same; a toggle reads the row
\* again and may see by itself that it was too late.
Tap(u) ==
    LET b == update[u]  read == hand[u].read
        hit == Hits(session, read, b.do)
    IN  /\ IsTap(u) /\ ~hand[u].again /\ Admits(read, b) /\ b.do # "confirm"
        /\ IF hit
           THEN /\ Change(u, Written(session, read, b, minted + 1))
                /\ Goto(u, IF b.do = "mode" /\ read.pending # "" THEN "ask" ELSE "menu")
           ELSE /\ ledger' \in {Applied(u)} \cup IF b.do \in {"style", "format"} THEN {ledger} ELSE {}
                /\ Goto(u, "done")
                /\ UNCHANGED <<session, minted, writes>>
        /\ UNCHANGED <<orders, tills, update, shown, messages, deaths, library>>

\* The keyboard after a message or a button.
Draw(u) ==
    /\ At(u, "menu") /\ Goto(u, "done")
    /\ shown' = shown \cup IF update[u].do = "url" THEN {Menu("modes", hand[u].read.token)}
                           ELSE MenuAfter(update[u])
    /\ UNCHANGED <<orders, tills, session, minted, update, ledger, messages, deaths, writes, library>>

-----------------------------------------------------------------------------
(* createOrderFromSession                                                   *)

Ordering(token) == \E o \in DOMAIN orders : orders[o].token = token

Checkable(s) ==
    /\ s.styles # {} /\ s.formats # {} /\ s.styles \subseteq StylesOf(s.catalog)
    /\ s.mode = "VIETNAMESE" => VietnameseOpen

\* An order of the checkout token answers for this one; an invalid session is refused.
FindOrder(u) ==
    /\ Is(u, "confirm") /\ ~hand[u].again /\ Admits(hand[u].read, update[u])
    /\ Goto(u, IF Ordering(hand[u].read.token) \/ ~Checkable(hand[u].read) THEN "done" ELSE "order")
    /\ UNCHANGED <<orders, tills, session, minted, update, ledger, shown, messages, deaths, writes, library>>

\* The order, its items, the session and the ledger in one batch, which a missed condition
\* undoes through the foreign key of the items.
CreateOrder(u) ==
    /\ At(u, "order") /\ Goto(u, "done")
    /\ LET r == hand[u].read
       IN  IF Hits(session, r, "confirm") /\ ~Ordering(r.token)
           THEN /\ orders' = Append(orders,
                      [token |-> r.token, catalog |-> r.catalog, styles |-> r.styles, formats |-> r.formats,
                       mode |-> r.mode, total |-> Total(r), status |-> "AWAITING_PAYMENT"])
                /\ Change(u, Ordered(session, Len(orders) + 1))
           ELSE UNCHANGED <<orders, session, minted, ledger, writes>>
    /\ UNCHANGED <<tills, update, shown, messages, deaths, library>>

Handler(u) ==
    \/ Receive(u) \/ Complete(u) \/ Die(u)
    \/ Restart(u) \/ Remember(u) \/ CatalogFlow(u)
    \/ Refuse(u) \/ Replay(u) \/ Tap(u) \/ Draw(u)
    \/ FindOrder(u) \/ CreateOrder(u)

-----------------------------------------------------------------------------
(* The agent's reports: complete and fail.                                  *)

Report_(f, from, to) == agent[f] = from /\ agent' = [agent EXCEPT ![f] = to]

\* persistCatalogResult
Persist(f) ==
    /\ Report_(f, "off", "advance") /\ request[f] = "PENDING"
    /\ catalogs' = catalogs \cup {f} /\ request' = [request EXCEPT ![f] = "COMPLETED"]
    /\ UNCHANGED <<orders, tills, chat, asked>>

FailRequest(f) ==
    /\ Report_(f, "off", "idle") /\ request[f] = "PENDING"
    /\ request' = [request EXCEPT ![f] = "FAILED"]
    /\ UNCHANGED <<orders, tills, chat, catalogs, asked>>

\* Is the user still waiting, and for this family?
StillWaits(f) == session.status = "AWAITING_CATALOG" /\ Last(asked) = f

Look(f) ==
    /\ \E to \in {"advance", "idle"} :
          Report_(f, to, IF ~StillWaits(f) THEN "off" ELSE IF to = "idle" THEN "reset" ELSE "select")
    /\ UNCHANGED <<orders, tills, chat, catalogs, asked, request>>

Idle(f) ==
    /\ Report_(f, "reset", "off")
    /\ session' = WithStatus(session, "IDLE")
    /\ UNCHANGED <<orders, tills, minted, update, ledger, hand, shown, messages, deaths, writes, catalogs, asked, request>>

Advance(f) ==
    /\ Report_(f, "select", "offer")
    /\ session' = WithCatalog(session, minted + 1, f) /\ minted' = minted + 1
    /\ UNCHANGED <<orders, tills, update, ledger, hand, shown, messages, deaths, writes, catalogs, asked, request>>

\* A message that cannot be sent is let go.
OfferStyles(f) ==
    /\ \/ Report_(f, "offer", "reopen") /\ shown' = shown \cup {Menu("styles", session.token)}
       \/ Report_(f, "offer", "off") /\ UNCHANGED shown
    /\ UNCHANGED <<orders, tills, session, minted, update, ledger, hand, messages, deaths, writes, catalogs, asked, request>>

ReopenStyles(f) ==
    /\ Report_(f, "reopen", "off")
    /\ session' = WithStatus(session, "SELECTING_STYLES")
    /\ UNCHANGED <<orders, tills, minted, update, ledger, hand, shown, messages, deaths, writes, catalogs, asked, request>>

Agent(f) ==
    \/ Persist(f) \/ FailRequest(f) \/ Look(f) \/ Idle(f)
    \/ Advance(f) \/ OfferStyles(f) \/ ReopenStyles(f)

\* Every update delivered is answered; the user need not send another.
Quiet == (\A u \in Updates : ledger[u] \in {"", "COMPLETED"}) /\ \A f \in Families : agent[f] = "off"

Finished == Quiet /\ UNCHANGED vars

Next ==
    \/ \E u \in Updates : Handler(u)
    \/ \E f \in Families : Agent(f)
    \/ PaymentsNext /\ UNCHANGED <<chat, library>>
    \/ Finished

Spec == Init /\ [][Next]_vars

-----------------------------------------------------------------------------
\* A session in ORDER_CREATED is what was ordered: its active order has the very catalog,
\* styles, formats and mode of the session, was made under its checkout token and costs
\* their price, whatever taps raced the confirmation.
OrderIsSelection ==
    session.status = "ORDER_CREATED" =>
        LET order == orders[session.order]
        IN  /\ order.token = session.token /\ order.total = Total(session)
            /\ order.catalog = session.catalog /\ order.mode = session.mode
            /\ order.styles = session.styles /\ order.formats = session.formats

\* Telegram may deliver an update again and again, whenever its handler died.  However often it
\* does: the update writes one choice of the user (a reset, link, mode, style, format, step or
\* order) or one catalog, a mode first the choice and then the catalog of the link it was asked
\* for, and none of them twice.  Only the status is set again, once at most by each delivery.
AppliedOnce ==
    \A u \in Updates :
        LET w == writes[u]
        IN  /\ w.choice <= 1 /\ w.catalog <= 1 /\ w.status <= w.delivered
            /\ update[u].do # "mode" => w.choice + w.catalog <= 1

\* "Advance every still-relevant waiting session whose request is satisfied by this catalog":
\* with every update answered and no report under way, nobody waits for a catalog when all
\* the catalogs he asked for are there.
WaitingAdvanced ==
    Quiet /\ (\A f \in Range(asked) : request[f] = "COMPLETED") => session.status # "AWAITING_CATALOG"
=============================================================================
