--------------------------------- MODULE Sessions ---------------------------------
(***************************************************************************)
(* The session row of a Telegram user and the statements that change it    *)
(* (session-service.ts), and what a button may do to the session its       *)
(* handler read (telegram-webhook.ts).  A workflow token and its checkout  *)
(* token are minted together and stand here as one number.                 *)
(***************************************************************************)
EXTENDS Naturals, FiniteSets

CONSTANTS
    Families,               \* canonical keys
    StylesOf(_),            \* the styles of a family's catalog
    Formats,                \* the supported formats, "TTF" among them
    VietnameseOpen          \* VIETNAMESE_ORDERING_ENABLED

ASSUME FormatsAssumption == "TTF" \in Formats

Modes == {"ORIGINAL", "VIETNAMESE"}

Statuses ==
    {"IDLE", "AWAITING_CATALOG", "SELECTING_STYLES", "SELECTING_FORMATS", "CONFIRMING", "ORDER_CREATED"}

AllStyles == UNION {StylesOf(f) : f \in Families}

\* The rows of the table.
Session ==
    [token : Nat, version : Nat, catalog : Families \cup {""}, styles : SUBSET AllStyles,
     formats : SUBSET Formats, status : Statuses, order : Nat, mode : Modes \cup {""},
     pending : Families \cup {""}]

Fresh(token, version) ==
    [token |-> token, version |-> version, catalog |-> "", styles |-> {}, formats |-> {"TTF"},
     status |-> "IDLE", order |-> 0, mode |-> "", pending |-> ""]

Reset(s, token) == Fresh(token, s.version + 1)

WithCatalog(s, token, family) ==
    [Fresh(token, s.version + 1) EXCEPT !.catalog = family, !.status = "SELECTING_STYLES",
                                        !.mode = s.mode, !.pending = s.pending]

WithPending(s, family) == IF s.mode = "" THEN [s EXCEPT !.pending = family] ELSE s

\* setStatusUnconditional
WithStatus(s, status) == [s EXCEPT !.status = status, !.version = @ + 1]

Cancelled(s, token) == [Reset(s, token) EXCEPT !.mode = s.mode, !.pending = s.pending]

Ordered(s, order) == [WithStatus(s, "ORDER_CREATED") EXCEPT !.order = order]

-----------------------------------------------------------------------------
(* A button is what it does, its argument and the token it was shown with.  *)

Button(do, arg, token) == [do |-> do, arg |-> arg, token |-> token]

Buttons(menu, styles) ==
    LET On(does, args) == [do : does, arg : args, token : {menu.token}]
    IN  CASE menu.name = "modes" -> On({"mode"}, Modes)
          [] menu.name = "styles" -> On({"style"}, styles) \cup On({"all", "clear", "next"}, {""})
          [] menu.name = "formats" -> On({"format"}, Formats) \cup On({"back", "review"}, {""})
          [] menu.name = "order" -> On({"cancel", "confirm"}, {""})

Taps == {"mode", "style", "all", "clear", "next", "format", "back", "review", "cancel", "confirm"}

\* The statuses the compare-and-set of each button names.
From(do) ==
    CASE do \in {"style", "all", "clear", "next"} -> {"SELECTING_STYLES"}
      [] do \in {"format", "back", "review"} -> {"SELECTING_FORMATS"}
      [] do = "cancel" -> {"SELECTING_STYLES", "SELECTING_FORMATS", "CONFIRMING"}
      [] do = "confirm" -> {"CONFIRMING"}

Admits(s, b) ==
    /\ b.token = s.token
    /\ IF b.do = "mode"
       THEN s.mode = "" /\ (b.arg = "VIETNAMESE" => VietnameseOpen)
       ELSE /\ s.catalog # ""
            /\ b.do # "cancel" => s.status \in From(b.do)
            /\ b.do = "style" => b.arg \in StylesOf(s.catalog)
            /\ b.do = "next" => s.styles # {}
            /\ b.do = "review" => s.formats # {} /\ s.mode # ""
            /\ b.do = "confirm" => s.mode # ""

\* The WHERE clause: "read" is the row the handler saw, "s" the row as it now is.
Hits_Fault(s, read, do) == s.token = read.token

Hits(s, read, do) ==
    /\ s.token = read.token /\ s.version = read.version
    /\ IF do = "mode" THEN s.mode = "" ELSE s.status \in From(do)

Toggled(set, x) == IF x \in set THEN set \ {x} ELSE set \cup {x}

\* What the handler writes: values it computed from the row it read.
Written(s, read, b, token) ==
    CASE b.do = "mode" -> [s EXCEPT !.mode = b.arg, !.pending = "", !.version = @ + 1]
      [] b.do = "style" -> [s EXCEPT !.styles = Toggled(read.styles, b.arg), !.version = @ + 1]
      [] b.do = "all" -> [s EXCEPT !.styles = StylesOf(read.catalog), !.version = @ + 1]
      [] b.do = "clear" -> [s EXCEPT !.styles = {}, !.version = @ + 1]
      [] b.do = "format" -> [s EXCEPT !.formats = Toggled(read.formats, b.arg), !.version = @ + 1]
      [] b.do = "next" -> WithStatus(s, "SELECTING_FORMATS")
      [] b.do = "back" -> WithStatus(s, "SELECTING_STYLES")
      [] b.do = "review" -> WithStatus(s, "CONFIRMING")
      [] b.do = "cancel" -> Cancelled(s, token)

Menus == [name : {"modes", "styles", "formats", "order"}, token : Nat]

Menu(name, token) == [name |-> name, token |-> token]

\* The keyboard the answer to a button carries, and the one a replay draws from the row.
MenuAfter(b) ==
    CASE b.do \in {"style", "all", "clear", "back"} -> {Menu("styles", b.token)}
      [] b.do \in {"next", "format"} -> {Menu("formats", b.token)}
      [] b.do = "review" -> {Menu("order", b.token)}
      [] OTHER -> {}

MenuOf(s) ==
    CASE s.catalog = "" -> {}
      [] s.status = "SELECTING_STYLES" -> {Menu("styles", s.token)}
      [] s.status = "SELECTING_FORMATS" -> {Menu("formats", s.token)}
      [] s.status = "CONFIRMING" /\ s.mode # "" -> {Menu("order", s.token)}
      [] OTHER -> {}

Rate(mode) == IF mode = "ORIGINAL" THEN 5 ELSE 8

\* The catalogs of the agent carry the ORIGINAL rate, which the VIETNAMESE one exceeds.
Total(s) == Cardinality(s.styles) * Rate(s.mode)
=============================================================================
