-------------------------------- MODULE MCCheckout --------------------------------
(* Two families, the catalog of "known" at hand, and sessions met at two places. *)
EXTENDS Checkout

MCSymmetry == Permutations(Desks)

MCStylesOf(f) == IF f = "known" THEN {"bold"} ELSE {"thin"}

MCNew == [session |-> Fresh(1, 1), shown |-> {}]

MCMode == [Fresh(1, 3) EXCEPT !.mode = "ORIGINAL"]

MCFormats ==
    [session |-> [WithCatalog(MCMode, 2, "known") EXCEPT !.styles = {"bold"}, !.status = "SELECTING_FORMATS"],
     shown |-> {Menu("styles", 2), Menu("formats", 2)}]

MCStarts == {MCNew, MCFormats}
MCWaiting == {[session |-> MCMode, shown |-> {}]}
=============================================================================
