------------------------------ MODULE MCRunner ------------------------------
(* Small instances of Runner for TLC: one order that may be tried twice, and two orders  *)
(* of different families and modes that share a style.                                   *)
EXTENDS Runner

MCFile(fmt) == [style |-> "regular", fmt |-> fmt]

OneFile == [j \in Jobs |-> <<MCFile("TTF")>>]

\* The second order is for the style and format of the first, and one more format.
Common == [j \in Jobs |-> IF j = "j1" THEN <<MCFile("TTF")>>
                          ELSE <<MCFile("TTF"), MCFile("OTF")>>]

OneFamily == [j \in Jobs |-> "f1"]

TwoFamilies == [j \in Jobs |-> IF j = "j1" THEN "f1" ELSE "f2"]

AllOriginal == [j \in Jobs |-> "ORIGINAL"]

TwoModes == [j \in Jobs |-> IF j = "j1" THEN "VIETNAMESE" ELSE "ORIGINAL"]

Once == [j \in Jobs |-> 1]

Twice == [j \in Jobs |-> 2]
=============================================================================
