----------------------------- MODULE MCSwapList -----------------------------
(* Values for the constants of SwapList that a .cfg cannot write. *)
EXTENDS SwapList

CONSTANTS s1, s2, w1, w2

MCSkips == [w \in {w1, w2} |-> IF w = w1 THEN 0 ELSE 1]
MCOrder == <<s1, s2, w1, w2>>
=============================================================================
