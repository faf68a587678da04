---------------------------- MODULE MCMergerCalls ----------------------------
(* Texts of one to three lines over a blank line and two visible ones.     *)
EXTENDS MergerCalls, TLC

CONSTANTS x, y

MCLineLength == (x :> 1) @@ (y :> 3) @@ (Blank :> 0)
MCTexts == UNION {[1..n -> Line] : n \in 1..3}
MCCursors == {0, 1, 2, 4, 5}
=============================================================================
