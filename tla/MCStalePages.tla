----------------------------- MODULE MCStalePages -----------------------------
(* A page with the script and one without, and the list of documents.        *)
EXTENDS StalePages, TLC

CONSTANTS a, b, c1, c2, e1, d1, noDescription

MCLineLength == (a :> 1) @@ (b :> 1) @@ (Blank :> 0)

MCInputs == {<< a >>, << b >>, << a, b >>}
=============================================================================
