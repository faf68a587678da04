-------------------------- MODULE MCDocumentManager --------------------------
(* Two-line texts over two visible lines and the blank one.                *)
EXTENDS DocumentRefinement, TLC

CONSTANTS a, b, c1, c2, c3, d1, d2, e1, e2

MCLineLength == (a :> 1) @@ (b :> 1) @@ (Blank :> 0)

\* Two users who rewrite different lines, and one who undoes either.
MCInputs == {<< a, a >>, << b, a >>, << a, b >>}

\* Texts that differ in their number of lines, two with nothing but line ends.
MCFewInputs == {<< a >>, << a, b >>, << Blank, Blank >>, << Blank, Blank, Blank >>}

MCSymmetry == Permutations(Callers)

\* Callers with an account are alike, and so are the deleters.
MCDeleteSymmetry ==
  {p @@ q : p \in Permutations(Callers \ Strangers), q \in Permutations(Deleters)}
=============================================================================
