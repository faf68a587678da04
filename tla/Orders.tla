-------------------------------- MODULE Orders --------------------------------
(***************************************************************************)
(* Sequences that are cut down or put into another order, as the scripts   *)
(* do to arrays and to the children of an element.                         *)
(*                                                                         *)
(* These are SelectSeq and its like without recursion: the place of each   *)
(* element is counted, so that theorems can be proved about the result.    *)
(***************************************************************************)
EXTENDS Naturals, Sequences, FiniteSets

\* The place that each has in the order before, a set of pairs.
Ranks(K, before) == [j \in K |-> Cardinality({i \in K : << i, j >> \in before}) + 1]

\* What s has at the places K, in the order before.
InOrder(s, K, before) ==
  LET place == Ranks(K, before)
  IN  [n \in 1..Cardinality(K) |-> s[CHOOSE j \in K : place[j] = n]]

Ascending(K) == {p \in K \X K : p[1] < p[2]}

\* What s has at the places K.
Chosen(s, K) == InOrder(s, K, Ascending(K))
===============================================================================
