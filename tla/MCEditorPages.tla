---------------------------- MODULE MCEditorPages ----------------------------
(* Two or three pages, whose users toggle a line each.                      *)
EXTENDS EditorPages

CONSTANTS a, b, p1, p2, p3

MCLineLength == [l \in Line |-> IF l = Blank THEN 0 ELSE 1]

MCOwnLine == [p \in Pages |-> CASE p = p1 -> 1 [] p = p2 -> 2 [] p = p3 -> 3]

MCStart == [i \in 1..Cardinality(Pages) |-> a]

\* One change fewer when a request or an answer is lost.
MCSpec == Init /\ [][Next /\ edits' + lost' <= MaxTyped]_vars

\* One change fewer when anything is late or lost.
Mishaps == IF slow + lost = 0 THEN 0 ELSE 1

MCFairSpec == Init /\ [][Next /\ edits' + Mishaps' <= MaxTyped]_vars /\ Fairness
=============================================================================
