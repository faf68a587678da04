---------------------------- MODULE MCLineTypists ----------------------------
(* Lines with an empty one between them, as in the test.                    *)
EXTENDS LineTypists

CONSTANTS t0, t1, t2, t3, d

MCLineLength == [l \in Line |-> l]

MCOwnLine == [c \in Typists |-> CASE c = t1 -> 1 [] c = t2 -> 3 [] c = t3 -> 5]

MCStart == IF t3 \in Callers THEN << 1, 0, 1, 0, 1 >> ELSE << 1, 0, 1 >>

MCInputs == {t \in [DOMAIN MCStart -> Line] :
               /\ \A i \in DOMAIN MCStart : t[i] >= MCStart[i]
               /\ \A i \in DOMAIN MCStart : MCStart[i] = 0 => t[i] = 0}
=============================================================================
