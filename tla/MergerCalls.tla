----------------------------- MODULE MergerCalls -----------------------------
(***************************************************************************)
(* One call of Merger.merge on any texts, and what its callers rely on.    *)
(***************************************************************************)
EXTENDS SimpleMerger

CONSTANTS
  Texts,      \* the texts the three versions are taken from
  Cursors,    \* cursor positions a page may report
  NotMerged   \* merge has not returned

ASSUME CallsAssumption == Texts \subseteq Text /\ Cursors \subseteq Nat

VARIABLES previous, head, mine, cursor, merged

vars == << previous, head, mine, cursor, merged >>

P == SplitLines(previous)
H == SplitLines(head)
M == SplitLines(mine)

Init ==
  /\ previous \in Texts
  /\ head \in Texts
  /\ mine \in Texts
  /\ cursor \in Cursors
  /\ merged = NotMerged

Merge ==
  /\ merged = NotMerged
  /\ ~MergeThrows(head, mine)
  /\ merged' = [contents   |-> MergedText(previous, head, mine),
                correction |-> CursorCorrection(P, H, M, cursor)]
  /\ UNCHANGED << previous, head, mine, cursor >>

Next == Merge

Spec == Init /\ [][Next]_vars

-----------------------------------------------------------------------------

Changed(base, lines) == {i \in DOMAIN base : i \in DOMAIN lines /\ base[i] # lines[i]}

\* SimpleMerger.java:26-41.  Every line the user rewrote in place is in the
\* merged text, in its place, and every line only others rewrote carries
\* their change.
RewrittenLinesSurvive ==
  merged # NotMerged =>
    /\ \A i \in Changed(P, M) : i \in DOMAIN H => merged.contents[i] = M[i]
    /\ \A i \in Changed(P, H) \ Changed(P, M) :
         i \in DOMAIN M => merged.contents[i] = H[i]

\* SimpleMerger.java:29-32, asserted by MergerTest.java:39-42.  A cursor inside
\* a line the user is typing in stays at the same character of that line.
CursorKeepsItsPlace ==
  merged # NotMerged =>
    \A k \in Changed(P, M) \cap DOMAIN H :
      LET offset == cursor - LineStart(M)[k]
      IN  offset \in 0..LineLength[M[k]]
            => cursor + merged.correction = LineStart(merged.contents)[k] + offset
=============================================================================
