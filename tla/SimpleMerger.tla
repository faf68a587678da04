---------------------------- MODULE SimpleMerger ----------------------------
(***************************************************************************)
(* The three-way, line-by-line text merge of                               *)
(* multieditor-ejb/.../data/merge/SimpleMerger.java.                       *)
(*                                                                         *)
(* A text is the non-empty sequence of what stands between its '\n's: the  *)
(* empty string is << Blank >>, "\n" is << Blank, Blank >>, "a\nb" is      *)
(* << a, b >>.  Lines are opaque; the merge compares them and measures     *)
(* their length, nothing else.                                             *)
(***************************************************************************)
EXTENDS Integers, Sequences, FiniteSets

CONSTANTS
  Line,        \* what a line can hold
  Blank,       \* the empty line
  LineLength   \* number of characters of every line

ASSUME LineAssumption ==
  /\ Blank \in Line
  /\ LineLength \in [Line -> Nat]
  /\ LineLength[Blank] = 0

Text == Seq(Line) \ {<< >>}

(***************************************************************************)
(* String.split("\n"): the lines of a text without its trailing empty      *)
(* ones; a text that has no '\n' at all is returned as its only line, so   *)
(* the empty string gives one line and "\n" gives none.                    *)
(***************************************************************************)
SplitLines(text) ==
  LET kept == {i \in DOMAIN text : \E j \in i..Len(text) : text[j] # Blank}
  IN  IF text = << Blank >>
      THEN text
      ELSE SubSeq(text, 1, Cardinality(kept))

Longer(a, b) == IF a >= b THEN a ELSE b

\* Line i takes part in the comparing loop: all three versions have it.
Shared(previous, head, mine, i) ==
  i <= Len(previous) /\ i <= Len(head) /\ i <= Len(mine)

\* Mutant: the head wins wherever the two differ.
HeadAlways(previous, head, mine) ==
  [i \in 1..Longer(Len(head), Len(mine)) |->
     IF i <= Len(head) THEN head[i] ELSE mine[i]]

(***************************************************************************)
(* The three loops of merge: while all three versions have a line, the     *)
(* user's line if the user changed it and the head's otherwise; then what  *)
(* the head has left; then what the user has left beyond the head.         *)
(***************************************************************************)
MergeLines(previous, head, mine) ==
  [i \in 1..Longer(Len(head), Len(mine)) |->
     IF Shared(previous, head, mine, i) /\ previous[i] # mine[i]
     THEN mine[i]
     ELSE IF i <= Len(head) THEN head[i] ELSE mine[i]]

MergedText(previous, head, mine) ==
  MergeLines(SplitLines(previous), SplitLines(head), SplitLines(mine))

(***************************************************************************)
(* result.substring(0, result.length() - 1) throws when no line was        *)
(* appended, that is when neither the head nor the user's text has one.    *)
(***************************************************************************)
MergeThrows(head, mine) == SplitLines(head) = << >> /\ SplitLines(mine) = << >>

(***************************************************************************)
(* What a counter that starts at 0 and is added to in a loop holds at the  *)
(* beginning of every round, and after the last.                           *)
(***************************************************************************)
RunningSums(added) ==
  LET sum[i \in 1..(Len(added) + 1)] ==
        IF i = 1 THEN 0 ELSE sum[i - 1] + added[i - 1]
  IN  sum

\* Where every line of a text starts, and where the text ends (oldPos, pos).
LineStart(lines) == RunningSums([i \in 1..Len(lines) |-> LineLength[lines[i]] + 1])

\* Mutant: lines after the cursor move it too.
UnguardedCorrection(previous, head, mine, cursor) ==
  LET growth == [i \in 1..Len(mine) |->
                   IF Shared(previous, head, mine, i) /\ previous[i] = mine[i]
                   THEN LineLength[head[i]] - LineLength[mine[i]]
                   ELSE 0]
  IN  RunningSums(growth)[Len(mine) + 1]

(***************************************************************************)
(* How far the cursor moves: by the growth of every line the user left     *)
(* alone that starts before it (arguments are split lines).                *)
(***************************************************************************)
CursorCorrection(previous, head, mine, cursor) ==
  LET Moved(i) == /\ Shared(previous, head, mine, i)
                  /\ previous[i] = mine[i]
                  /\ cursor > LineStart(mine)[i]
      growth == [i \in 1..Len(mine) |->
                   IF Moved(i) THEN LineLength[head[i]] - LineLength[mine[i]] ELSE 0]
  IN  RunningSums(growth)[Len(mine) + 1]
=============================================================================
