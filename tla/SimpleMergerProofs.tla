-------------------------- MODULE SimpleMergerProofs --------------------------
(* What a merge returns, for texts over any set of lines.                  *)
EXTENDS SimpleMerger, FiniteSetTheorems, TLAPS

\* Splitting a text gives lines, the first ones of the text.
LEMMA SplitLinesType ==
  ASSUME NEW text \in Text
  PROVE  SplitLines(text) \in Seq(Line)
<1> DEFINE kept == {i \in DOMAIN text : \E j \in i..Len(text) : text[j] # Blank}
<1>1. text \in Seq(Line) /\ Len(text) \in Nat
  BY DEF Text
<1>2. IsFiniteSet(1..Len(text)) /\ Cardinality(1..Len(text)) = Len(text)
  BY <1>1, FS_Interval
<1>3. kept \subseteq 1..Len(text)
  BY <1>1
<1>4. Cardinality(kept) \in Nat /\ Cardinality(kept) <= Len(text)
  BY <1>2, <1>3, FS_Subset, FS_CardinalityType
<1> HIDE DEF kept
<1>5. SubSeq(text, 1, Cardinality(kept)) \in Seq(Line)
  BY <1>1, <1>4
<1>6. SplitLines(text) \in {text, SubSeq(text, 1, Cardinality(kept))}
  BY DEF SplitLines, kept
<1>7. QED BY <1>1, <1>5, <1>6

\* And leaves out nothing but empty lines at the end.
LEMMA SplitLinesKeeps ==
  ASSUME NEW text \in Text
  PROVE  /\ \A i \in DOMAIN SplitLines(text) : i \in DOMAIN text /\ SplitLines(text)[i] = text[i]
         /\ \A i \in DOMAIN text \ DOMAIN SplitLines(text) : text[i] = Blank
<1> DEFINE kept == {i \in DOMAIN text : \E j \in i..Len(text) : text[j] # Blank}
<1>1. text \in Seq(Line) /\ Len(text) \in Nat
  BY DEF Text
<1>2. kept \subseteq 1..Len(text)
  BY <1>1
<1> HIDE DEF kept
<1>3. IsFiniteSet(kept) /\ Cardinality(kept) \in Nat /\ Cardinality(kept) <= Len(text)
  <2>1. IsFiniteSet(1..Len(text)) /\ Cardinality(1..Len(text)) = Len(text)
    BY <1>1, FS_Interval
  <2>2. QED BY <1>2, <2>1, FS_Subset, FS_CardinalityType
<1>4. ASSUME NEW i \in DOMAIN text, text[i] # Blank PROVE i <= Cardinality(kept)
  <2>1. ASSUME NEW k \in 1..i PROVE k \in kept
    <3>1. k \in DOMAIN text /\ i \in k..Len(text)
      BY <1>1
    <3>2. QED BY <1>4, <3>1 DEF kept
  <2>2. Cardinality(1..i) = i
    BY <1>1, FS_Interval
  <2>3. Cardinality(1..i) <= Cardinality(kept)
    BY <1>3, <2>1, FS_Subset
  <2>4. QED BY <2>2, <2>3
<1>5. SplitLines(text) \in {text, SubSeq(text, 1, Cardinality(kept))}
  BY DEF SplitLines, kept
<1>6. CASE SplitLines(text) = text
  BY <1>6
<1>7. CASE SplitLines(text) = SubSeq(text, 1, Cardinality(kept))
  <2>1. DOMAIN SplitLines(text) = 1..Cardinality(kept)
    BY <1>1, <1>3, <1>7
  <2>2. \A i \in 1..Cardinality(kept) : i \in DOMAIN text /\ SplitLines(text)[i] = text[i]
    BY <1>1, <1>3, <1>7
  <2>3. \A i \in DOMAIN text \ 1..Cardinality(kept) : text[i] = Blank
    BY <1>1, <1>3, <1>4
  <2>4. QED BY <2>1, <2>2, <2>3
<1>8. QED BY <1>5, <1>6, <1>7

\* Nothing is split off a text that ends in a visible line.
LEMMA VisibleTextsStayWhole ==
  ASSUME NEW text \in Text, text[Len(text)] # Blank
  PROVE  SplitLines(text) = text
<1> DEFINE n == Len(text)
           split == SplitLines(text)
<1>1. text \in Seq(Line) /\ n \in Nat /\ n >= 1
  BY DEF Text
<1>2. split \in Seq(Line)
  BY SplitLinesType
<1>3. /\ \A i \in DOMAIN split : i \in DOMAIN text /\ split[i] = text[i]
      /\ \A i \in DOMAIN text \ DOMAIN split : text[i] = Blank
  BY SplitLinesKeeps
<1>4. n \in DOMAIN split
  BY <1>1, <1>3
<1> HIDE DEF split
<1>5. Len(split) = n
  BY <1>1, <1>2, <1>3, <1>4
<1>6. \A i \in 1..n : split[i] = text[i]
  BY <1>2, <1>3, <1>5
<1>7. split = text
  BY <1>1, <1>2, <1>5, <1>6
<1>8. QED BY <1>7 DEF split

\* Merging lines gives as many lines as the longer of the two versions has.
LEMMA MergeLinesType ==
  ASSUME NEW previous \in Seq(Line), NEW head \in Seq(Line), NEW mine \in Seq(Line)
  PROVE  /\ MergeLines(previous, head, mine) \in Seq(Line)
         /\ Len(MergeLines(previous, head, mine)) = Longer(Len(head), Len(mine))
<1>1. Longer(Len(head), Len(mine)) \in Nat
  BY DEF Longer
<1>2. \A i \in 1..Longer(Len(head), Len(mine)) :
        MergeLines(previous, head, mine)[i] \in Line
  BY DEF MergeLines, Shared, Longer
<1>3. QED BY <1>1, <1>2 DEF MergeLines

\* SimpleMerger.java:56: a merge that does not throw returns a text.
THEOREM MergedTextType ==
  ASSUME NEW previous \in Text, NEW head \in Text, NEW mine \in Text,
         ~MergeThrows(head, mine)
  PROVE  MergedText(previous, head, mine) \in Text
<1> DEFINE P == SplitLines(previous)
           H == SplitLines(head)
           M == SplitLines(mine)
<1>1. P \in Seq(Line) /\ H \in Seq(Line) /\ M \in Seq(Line)
  BY SplitLinesType
<1>2. H # << >> \/ M # << >>
  BY DEF MergeThrows
<1> HIDE DEF P, H, M
<1>3. Longer(Len(H), Len(M)) > 0
  BY <1>1, <1>2 DEF Longer
<1>4. MergeLines(P, H, M) \in Seq(Line) \ {<< >>}
  <2>1. /\ MergeLines(P, H, M) \in Seq(Line)
        /\ Len(MergeLines(P, H, M)) = Longer(Len(H), Len(M))
    BY <1>1, MergeLinesType
  <2>2. Len(<< >>) = 0
    OBVIOUS
  <2>3. MergeLines(P, H, M) # << >>
    BY <1>3, <2>1, <2>2
  <2>4. QED BY <2>1, <2>3
<1>5. QED BY <1>4 DEF P, H, M, MergedText, Text
=============================================================================
