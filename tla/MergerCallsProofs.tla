--------------------------- MODULE MergerCallsProofs ---------------------------
(* What a call of the merger returns, for texts of any length.             *)
EXTENDS MergerCalls, SimpleMergerProofs

\* The loops of merge, line by line (SimpleMerger.java:26-54).
LEMMA MergeLinesAt ==
  ASSUME NEW base \in Seq(Line), NEW theirs \in Seq(Line), NEW own \in Seq(Line),
         NEW i \in DOMAIN theirs, i \in DOMAIN own
  PROVE  /\ i \in DOMAIN base /\ base[i] # own[i] => MergeLines(base, theirs, own)[i] = own[i]
         /\ ~(i \in DOMAIN base /\ base[i] # own[i]) => MergeLines(base, theirs, own)[i] = theirs[i]
BY DEF MergeLines, Shared, Longer

\* A call that has returned has returned the merge.
CallInv ==
  /\ previous \in Text /\ head \in Text /\ mine \in Text /\ cursor \in Nat
  /\ merged # NotMerged =>
       /\ merged.contents = MergeLines(P, H, M)
       /\ merged.correction = CursorCorrection(P, H, M, cursor)

LEMMA CallInvariant == Spec => []CallInv
<1>1. Init => CallInv
  BY CallsAssumption DEF Init, CallInv
<1>2. CallInv /\ [Next]_vars => CallInv'
  BY DEF CallInv, Next, Merge, vars, MergedText, P, H, M
<1>3. QED BY <1>1, <1>2, PTL DEF Spec

\* SimpleMerger.java:26-41: no line that the user or another has rewritten in
\* place is ever lost, whatever the three texts are.
THEOREM RewrittenLinesAlwaysSurvive == Spec => []RewrittenLinesSurvive
<1>1. CallInv => RewrittenLinesSurvive
  <2>1. SUFFICES ASSUME CallInv, merged # NotMerged
                 PROVE  /\ \A i \in Changed(P, M) : i \in DOMAIN H => merged.contents[i] = M[i]
                        /\ \A i \in Changed(P, H) \ Changed(P, M) :
                             i \in DOMAIN M => merged.contents[i] = H[i]
    BY DEF RewrittenLinesSurvive
  <2>2. P \in Seq(Line) /\ H \in Seq(Line) /\ M \in Seq(Line)
    BY <2>1, SplitLinesType DEF CallInv, P, H, M
  <2>3. merged.contents = MergeLines(P, H, M)
    BY <2>1 DEF CallInv
  <2>4. QED BY <2>2, <2>3, MergeLinesAt DEF Changed
<1>2. QED BY <1>1, CallInvariant, PTL

-----------------------------------------------------------------------------
(* Running sums: what a recursive function over 1..n + 1 computes.         *)

\* A set of numbers has a smallest one.
LEMMA SmallestNumber ==
  ASSUME NEW numbers \in SUBSET Nat, numbers # {}
  PROVE  \E n \in numbers : \A m \in numbers : n <= m
<1> DEFINE Upto == {0..n : n \in numbers}
<1>1. Upto \subseteq FiniteSubsetsOf(Nat) /\ Upto # {}
  <2>1. \A n \in Nat : IsFiniteSet(0..n) /\ 0..n \subseteq Nat
    BY FS_Interval
  <2>2. \A n \in numbers : 0..n \in FiniteSubsetsOf(Nat)
    BY <2>1 DEF FiniteSubsetsOf
  <2>3. QED BY <2>2
<1>2. PICK least \in Upto : \A upto \in Upto : ~(<< upto, least >> \in StrictSubsetOrdering(Nat))
  <2> HIDE DEF Upto
  <2>1. QED BY <1>1, FS_StrictSubsetOrderingWellFounded, WFMin, Zenon
<1>3. PICK n \in numbers : least = 0..n
  OBVIOUS
<1>4. \A m \in numbers : ~(m < n)
  <2>1. SUFFICES ASSUME NEW m \in numbers, m < n PROVE FALSE
    OBVIOUS
  <2>2. 0..m \in Upto /\ 0..m \subseteq 0..n /\ 0..m # 0..n
    BY <2>1
  <2>3. << 0..m, 0..n >> \in StrictSubsetOrdering(Nat)
    BY <2>2, <1>1, <1>3 DEF StrictSubsetOrdering, FiniteSubsetsOf
  <2>4. QED BY <1>2, <1>3, <2>2, <2>3
<1>5. QED BY <1>4

\* What holds of 1 and passes from a number to the next one holds up to n + 1.
LEMMA StepByStep ==
  ASSUME NEW n \in Nat, NEW good, 1 \in good, \A i \in 1..n : i \in good => i + 1 \in good
  PROVE  \A i \in 1..(n + 1) : i \in good
<1>1. SUFFICES ASSUME NEW i \in 1..(n + 1), i \notin good PROVE FALSE
  OBVIOUS
<1>2. PICK least \in (1..(n + 1)) \ good : \A m \in (1..(n + 1)) \ good : least <= m
  <2> DEFINE bad == (1..(n + 1)) \ good
  <2>1. bad \in SUBSET Nat /\ bad # {}
    BY <1>1
  <2> HIDE DEF bad
  <2>2. \E least \in bad : \A m \in bad : least <= m
    BY <2>1, SmallestNumber
  <2>3. QED BY <2>2 DEF bad
<1>3. least - 1 \in 1..n /\ least - 1 \in good
  BY <1>2
<1>4. QED BY <1>2, <1>3

\* The recursion of a running sum has a solution, and the solution is unique.
LEMMA RunningSumsAt ==
  ASSUME NEW added \in Seq(Int)
  PROVE  /\ RunningSums(added) \in [1..(Len(added) + 1) -> Int]
         /\ RunningSums(added)[1] = 0
         /\ \A i \in 1..Len(added) : RunningSums(added)[i + 1] = RunningSums(added)[i] + added[i]
<1> DEFINE n == Len(added)
           Solves(f, last) == /\ f[1] = 0
                              /\ \A i \in 1..(last - 1) : f[i + 1] = f[i] + added[i]
           solved == {last \in 1..(n + 1) : \E f \in [1..last -> Int] : Solves(f, last)}
<1>1. n \in Nat /\ \A i \in 1..n : added[i] \in Int
  OBVIOUS
<1> HIDE DEF n
<1>2. \A last \in 1..(n + 1) : last \in solved
  <2>1. 1 \in solved
    <3>1. [i \in 1..1 |-> 0] \in [1..1 -> Int] /\ Solves([i \in 1..1 |-> 0], 1)
      OBVIOUS
    <3>2. 1 \in 1..(n + 1)
      BY <1>1
    <3> HIDE DEF Solves
    <3>3. QED BY <3>1, <3>2
  <2>2. ASSUME NEW last \in 1..n, last \in solved
        PROVE  last + 1 \in solved
    <3>1. PICK f \in [1..last -> Int] : Solves(f, last)
      BY <2>2
    <3> DEFINE g == [i \in 1..(last + 1) |-> IF i = last + 1 THEN f[last] + added[last] ELSE f[i]]
    <3>2. g \in [1..(last + 1) -> Int]
      BY <3>1, <1>1
    <3>3. Solves(g, last + 1)
      BY <3>1, <1>1
    <3>4. last + 1 \in 1..(n + 1)
      BY <1>1
    <3> HIDE DEF g, Solves
    <3>5. QED BY <3>2, <3>3, <3>4
  <2> HIDE DEF solved
  <2>3. QED BY <2>1, <2>2, <1>1, StepByStep
<1>3. PICK f \in [1..(n + 1) -> Int] : Solves(f, n + 1)
  <2>1. n + 1 \in 1..(n + 1)
    BY <1>1
  <2> HIDE DEF Solves
  <2>2. QED BY <2>1, <1>2
<1> DEFINE Body(g) == [i \in 1..(n + 1) |-> IF i = 1 THEN 0 ELSE g[i - 1] + added[i - 1]]
<1>4. f = Body(f)
  BY <1>1, <1>3
<1>5. RunningSums(added) = CHOOSE g : g = Body(g)
  BY DEF RunningSums, n
<1>6. RunningSums(added) = Body(RunningSums(added))
  <2> HIDE DEF Body
  <2>1. QED BY <1>4, <1>5
<1> DEFINE sums == RunningSums(added)
           same == {i \in 1..(n + 1) : sums[i] = f[i]}
<1> HIDE DEF sums
<1>7. sums[1] = 0 /\ \A i \in 1..n : sums[i + 1] = sums[i] + added[i]
  BY <1>6, <1>1 DEF sums
<1>8. \A i \in 1..(n + 1) : i \in same
  <2>1. 1 \in same
    BY <1>1, <1>3, <1>7
  <2>2. ASSUME NEW i \in 1..n, i \in same PROVE i + 1 \in same
    BY <1>1, <1>3, <1>7, <2>2
  <2> HIDE DEF same
  <2>3. QED BY <2>1, <2>2, <1>1, StepByStep
<1>9. sums \in [1..(n + 1) -> Int]
  BY <1>3, <1>6, <1>8 DEF sums
<1>10. QED BY <1>7, <1>9 DEF sums, n

\* Where the numbers added up to k are sums, so are the running sums.
LEMMA SumsAdd ==
  ASSUME NEW a \in Seq(Int), NEW b \in Seq(Int), NEW c \in Seq(Int), NEW k \in Nat \ {0},
         k <= Len(a) + 1, k <= Len(b) + 1, k <= Len(c) + 1,
         \A i \in 1..(k - 1) : a[i] = b[i] + c[i]
  PROVE  RunningSums(a)[k] = RunningSums(b)[k] + RunningSums(c)[k]
<1> DEFINE A == RunningSums(a)  B == RunningSums(b)  C == RunningSums(c)
           good == {i \in 1..k : A[i] = B[i] + C[i]}
<1> HIDE DEF A, B, C
<1>1. A[1] = 0 /\ \A i \in 1..(k - 1) : A[i] \in Int /\ A[i + 1] = A[i] + a[i] /\ a[i] \in Int
  <2>1. /\ A \in [1..(Len(a) + 1) -> Int] /\ A[1] = 0
        /\ \A i \in 1..Len(a) : A[i + 1] = A[i] + a[i]
    BY RunningSumsAt DEF A
  <2>2. \A i \in 1..(k - 1) : i \in 1..Len(a) /\ i \in 1..(Len(a) + 1) /\ a[i] \in Int
    OBVIOUS
  <2>3. QED BY <2>1, <2>2
<1>2. B[1] = 0 /\ \A i \in 1..(k - 1) : B[i] \in Int /\ B[i + 1] = B[i] + b[i] /\ b[i] \in Int
  <2>1. /\ B \in [1..(Len(b) + 1) -> Int] /\ B[1] = 0
        /\ \A i \in 1..Len(b) : B[i + 1] = B[i] + b[i]
    BY RunningSumsAt DEF B
  <2>2. \A i \in 1..(k - 1) : i \in 1..Len(b) /\ i \in 1..(Len(b) + 1) /\ b[i] \in Int
    OBVIOUS
  <2>3. QED BY <2>1, <2>2
<1>3. C[1] = 0 /\ \A i \in 1..(k - 1) : C[i] \in Int /\ C[i + 1] = C[i] + c[i] /\ c[i] \in Int
  <2>1. /\ C \in [1..(Len(c) + 1) -> Int] /\ C[1] = 0
        /\ \A i \in 1..Len(c) : C[i + 1] = C[i] + c[i]
    BY RunningSumsAt DEF C
  <2>2. \A i \in 1..(k - 1) : i \in 1..Len(c) /\ i \in 1..(Len(c) + 1) /\ c[i] \in Int
    OBVIOUS
  <2>3. QED BY <2>1, <2>2
<1>4. 1 \in good
  BY <1>1, <1>2, <1>3
<1>5. ASSUME NEW i \in 1..(k - 1), i \in good PROVE i + 1 \in good
  <2>1. A[i] = B[i] + C[i] /\ a[i] = b[i] + c[i] /\ i + 1 \in 1..k
    BY <1>5
  <2>2. /\ A[i + 1] = A[i] + a[i] /\ A[i] \in Int /\ a[i] \in Int
        /\ B[i + 1] = B[i] + b[i] /\ B[i] \in Int /\ b[i] \in Int
        /\ C[i + 1] = C[i] + c[i] /\ C[i] \in Int /\ c[i] \in Int
    BY <1>1, <1>2, <1>3
  <2>3. A[i + 1] = B[i + 1] + C[i + 1]
    <3>1. PICK q \in Int, r \in Int, y \in Int, z \in Int :
             q = B[i] /\ r = C[i] /\ y = b[i] /\ z = c[i]
      BY <2>2
    <3>2. A[i] = q + r /\ a[i] = y + z
      BY <2>1, <3>1, Zenon
    <3>3. A[i + 1] = (q + r) + (y + z) /\ B[i + 1] = q + y /\ C[i + 1] = r + z
      BY <2>2, <3>1, <3>2, Zenon
    <3>4. (q + r) + (y + z) = (q + y) + (r + z)
      OBVIOUS
    <3>5. QED BY <3>3, <3>4, Zenon
  <2>4. QED BY <2>1, <2>3
<1> DEFINE n == k - 1
<1>6. n \in Nat /\ k = n + 1 /\ \A i \in 1..n : i \in good => i + 1 \in good
  BY <1>5
<1> HIDE DEF good, n
<1>7. k \in good
  <2>1. \A i \in 1..(n + 1) : i \in good
    BY <1>4, <1>6, StepByStep
  <2>2. k \in 1..(n + 1)
    BY <1>6
  <2>3. QED BY <2>1, <2>2
<1>8. QED BY <1>7 DEF good, A, B, C

\* Nothing taken away from j to k: the sum does not fall; nothing added either:
\* it stays.
LEMMA SumsKeep ==
  ASSUME NEW a \in Seq(Int), NEW j \in Nat \ {0}, NEW k \in Nat, j <= k, k <= Len(a) + 1
  PROVE  /\ (\A i \in j..(k - 1) : a[i] >= 0) => RunningSums(a)[j] <= RunningSums(a)[k]
         /\ (\A i \in j..(k - 1) : a[i] = 0) => RunningSums(a)[j] = RunningSums(a)[k]
<1> DEFINE A == RunningSums(a)
           n == k - j
           rising == {i \in 1..(n + 1) : A[j] <= A[j + i - 1]}
           still == {i \in 1..(n + 1) : A[j] = A[j + i - 1]}
<1> HIDE DEF A
<1>1. /\ \A i \in j..k : A[i] \in Int
      /\ \A i \in j..(k - 1) : A[i + 1] = A[i] + a[i] /\ a[i] \in Int
  <2>1. /\ A \in [1..(Len(a) + 1) -> Int]
        /\ \A i \in 1..Len(a) : A[i + 1] = A[i] + a[i]
    BY RunningSumsAt DEF A
  <2>2. \A i \in j..k : i \in 1..(Len(a) + 1)
    OBVIOUS
  <2>3. \A i \in j..(k - 1) : i \in 1..Len(a) /\ a[i] \in Int
    OBVIOUS
  <2>4. QED BY <2>1, <2>2, <2>3
<1>2. 1 \in rising /\ 1 \in still
  BY <1>1
<1>3. /\ n \in Nat /\ j + (n + 1) - 1 = k
      /\ \A i \in 1..n : /\ j + i - 1 \in j..(k - 1) /\ j + i - 1 \in j..k
                         /\ j + (i + 1) - 1 = (j + i - 1) + 1
                         /\ i + 1 \in 1..(n + 1)
  OBVIOUS
<1> HIDE DEF n
<1>4. ASSUME \A i \in j..(k - 1) : a[i] >= 0 PROVE A[j] <= A[k]
  <2>1. ASSUME NEW i \in 1..n, i \in rising PROVE i + 1 \in rising
    <3>1. A[j] <= A[j + i - 1] /\ A[(j + i - 1) + 1] = A[j + i - 1] + a[j + i - 1]
          /\ a[j + i - 1] \in Int /\ A[j + i - 1] \in Int /\ A[j] \in Int
      BY <1>1, <1>3, <2>1
    <3>2. A[j] <= A[(j + i - 1) + 1]
      BY <1>3, <1>4, <3>1
    <3>3. QED BY <1>3, <3>2
  <2> HIDE DEF rising
  <2>2. \A i \in 1..(n + 1) : i \in rising
    BY <1>2, <1>3, <2>1, StepByStep
  <2>3. n + 1 \in rising
    BY <1>3, <2>2
  <2>4. QED BY <1>3, <2>3 DEF rising
<1>5. ASSUME \A i \in j..(k - 1) : a[i] = 0 PROVE A[j] = A[k]
  <2>1. ASSUME NEW i \in 1..n, i \in still PROVE i + 1 \in still
    <3>1. A[j] = A[j + i - 1] /\ A[(j + i - 1) + 1] = A[j + i - 1] + a[j + i - 1]
          /\ a[j + i - 1] \in Int /\ A[j + i - 1] \in Int /\ A[j] \in Int
      BY <1>1, <1>3, <2>1
    <3>2. A[j] = A[(j + i - 1) + 1]
      BY <1>3, <1>5, <3>1
    <3>3. QED BY <1>3, <3>2
  <2> HIDE DEF still
  <2>2. \A i \in 1..(n + 1) : i \in still
    BY <1>2, <1>3, <2>1, StepByStep
  <2>3. n + 1 \in still
    BY <1>3, <2>2
  <2>4. QED BY <1>3, <2>3 DEF still
<1>6. QED BY <1>4, <1>5 DEF A

-----------------------------------------------------------------------------
(* Where the cursor goes.                                                  *)

\* Lines start one after the other.
LEMMA LinesInOrder ==
  ASSUME NEW lines \in Seq(Line), NEW i \in 1..Len(lines), NEW j \in 1..(Len(lines) + 1), i < j
  PROVE  /\ LineStart(lines)[i] \in Int /\ LineStart(lines)[j] \in Int
         /\ LineStart(lines)[j] > LineStart(lines)[i] + LineLength[lines[i]]
<1> DEFINE added == [l \in 1..Len(lines) |-> LineLength[lines[l]] + 1]
<1>1. /\ added \in Seq(Int) /\ Len(added) = Len(lines)
      /\ \A l \in 1..Len(lines) : added[l] = LineLength[lines[l]] + 1 /\ LineLength[lines[l]] \in Nat
  BY LineAssumption
<1>2. LineStart(lines) = RunningSums(added)
  BY DEF LineStart
<1> HIDE DEF added
<1>3. /\ RunningSums(added) \in [1..(Len(lines) + 1) -> Int]
      /\ RunningSums(added)[i + 1] = RunningSums(added)[i] + added[i]
  BY <1>1, RunningSumsAt
<1>4. RunningSums(added)[i + 1] <= RunningSums(added)[j]
  <2>1. i + 1 \in Nat \ {0} /\ j \in Nat /\ i + 1 <= j /\ j <= Len(added) + 1
    BY <1>1
  <2>2. \A l \in (i + 1)..(j - 1) : added[l] >= 0
    BY <1>1
  <2>3. QED BY <1>1, <2>1, <2>2, SumsKeep
<1>5. /\ RunningSums(added)[i] \in Int /\ RunningSums(added)[j] \in Int
      /\ added[i] = LineLength[lines[i]] + 1 /\ LineLength[lines[i]] \in Nat
  BY <1>1, <1>3
<1>6. QED BY <1>2, <1>3, <1>4, <1>5

\* The correction of a cursor in a line k that is the user's: the growth of the
\* lines before k, of which merge has taken the others' version.
LEMMA CorrectionAt ==
  ASSUME NEW base \in Seq(Line), NEW theirs \in Seq(Line), NEW own \in Seq(Line),
         NEW k \in DOMAIN base \cap DOMAIN theirs \cap DOMAIN own, base[k] # own[k],
         NEW place \in Nat,
         place - LineStart(own)[k] \in 0..LineLength[own[k]]
  PROVE  place + CursorCorrection(base, theirs, own, place)
           = LineStart(MergeLines(base, theirs, own))[k] + (place - LineStart(own)[k])
<1> DEFINE both == MergeLines(base, theirs, own)
           Moved(i) == /\ Shared(base, theirs, own, i)
                       /\ base[i] = own[i]
                       /\ place > LineStart(own)[i]
           growth == [i \in 1..Len(own) |->
                        IF Moved(i) THEN LineLength[theirs[i]] - LineLength[own[i]] ELSE 0]
           ownAdds == [l \in 1..Len(own) |-> LineLength[own[l]] + 1]
           bothAdds == [l \in 1..Len(both) |-> LineLength[both[l]] + 1]
<1>1. both \in Seq(Line) /\ k <= Len(both)
  BY MergeLinesType DEF MergeLines, Longer
<1>2. \A l \in Line : LineLength[l] \in Nat
  BY LineAssumption
<1>3. ownAdds \in Seq(Int) /\ bothAdds \in Seq(Int)
  BY <1>1, <1>2
<1>4. growth \in Seq(Int)
  BY <1>2 DEF Shared
<1>5. k \in 1..Len(own) /\ Len(own) \in Nat /\ LineLength[own[k]] \in Nat
  BY <1>2
<1>6. \A i \in 1..(k - 1) : Moved(i) <=> base[i] = own[i]
  <2>1. SUFFICES ASSUME NEW i \in 1..(k - 1) PROVE place > LineStart(own)[i]
    BY DEF Shared
  <2> HIDE DEF growth, ownAdds, bothAdds, both, Moved
  <2>2. i \in 1..Len(own) /\ k \in 1..(Len(own) + 1) /\ i < k /\ LineLength[own[i]] \in Nat
    BY <1>2, <1>5
  <2>3. /\ LineStart(own)[i] \in Int /\ LineStart(own)[k] \in Int
        /\ LineStart(own)[k] > LineStart(own)[i] + LineLength[own[i]]
    BY <2>2, LinesInOrder
  <2>4. QED BY <2>2, <2>3
<1>7. \A i \in k..Len(own) : ~Moved(i)
  <2>1. SUFFICES ASSUME NEW i \in (k + 1)..Len(own) PROVE ~(place > LineStart(own)[i])
    BY <1>5
  <2> HIDE DEF growth, ownAdds, bothAdds, both, Moved
  <2>2. i \in 1..(Len(own) + 1) /\ k < i
    BY <1>5
  <2>3. /\ LineStart(own)[i] \in Int /\ LineStart(own)[k] \in Int
        /\ LineStart(own)[i] > LineStart(own)[k] + LineLength[own[k]]
    BY <1>5, <2>2, LinesInOrder
  <2>4. QED BY <1>5, <2>3
<1>8. \A i \in 1..(k - 1) : bothAdds[i] = ownAdds[i] + growth[i]
  <2>1. SUFFICES ASSUME NEW i \in 1..(k - 1) PROVE bothAdds[i] = ownAdds[i] + growth[i]
    OBVIOUS
  <2>2. both[i] = IF base[i] # own[i] THEN own[i] ELSE theirs[i]
    BY MergeLinesAt
  <2>3. growth[i] = IF base[i] = own[i] THEN LineLength[theirs[i]] - LineLength[own[i]] ELSE 0
    BY <1>6
  <2>4. LineLength[theirs[i]] \in Nat /\ LineLength[own[i]] \in Nat
    BY <1>2
  <2> HIDE DEF both, growth
  <2>5. bothAdds[i] = LineLength[both[i]] + 1 /\ ownAdds[i] = LineLength[own[i]] + 1
    BY <1>1
  <2>6. QED BY <2>2, <2>3, <2>4, <2>5
<1>9. \A i \in k..Len(own) : growth[i] = 0
  BY <1>7
<1>10. Len(growth) = Len(own) /\ Len(ownAdds) = Len(own) /\ Len(bothAdds) = Len(both)
  BY <1>1
<1>11. /\ CursorCorrection(base, theirs, own, place) = RunningSums(growth)[Len(own) + 1]
       /\ LineStart(own) = RunningSums(ownAdds) /\ LineStart(both) = RunningSums(bothAdds)
  BY DEF CursorCorrection, LineStart
<1> HIDE DEF growth, ownAdds, bothAdds, both, Moved
<1>12. RunningSums(growth)[k] = RunningSums(growth)[Len(own) + 1]
  <2> DEFINE end == Len(own) + 1
  <2>1. k \in Nat \ {0} /\ end \in Nat /\ k <= end /\ end <= Len(growth) + 1 /\ end - 1 = Len(own)
    BY <1>5, <1>10
  <2>2. \A i \in k..(end - 1) : growth[i] = 0
    BY <1>9, <2>1
  <2> HIDE DEF end
  <2>3. RunningSums(growth)[k] = RunningSums(growth)[end]
    BY <1>4, <2>1, <2>2, SumsKeep
  <2>4. QED BY <2>3 DEF end
<1>13. RunningSums(bothAdds)[k] = RunningSums(ownAdds)[k] + RunningSums(growth)[k]
  <2>1. k \in Nat \ {0} /\ k <= Len(growth) + 1 /\ k <= Len(ownAdds) + 1 /\ k <= Len(bothAdds) + 1
    BY <1>1, <1>5, <1>10
  <2>2. QED BY <1>3, <1>4, <1>8, <2>1, SumsAdd
<1>14. RunningSums(growth)[k] \in Int /\ RunningSums(ownAdds)[k] \in Int
  <2>1. k \in 1..(Len(growth) + 1) /\ k \in 1..(Len(ownAdds) + 1)
    BY <1>5, <1>10
  <2>2. /\ RunningSums(growth) \in [1..(Len(growth) + 1) -> Int]
        /\ RunningSums(ownAdds) \in [1..(Len(ownAdds) + 1) -> Int]
    BY <1>3, <1>4, RunningSumsAt
  <2>3. QED BY <2>1, <2>2
<1>15. place + RunningSums(growth)[Len(own) + 1]
         = RunningSums(bothAdds)[k] + (place - RunningSums(ownAdds)[k])
  BY <1>12, <1>13, <1>14
<1>16. QED BY <1>11, <1>15 DEF both

\* SimpleMerger.java:29-32, MergerTest.java:39-42: the character a user is at in
\* a line of hers stays under the cursor, in texts of any length and however
\* long the lines that others have changed have become.
THEOREM CursorAlwaysKeepsItsPlace == Spec => []CursorKeepsItsPlace
<1>1. CallInv => CursorKeepsItsPlace
  <2>1. SUFFICES ASSUME CallInv, merged # NotMerged, NEW k \in Changed(P, M) \cap DOMAIN H,
                        cursor - LineStart(M)[k] \in 0..LineLength[M[k]]
                 PROVE  cursor + merged.correction
                          = LineStart(merged.contents)[k] + (cursor - LineStart(M)[k])
    BY DEF CursorKeepsItsPlace
  <2>2. P \in Seq(Line) /\ H \in Seq(Line) /\ M \in Seq(Line)
    BY <2>1, SplitLinesType DEF CallInv, P, H, M
  <2>3. k \in DOMAIN P \cap DOMAIN H \cap DOMAIN M /\ P[k] # M[k]
    BY <2>1 DEF Changed
  <2>4. cursor \in Nat /\ merged.contents = MergeLines(P, H, M)
        /\ merged.correction = CursorCorrection(P, H, M, cursor)
    BY <2>1 DEF CallInv
  <2>5. QED BY <2>1, <2>2, <2>3, <2>4, CorrectionAt
<1>2. QED BY <1>1, CallInvariant, PTL
=============================================================================
