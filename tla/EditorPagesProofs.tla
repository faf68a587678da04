--------------------------- MODULE EditorPagesProofs ---------------------------
(***************************************************************************)
(* For any number of pages, lines, texts and changes, and any bounds: what *)
(* the script of Document.xhtml keeps true of the pages, the document and  *)
(* everything that is on its way between them.                             *)
(***************************************************************************)
EXTENDS EditorPages, SaveServiceProofs

-----------------------------------------------------------------------------
(* Bags                                                                    *)

LEMMA BagAddAt ==
  ASSUME NEW B, NEW x, IsABag(B)
  PROVE  /\ IsABag(BagAdd(B, x))
         /\ BagToSet(BagAdd(B, x)) = BagToSet(B) \cup {x}
         /\ x \notin BagToSet(B) => BagAdd(B, x)[x] = 1
         /\ \A y \in BagToSet(B) : y # x => BagAdd(B, x)[y] = B[y]
BY DEF BagAdd, BagToSet, IsABag

LEMMA BagRemoveAt ==
  ASSUME NEW B, NEW x, IsABag(B)
  PROVE  /\ IsABag(BagRemove(B, x))
         /\ BagToSet(BagRemove(B, x)) \subseteq BagToSet(B)
         /\ x \in BagToSet(B) /\ B[x] = 1 => x \notin BagToSet(BagRemove(B, x))
         /\ \A y \in BagToSet(BagRemove(B, x)) : y # x => BagRemove(B, x)[y] = B[y]
         /\ \A y \in BagToSet(B) : y # x => y \in BagToSet(BagRemove(B, x))
BY DEF BagRemove, BagToSet, IsABag

LEMMA EmptyBagIsEmpty == IsABag(EmptyBag) /\ BagToSet(EmptyBag) = {}
BY DEF EmptyBag, SetToBag, IsABag, BagToSet

-----------------------------------------------------------------------------
(* Texts                                                                   *)

\* Every text of the document has as many lines as it started with.
Length == Len(Start)

Texts == {t \in [1..Length -> Line] : t[Length] # Blank}

LEMMA LengthType == Length \in Nat /\ Length >= 1 /\ Start \in Texts /\ Texts \subseteq Text
<1>1. Start \in Seq(Line) /\ Start # << >> /\ Start[Len(Start)] # Blank
  BY PagesAssumption DEF Text
<1>2. Length \in Nat /\ Length >= 1 /\ Start \in Texts
  BY <1>1 DEF Length, Texts
<1>3. ASSUME NEW t \in Texts PROVE t \in Text
  <2>1. t \in [1..Length -> Line]
    BY DEF Texts
  <2>2. t \in Seq(Line) /\ Len(t) = Length
    BY <1>2, <2>1
  <2>3. QED BY <1>2, <2>2 DEF Text
<1>4. QED BY <1>2, <1>3

\* Nothing is split off such a text.
LEMMA TextsStayWhole ==
  ASSUME NEW t \in Texts
  PROVE  SplitLines(t) = t
<1>1. t \in Text /\ t \in [1..Length -> Line] /\ t[Length] # Blank
  BY LengthType DEF Texts
<1>2. Len(t) = Length
  BY <1>1, LengthType
<1>3. QED BY <1>1, <1>2, VisibleTextsStayWhole

\* Merging them: each line is the user's if the user changed it.
LEMMA TextsMerge ==
  ASSUME NEW previous \in Texts, NEW head \in Texts, NEW mine \in Texts
  PROVE  /\ MergedText(previous, head, mine) \in Texts
         /\ \A i \in 1..Length : MergedText(previous, head, mine)[i] =
              IF previous[i] # mine[i] THEN mine[i] ELSE head[i]
         /\ ~MergeThrows(head, mine)
<1>1. MergedText(previous, head, mine) = MergeLines(previous, head, mine)
  BY TextsStayWhole DEF MergedText
<1>2. /\ Len(previous) = Length /\ Len(head) = Length /\ Len(mine) = Length
      /\ previous \in [1..Length -> Line] /\ head \in [1..Length -> Line]
      /\ mine \in [1..Length -> Line]
  <2>1. ASSUME NEW t \in Texts PROVE Len(t) = Length /\ t \in [1..Length -> Line]
    BY LengthType DEF Texts
  <2>2. QED BY <2>1
<1>3. MergeLines(previous, head, mine) =
        [i \in 1..Length |-> IF previous[i] # mine[i] THEN mine[i] ELSE head[i]]
  BY <1>2, LengthType DEF MergeLines, Longer, Shared
<1>4. previous[Length] # Blank /\ head[Length] # Blank /\ mine[Length] # Blank
  BY DEF Texts
<1>5. MergeLines(previous, head, mine) \in Texts
  BY <1>2, <1>3, <1>4, LengthType DEF Texts
<1>6. ~MergeThrows(head, mine)
  BY <1>2, TextsStayWhole, LengthType DEF MergeThrows
<1>7. QED BY <1>1, <1>3, <1>5, <1>6

-----------------------------------------------------------------------------
(* What a call of the service makes of such texts                          *)

\* The rows are sound, hold such texts, and the head is the newest.
ServerOK ==
  /\ clock \in Version
  /\ Sound(rows, clock)
  /\ rows # {}
  /\ \A r \in rows : r.contents \in Texts /\ r.description = Description
  /\ \A r \in rows : r.version <= CurrentHead(rows).version

\* The lines in which two texts differ, seen from a third: of two users who
\* start from previous, the one who sends mine changes these lines of head.
MergesInto(previous, head, mine, result) ==
  \A i \in 1..Length : result[i] = IF previous[i] # mine[i] THEN mine[i] ELSE head[i]

\* Saving contents that were typed over the version base.
SavedPageText(contents, base, saved) ==
  LET after == rows \cup saved.new
  IN  /\ saved.document.contents \in Texts
      /\ \A r \in saved.new : r.contents \in Texts /\ r.description = Description
      /\ \A r \in after : r.version <= saved.document.version
      /\ saved.savedVersion \in Nat
      /\ saved.savedVersion <= clock + Cardinality(saved.new)
      /\ saved.savedVersion # NoVersion => /\ \E r \in after : r.version = saved.savedVersion
                                           /\ \A r \in after : r.version = saved.savedVersion
                                                => r.contents = contents
      /\ \E previous \in rows :
           /\ previous.version = base
           /\ MergesInto(previous.contents, CurrentHead(rows).contents, contents,
                         saved.document.contents)
           /\ saved.savedVersion = NoVersion => previous.contents = contents

LEMMA SavePageText ==
  ASSUME ServerOK, NEW contents \in Texts, NEW base \in Nat,
         NEW saved,
         saved = Save(rows, MakeCall(contents, Description, base), clock + 1, clock + 2)
  PROVE  /\ SoundSave(rows, clock, saved)
         /\ saved # Failed => SavedPageText(contents, base, saved)
<1> DEFINE call     == MakeCall(contents, Description, base)
           head     == CurrentHead(rows)
           previous == FindByNameAndVersion(rows, base)
           after    == rows \cup saved.new
           v        == clock + 1
           w        == clock + 2
<1>1. clock \in Nat /\ Sound(rows, clock) /\ v \in Version /\ w \in Version /\ v # w
  BY DEF ServerOK, Version, NoVersion
<1>2. /\ call \in Calls /\ call.contents = contents /\ call.base = base
      /\ call.description = Description
  BY LengthType, PagesAssumption DEF Calls, MakeCall
<1>3. SoundSave(rows, clock, saved)
  BY <1>1, <1>2, SaveKeepsSound
<1>4. \/ Fails(rows, call, saved) \/ KeepsRows(rows, call, saved)
      \/ ChangesRows(rows, call, v, w, saved)
  BY <1>1, <1>2, SaveCases
<1>5. head \in rows /\ head.contents \in Texts /\ head.description = Description /\ rows # {}
  BY <1>1, HeadIsCurrent DEF ServerOK
<1>6. \A r \in rows : r.version \in Nat /\ r.version <= clock /\ r.version # NoVersion
  BY <1>1 DEF Sound, Row, Version
<1> HIDE DEF call, head, previous, v, w
<1>8. CASE Fails(rows, call, saved)
  BY <1>3, <1>8 DEF Fails
<1>9. CASE KeepsRows(rows, call, saved)
  <2>1. /\ rows # {} /\ previous \in rows /\ previous.version = base
        /\ saved.new = {} /\ saved.document = head
        /\ \/ head.contents = contents /\ saved.savedVersion = head.version
           \/ previous.contents = contents /\ saved.savedVersion = NoVersion
    BY <1>2, <1>9 DEF KeepsRows, Effect, head, previous
  <2>2. after = rows /\ Cardinality(saved.new) \in Nat
    BY <1>3, <2>1 DEF SoundSave
  <2>3. \A r \in rows : r.version <= head.version
    BY DEF ServerOK, head
  <2>4. saved.savedVersion \in Nat /\ saved.savedVersion <= clock + Cardinality(saved.new)
    BY <1>1, <1>5, <1>6, <2>1, <2>2 DEF NoVersion
  <2>5. \A r \in rows : r.version = head.version => r = head
    BY <1>1, <1>5 DEF Sound, UniqueKeys, SameKey
  <2>6. saved.savedVersion # NoVersion => /\ \E r \in after : r.version = saved.savedVersion
                                          /\ \A r \in after : r.version = saved.savedVersion
                                               => r.contents = contents
    BY <1>5, <2>1, <2>2, <2>5
  <2>7. MergesInto(previous.contents, head.contents, contents, head.contents)
    BY <2>1 DEF MergesInto
  <2>8. saved.savedVersion = NoVersion => previous.contents = contents
    BY <1>5, <1>6, <2>1
  <2>9. SavedPageText(contents, base, saved)
    BY <1>5, <2>1, <2>2, <2>3, <2>4, <2>6, <2>7, <2>8 DEF SavedPageText, head
  <2>10. saved # Failed
    BY <1>5, <2>1, <1>6 DEF Failed, Effect, NoRow, NoVersion
  <2>11. QED BY <1>3, <2>9, <2>10
<1>10. CASE ChangesRows(rows, call, v, w, saved)
  <2>1. \/ /\ previous \in rows /\ previous.version = base
           /\ previous = head
           /\ saved = SavedOverHead(head, call, v)
        \/ /\ previous \in rows /\ previous.version = base
           /\ saved = MergedIntoHead(head, previous, call, v, w)
    BY <1>2, <1>5, <1>10 DEF ChangesRows, head, previous
  <2>2. /\ saved # Failed /\ saved.new # {} /\ saved.savedVersion = v
        /\ saved.document.description = Description
        /\ \A r \in saved.new : r.description = Description
        /\ \A r \in saved.new : r = saved.document \/ (r.version = v /\ r.contents = contents)
    <3>1. Failed.new = {}
      BY DEF Failed, Effect
    <3>2. QED
      BY <1>2, <2>1, <3>1 DEF SavedOverHead, MergedIntoHead, Effect, MakeRow
  <2>3. /\ saved.document.contents \in Texts
        /\ saved.document.version # v \/ saved.document.contents = contents
        /\ \E r \in saved.new : r.version = v
        /\ previous \in rows /\ previous.version = base
        /\ MergesInto(previous.contents, head.contents, contents, saved.document.contents)
    <3>1. CASE /\ previous \in rows /\ previous.version = base
               /\ previous = head
               /\ saved = SavedOverHead(head, call, v)
      BY <1>2, <3>1 DEF SavedOverHead, Effect, MakeRow, MergesInto
    <3>2. CASE /\ previous \in rows /\ previous.version = base
               /\ saved = MergedIntoHead(head, previous, call, v, w)
      <4>1. /\ saved.document.contents = MergedText(previous.contents, head.contents, contents)
            /\ saved.document.version = w
            /\ \E r \in saved.new : r.version = v
        <5> DEFINE draft == MakeRow(v, v, previous.version, call.description, call.contents)
        <5>1. draft \in saved.new /\ draft.version = v
          BY <3>2 DEF MergedIntoHead, Effect, MakeRow
        <5>2. /\ saved.document.contents = MergedText(previous.contents, head.contents, contents)
              /\ saved.document.version = w
          BY <1>2, <3>2 DEF MergedIntoHead, Effect, MakeRow
        <5>3. QED BY <5>1, <5>2
      <4>2. previous.contents \in Texts /\ head.contents \in Texts
        BY <1>5, <3>2 DEF ServerOK
      <4>3. QED BY <1>1, <3>2, <4>1, <4>2, TextsMerge DEF MergesInto
    <3>3. QED BY <2>1, <3>1, <3>2
  <2>4. \A r \in saved.new : r.contents \in Texts /\ r.version > clock /\ r.version \in Nat
    BY <1>3, <2>2, <2>3 DEF SoundSave, Row, Version
  <2>5. saved.document \in saved.new /\ \A r \in saved.new : r.version <= saved.document.version
    BY <1>3, <2>2 DEF SoundSave
  <2>6. \A r \in after : r.version <= saved.document.version
    BY <1>1, <1>6, <2>4, <2>5
  <2>7. v \in Nat /\ v # NoVersion /\ v > clock
    BY <1>1 DEF v, NoVersion
  <2>8. v <= clock + Cardinality(saved.new)
    BY <1>3, <2>3 DEF SoundSave
  <2>9. \A r \in after : r.version = v => r.contents = contents
    BY <1>1, <1>6, <2>2, <2>3, <2>7
  <2>10. /\ saved.savedVersion \in Nat
         /\ saved.savedVersion <= clock + Cardinality(saved.new)
         /\ saved.savedVersion # NoVersion
         /\ \E r \in after : r.version = saved.savedVersion
         /\ \A r \in after : r.version = saved.savedVersion => r.contents = contents
    BY <2>2, <2>3, <2>7, <2>8, <2>9
  <2>11. SavedPageText(contents, base, saved)
    BY <2>2, <2>3, <2>4, <2>6, <2>10 DEF SavedPageText, head
  <2>12. QED BY <1>3, <2>2, <2>11
<1>11. QED BY <1>4, <1>8, <1>9, <1>10

-----------------------------------------------------------------------------
(* What holds of pages and messages whatever happens                       *)

LoadedPage(p) ==
  /\ loaded[p] \in Row /\ loaded[p].contents \in Texts
  /\ text[p] \in Texts
  /\ currentVersion[p] \in Version /\ currentVersion[p] <= clock

LeftPage(p) ==
  /\ loaded[p] = NoRow
  /\ currentVersion[p] = NoVersion

PagesOK ==
  /\ socket \in [Pages -> {"closed", "loaded", "listening"}]
  /\ loaded \in [Pages -> Row \cup {NoRow}]
  /\ text \in [Pages -> Text]
  /\ currentVersion \in [Pages -> Nat]
  /\ sentContents \in [Pages -> Text]
  /\ requestInProgress \in [Pages -> BOOLEAN]
  /\ overdue \in [Pages -> BOOLEAN]
  /\ timers \in [Pages -> Nat]
  /\ typed \in [Pages -> Line]
  /\ \A p \in Pages : IF socket[p] = "closed" THEN LeftPage(p) /\ timers[p] = 0 ELSE LoadedPage(p)

RequestOK(r) ==
  /\ r \in Request
  /\ r.contents \in Texts
  /\ r.base <= clock
  /\ r.page \in Pages => socket[r.page] # "closed"

AnswerOK(a) ==
  /\ a \in Answer
  /\ a.document.contents \in Texts
  /\ a.document.version <= clock
  /\ a.savedVersion <= clock
  /\ socket[a.page] # "closed"

RequestsOK == IsABag(requests) /\ \A r \in BagToSet(requests) : RequestOK(r)

AnswersOK == IsABag(answers) /\ \A a \in BagToSet(answers) : AnswerOK(a)

\* A page that was left has no messages.
InboxOK(p) ==
  /\ IsABag(inbox[p])
  /\ \A v \in BagToSet(inbox[p]) : v \in Version /\ v <= clock /\ socket[p] # "closed"

InboxesOK ==
  /\ inbox = [p \in Pages |-> inbox[p]]
  /\ \A p \in Pages : InboxOK(p)

BoundsOK ==
  /\ edits \in 0..MaxTyped /\ slow \in 0..MaxSlow /\ lost \in 0..MaxLost
  /\ reloads \in 0..MaxReloads

PagesInv == ServerOK /\ PagesOK /\ RequestsOK /\ AnswersOK /\ InboxesOK /\ BoundsOK

LEMMA PagesInvImpliesTypes == PagesInv /\ missed \subseteq Pages => TypeOK
<1>1. SUFFICES ASSUME PagesInv, missed \subseteq Pages PROVE TypeOK
  OBVIOUS
<1>2. rows \subseteq Row /\ clock \in Version
  BY <1>1 DEF PagesInv, ServerOK, Sound
<1>3. /\ \A p \in Pages : loaded[p] \in IF socket[p] = "closed" THEN {NoRow} ELSE Row
      /\ \A p \in Pages : currentVersion[p] \in
           IF socket[p] = "closed" THEN {NoVersion} ELSE Version
  BY <1>1 DEF PagesInv, PagesOK, LoadedPage, LeftPage
<1>4. BagToSet(requests) \subseteq Request /\ BagToSet(answers) \subseteq Answer
  BY <1>1 DEF PagesInv, RequestsOK, RequestOK, AnswersOK, AnswerOK
<1>5. \A p \in Pages : IsABag(inbox[p]) /\ BagToSet(inbox[p]) \subseteq Version
  BY <1>1 DEF PagesInv, InboxesOK, InboxOK
<1>6. QED BY <1>1, <1>2, <1>3, <1>4, <1>5
          DEF PagesInv, PagesOK, RequestsOK, AnswersOK, BoundsOK, TypeOK

\* What a page sends.
RequestOf(p, contents) == [page |-> p, contents |-> contents, base |-> currentVersion[p]]

\* A call of contentUpdated disturbs no other page.
LEMMA ContentUpdatedKeeps ==
  ASSUME PagesInv, NEW p \in Pages, socket[p] # "closed",
         NEW contents \in Texts, NEW pending \in Nat,
         ContentUpdated(p, contents, pending)
  PROVE  /\ timers' \in [Pages -> Nat] /\ sentContents' \in [Pages -> Text]
         /\ requestInProgress' \in [Pages -> BOOLEAN] /\ overdue' \in [Pages -> BOOLEAN]
         /\ \A q \in Pages : q # p => /\ timers'[q] = timers[q]
                                      /\ sentContents'[q] = sentContents[q]
                                      /\ requestInProgress'[q] = requestInProgress[q]
                                      /\ overdue'[q] = overdue[q]
         /\ IsABag(requests') /\ \A r \in BagToSet(requests') : RequestOK(r)
<1>1. PagesOK /\ RequestsOK /\ contents \in Text
  BY LengthType DEF PagesInv
<1>2. CASE MustWait(p) /\ UNCHANGED << sentContents, requestInProgress, overdue, requests >>
  <2>1. timers' = [timers EXCEPT ![p] = pending + 1] \/ timers' = [timers EXCEPT ![p] = pending]
    BY DEF ContentUpdated
  <2>2. QED BY <1>1, <1>2, <2>1 DEF PagesOK, RequestsOK
<1>3. CASE ~MustWait(p)
  <2>1. /\ timers' = [timers EXCEPT ![p] = pending]
        /\ sentContents' = [sentContents EXCEPT ![p] = contents]
        /\ requestInProgress' = [requestInProgress EXCEPT ![p] = TRUE]
        /\ overdue' = [overdue EXCEPT ![p] = FALSE]
        /\ requests' = BagAdd(requests, RequestOf(p, contents))
    BY <1>3 DEF ContentUpdated, RequestOf
  <2>2. RequestOK(RequestOf(p, contents))
    BY <1>1 DEF PagesOK, LoadedPage, RequestOf, RequestOK, Request
  <2>3. IsABag(requests') /\ \A r \in BagToSet(requests') : RequestOK(r)
    BY <1>1, <2>1, <2>2, BagAddAt DEF RequestsOK
  <2>4. QED BY <1>1, <2>1, <2>3 DEF PagesOK
<1>4. QED BY <1>2, <1>3 DEF ContentUpdated

\* Leaving a page takes its answers away; its requests are nobody's.
LEMMA OfOthersKeep ==
  ASSUME NEW B, NEW p, IsABag(B)
  PROVE  /\ IsABag(OfOthers(B, p))
         /\ BagToSet(OfOthers(B, p)) = {y \in BagToSet(B) : y.page # p}
         /\ \A y \in BagToSet(OfOthers(B, p)) : OfOthers(B, p)[y] = B[y]
BY DEF OfOthers, IsABag, BagToSet

LEMMA OrphansKeep ==
  ASSUME NEW p \in Pages, RequestsOK
  PROVE  /\ IsABag(Orphans(p))
         /\ \A x \in BagToSet(Orphans(p)) : x.page = Gone /\ RequestOK(x)
<1> DEFINE mine == {z \in BagToSet(requests) : z.page = p}
<1>1. ASSUME NEW z \in mine
      PROVE  LET x == [z EXCEPT !.page = Gone]
             IN  /\ [x EXCEPT !.page = p] = z
                 /\ x.page = Gone /\ RequestOK(x)
  <2>1. RequestOK(z) /\ z.page = p /\ z \in Request
    BY <1>1 DEF RequestsOK, RequestOK
  <2>2. QED BY <2>1, PagesAssumption DEF Request, RequestOK
<1>2. ASSUME NEW x \in {[y EXCEPT !.page = Gone] : y \in mine}
      PROVE  /\ [x EXCEPT !.page = p] \in BagToSet(requests)
             /\ x.page = Gone /\ RequestOK(x)
  BY <1>1, <1>2
<1>3. /\ BagToSet(Orphans(p)) = {[y EXCEPT !.page = Gone] : y \in mine}
      /\ \A x \in BagToSet(Orphans(p)) : Orphans(p)[x] = requests[[x EXCEPT !.page = p]]
  BY DEF Orphans, BagToSet
<1>4. \A r \in BagToSet(requests) : requests[r] \in {n \in Nat : n > 0}
  BY DEF RequestsOK, IsABag, BagToSet
<1> HIDE DEF mine
<1>5. \A x \in BagToSet(Orphans(p)) : Orphans(p)[x] \in {n \in Nat : n > 0}
  BY <1>2, <1>3, <1>4
<1>6. Orphans(p) = [x \in BagToSet(Orphans(p)) |-> Orphans(p)[x]]
  BY DEF Orphans, BagToSet
<1>7. IsABag(Orphans(p))
  BY <1>5, <1>6 DEF IsABag, BagToSet
<1>8. QED BY <1>2, <1>3, <1>7

LEMMA BagSum ==
  ASSUME NEW A, NEW B, IsABag(A), IsABag(B)
  PROVE  /\ IsABag(A (+) B)
         /\ BagToSet(A (+) B) = BagToSet(A) \cup BagToSet(B)
         /\ \A x \in BagToSet(A) : x \notin BagToSet(B) => (A (+) B)[x] = A[x]
<1>1. /\ \A x \in DOMAIN A : A[x] \in Nat /\ A[x] > 0
      /\ \A x \in DOMAIN B : B[x] \in Nat /\ B[x] > 0
  BY DEF IsABag
<1>2. A (+) B = [e \in (DOMAIN A) \cup (DOMAIN B) |->
                   (IF e \in DOMAIN A THEN A[e] ELSE 0)
                 + (IF e \in DOMAIN B THEN B[e] ELSE 0)]
  BY DEF (+)
<1>3. DOMAIN (A (+) B) = DOMAIN A \cup DOMAIN B
  BY <1>2
<1>4. \A e \in DOMAIN (A (+) B) : (A (+) B)[e] =
         (IF e \in DOMAIN A THEN A[e] ELSE 0) + (IF e \in DOMAIN B THEN B[e] ELSE 0)
  BY <1>2, <1>3
<1>5. \A e \in DOMAIN (A (+) B) : (A (+) B)[e] \in {n \in Nat : n > 0}
  BY <1>1, <1>3, <1>4
<1>6. A (+) B = [e \in DOMAIN (A (+) B) |-> (A (+) B)[e]]
  BY <1>2
<1>7. IsABag(A (+) B)
  BY <1>5, <1>6 DEF IsABag
<1>8. \A x \in DOMAIN A : x \notin DOMAIN B => (A (+) B)[x] = A[x]
  BY <1>1, <1>3, <1>4
<1>9. QED BY <1>3, <1>7, <1>8 DEF BagToSet

LEMMA LeaveKeeps ==
  ASSUME PagesInv, NEW p \in Pages, Leave(p), clock' \in Version, clock <= clock'
  PROVE  /\ PagesOK' /\ RequestsOK' /\ AnswersOK'
         /\ socket'[p] = "closed" /\ \A q \in Pages : q # p => socket'[q] = socket[q]
<1>1. PagesOK /\ RequestsOK /\ AnswersOK /\ clock \in Nat /\ clock' \in Nat
  BY DEF PagesInv, ServerOK, Version
<1>2. << Blank >> \in Text /\ Blank \in Line
  BY LineAssumption DEF Text
<1>3. /\ socket' \in [Pages -> {"closed", "loaded", "listening"}]
      /\ loaded' \in [Pages -> Row \cup {NoRow}]
      /\ text' \in [Pages -> Text]
      /\ currentVersion' \in [Pages -> Nat]
      /\ sentContents' \in [Pages -> Text]
      /\ requestInProgress' \in [Pages -> BOOLEAN]
      /\ overdue' \in [Pages -> BOOLEAN]
      /\ timers' \in [Pages -> Nat]
      /\ typed' \in [Pages -> Line]
  BY <1>1, <1>2 DEF Leave, PagesOK, NoVersion
<1>4. /\ socket'[p] = "closed" /\ \A q \in Pages : q # p => socket'[q] = socket[q]
  BY <1>1 DEF Leave, PagesOK
<1>5. \A q \in Pages : IF socket'[q] = "closed" THEN LeftPage(q)' /\ timers'[q] = 0
                                               ELSE LoadedPage(q)'
  <2>1. LeftPage(p)' /\ timers'[p] = 0
    BY <1>1 DEF Leave, PagesOK, LeftPage
  <2>2. ASSUME NEW q \in Pages, q # p
        PROVE  /\ loaded'[q] = loaded[q] /\ text'[q] = text[q] /\ timers'[q] = timers[q]
               /\ currentVersion'[q] = currentVersion[q]
    BY <1>1, <2>2 DEF Leave, PagesOK
  <2>3. ASSUME NEW q \in Pages, q # p
        PROVE  IF socket'[q] = "closed" THEN LeftPage(q)' /\ timers'[q] = 0 ELSE LoadedPage(q)'
    BY <1>1, <1>4, <2>2, <2>3 DEF PagesOK, LeftPage, LoadedPage
  <2>4. QED BY <1>4, <2>1, <2>3
<1>6. RequestsOK'
  <2>1. requests' = OfOthers(requests, p) (+) Orphans(p)
    BY DEF Leave
  <2>2. /\ IsABag(OfOthers(requests, p)) /\ IsABag(Orphans(p))
        /\ \A r \in BagToSet(OfOthers(requests, p)) : RequestOK(r) /\ r.page # p
        /\ \A r \in BagToSet(Orphans(p)) : RequestOK(r) /\ r.page = Gone
    BY <1>1, OfOthersKeep, OrphansKeep DEF RequestsOK
  <2>3. /\ IsABag(requests')
        /\ \A r \in BagToSet(requests') : RequestOK(r) /\ r.page # p
    BY <2>1, <2>2, BagSum, PagesAssumption
  <2>4. ASSUME NEW r \in BagToSet(requests') PROVE RequestOK(r)'
    <3>1. r \in Request /\ r.base \in Nat /\ r.contents \in Texts /\ r.base <= clock
          /\ (r.page \in Pages => socket[r.page] # "closed") /\ r.page # p
      BY <2>3 DEF RequestOK, Request, Version
    <3>2. QED BY <1>1, <1>4, <3>1 DEF RequestOK
  <2>5. QED BY <2>3, <2>4 DEF RequestsOK
<1>7. AnswersOK'
  <2>1. /\ IsABag(answers')
        /\ \A a \in BagToSet(answers') : AnswerOK(a) /\ a.page # p
    BY <1>1, OfOthersKeep DEF Leave, AnswersOK
  <2>2. ASSUME NEW a \in BagToSet(answers') PROVE AnswerOK(a)'
    <3>1. /\ a \in Answer /\ a.document.version \in Nat /\ a.savedVersion \in Nat
          /\ a.document.contents \in Texts /\ a.document.version <= clock
          /\ a.savedVersion <= clock /\ a.page \in Pages
          /\ socket[a.page] # "closed" /\ a.page # p
      BY <2>1 DEF AnswerOK, Answer, Row, Version, NoVersion
    <3>2. QED BY <1>1, <1>4, <3>1 DEF AnswerOK
  <2>3. QED BY <2>1, <2>2 DEF AnswersOK
<1>8. QED BY <1>3, <1>4, <1>5, <1>6, <1>7 DEF PagesOK

\* A page that gets a message is one that listens.
LEMMA PushedKeeps ==
  ASSUME InboxesOK, NEW version \in Version, NEW base, NEW later \in Nat,
         clock <= later, version <= later, clock \in Nat
  PROVE  /\ Pushed(version, base) = [p \in Pages |-> Pushed(version, base)[p]]
         /\ \A p \in Pages :
              /\ IsABag(Pushed(version, base)[p])
              /\ \A v \in BagToSet(Pushed(version, base)[p]) :
                   v \in Version /\ v <= later /\ socket[p] # "closed"
<1>1. Pushed(version, base) = [p \in Pages |-> Pushed(version, base)[p]]
  BY DEF Pushed
<1>2. ASSUME NEW p \in Pages
      PROVE  /\ IsABag(Pushed(version, base)[p])
             /\ \A v \in BagToSet(Pushed(version, base)[p]) :
                  v \in Version /\ v <= later /\ socket[p] # "closed"
  <2>1. IsABag(inbox[p])
        /\ \A v \in BagToSet(inbox[p]) : v \in Version /\ v <= later /\ socket[p] # "closed"
    BY DEF InboxesOK, InboxOK, Version
  <2>2. CASE socket[p] = "listening" /\ version # base
    <3>1. Pushed(version, base)[p] = BagAdd(inbox[p], version)
      BY <2>2 DEF Pushed
    <3>2. QED BY <2>1, <2>2, <3>1, BagAddAt
  <2>3. CASE ~(socket[p] = "listening" /\ version # base)
    <3>1. Pushed(version, base)[p] = inbox[p]
      BY <2>3 DEF Pushed
    <3>2. QED BY <2>1, <3>1
  <2>4. QED BY <2>2, <2>3
<1>3. QED BY <1>1, <1>2

LEMMA PagesInvInit == Init => PagesInv
<1> SUFFICES ASSUME Init PROVE PagesInv
  OBVIOUS
<1> DEFINE first == MakeRow(clock, NoVersion, NoVersion, Description, Start)
<1>1. /\ first \in Row /\ first.version = 1 /\ first.previousVersion = 0
      /\ first.contents \in Texts /\ first.description = Description
  BY LengthType, PagesAssumption DEF Init, MakeRow, Row, Version, NoVersion
<1>2. rows = {first} /\ clock = 1 /\ clock \in Version
  BY DEF Init, Version, NoVersion
<1> HIDE DEF first
<1>3. Heads(rows) = {first}
  BY <1>1, <1>2 DEF Heads
<1>4. Sound(rows, clock)
  BY <1>1, <1>2, <1>3 DEF Sound, UniqueKeys
<1>5. CurrentHead(rows) = first
  BY <1>2, <1>3 DEF CurrentHead
<1>6. ServerOK
  BY <1>1, <1>2, <1>4, <1>5 DEF ServerOK
<1>7. << Blank >> \in Text /\ Blank \in Line
  BY LineAssumption DEF Text
<1>8. PagesOK
  BY <1>7 DEF Init, PagesOK, LeftPage, NoVersion
<1>9. RequestsOK /\ AnswersOK
  BY EmptyBagIsEmpty DEF Init, RequestsOK, AnswersOK
<1>10. InboxesOK
  <2>1. inbox = [p \in Pages |-> EmptyBag]
    BY DEF Init
  <2>2. inbox = [p \in Pages |-> inbox[p]]
    BY <2>1
  <2>3. QED BY <2>1, <2>2, EmptyBagIsEmpty DEF InboxesOK, InboxOK
<1>11. BoundsOK
  BY PagesAssumption DEF Init, BoundsOK
<1>12. QED BY <1>6, <1>8, <1>9, <1>10, <1>11 DEF PagesInv

\* The steps of the script that leave the document alone.
LEMMA ScriptKeepsPages ==
  ASSUME PagesInv, NEW p \in Pages,
         \/ Open(p) \/ Connect(p) \/ Type(p) \/ TimerFires(p) \/ RefreshIfNeeded(p)
         \/ Answered(p) \/ AnswerIsLate(p) \/ AnswerIsMissing(p)
  PROVE  PagesInv'
<1>1. ServerOK /\ PagesOK /\ RequestsOK /\ AnswersOK /\ InboxesOK /\ BoundsOK
  BY DEF PagesInv
<1>2. UNCHANGED << rows, clock >>
  BY DEF Open, Connect, Type, TimerFires, RefreshIfNeeded, Answered, AnswerIsLate,
         AnswerIsMissing, Overdue, server
<1>3. ServerOK'
  BY <1>1, <1>2 DEF ServerOK
<1>4. ASSUME PagesOK', RequestsOK', AnswersOK', InboxesOK', BoundsOK'
      PROVE  PagesInv'
  BY <1>3, <1>4 DEF PagesInv
<1>5. CASE Open(p)
  <2> DEFINE head == CurrentHead(rows)
  <2>1. /\ head \in Row /\ head.contents \in Texts /\ head.version <= clock
        /\ head.version \in Version
    BY <1>1, <1>5, HeadIsCurrent DEF ServerOK, Sound, Row
  <2>2. head.contents[OwnLine[p]] \in Line
    <3>1. OwnLine[p] \in 1..Length
      BY PagesAssumption, LengthType DEF Texts
    <3>2. QED BY <2>1, <3>1 DEF Texts
  <2>3. /\ loaded' = [loaded EXCEPT ![p] = head]
        /\ text' = [text EXCEPT ![p] = head.contents]
        /\ currentVersion' = [currentVersion EXCEPT ![p] = head.version]
        /\ typed' = [typed EXCEPT ![p] = head.contents[OwnLine[p]]]
        /\ socket' = [socket EXCEPT ![p] = "loaded"]
        /\ UNCHANGED << sentContents, requestInProgress, overdue, timers, network, bounds >>
    BY <1>5 DEF Open
  <2> HIDE DEF head
  <2>4. \A q \in Pages : socket[q] # "closed" => socket'[q] # "closed"
    BY <1>1, <2>3 DEF PagesOK
  <2>5. PagesOK'
    <3>1. LoadedPage(p)' /\ socket'[p] # "closed"
      BY <1>1, <1>2, <2>1, <2>3 DEF PagesOK, LoadedPage
    <3>2. ASSUME NEW q \in Pages, q # p
          PROVE  IF socket'[q] = "closed" THEN LeftPage(q)' /\ timers'[q] = 0 ELSE LoadedPage(q)'
      BY <1>1, <1>2, <2>3, <3>2 DEF PagesOK, LoadedPage, LeftPage
    <3>3. head.contents \in Text
      BY <2>1, LengthType
    <3>4. /\ socket' \in [Pages -> {"closed", "loaded", "listening"}]
          /\ loaded' \in [Pages -> Row \cup {NoRow}]
          /\ text' \in [Pages -> Text]
          /\ currentVersion' \in [Pages -> Nat]
          /\ typed' \in [Pages -> Line]
      BY <1>1, <2>1, <2>2, <2>3, <3>3 DEF PagesOK, Version
    <3>5. QED BY <1>1, <2>3, <3>1, <3>2, <3>4 DEF PagesOK
  <2>6. RequestsOK' /\ AnswersOK' /\ InboxesOK'
    BY <1>1, <1>2, <2>3, <2>4
       DEF network, RequestsOK, RequestOK, AnswersOK, AnswerOK, Answer, InboxesOK, InboxOK
  <2>7. BoundsOK'
    BY <1>1, <2>3 DEF bounds, BoundsOK
  <2>8. QED BY <1>4, <2>5, <2>6, <2>7
<1>6. CASE Connect(p)
  <2>1. \A q \in Pages : (socket'[q] = "closed") <=> (socket[q] = "closed")
    BY <1>1, <1>6 DEF Connect, PagesOK
  <2>2. PagesOK'
    BY <1>1, <1>2, <1>6, <2>1 DEF Connect, PagesOK, LoadedPage, LeftPage
  <2>3. RequestsOK' /\ AnswersOK' /\ InboxesOK' /\ BoundsOK'
    BY <1>1, <1>2, <1>6, <2>1
       DEF Connect, network, bounds, RequestsOK, RequestOK, AnswersOK, AnswerOK, Answer,
           InboxesOK, InboxOK, BoundsOK
  <2>4. QED BY <1>4, <2>2, <2>3
<1>7. CASE Type(p)
  <2>1. PICK line \in Line \ {Blank, text[p][OwnLine[p]]} :
          LET contents == [text[p] EXCEPT ![OwnLine[p]] = line]
          IN  /\ text' = [text EXCEPT ![p] = contents]
              /\ typed' = [typed EXCEPT ![p] = line]
              /\ ContentUpdated(p, contents, timers[p])
    BY <1>7 DEF Type
  <2> DEFINE contents == [text[p] EXCEPT ![OwnLine[p]] = line]
  <2>2. /\ socket[p] # "closed" /\ text[p] \in Texts /\ timers[p] \in Nat
        /\ UNCHANGED << socket, loaded, currentVersion, inbox, answers, slow, lost, reloads >>
        /\ edits' = edits + 1 /\ edits < MaxTyped
    BY <1>1, <1>7 DEF Type, PagesOK, LoadedPage
  <2>3. contents \in Texts
    <3>1. text[p] \in [1..Length -> Line] /\ text[p][Length] # Blank /\ Length \in 1..Length
      BY <2>2, LengthType DEF Texts
    <3>2. line \in Line /\ line # Blank
      BY <2>1
    <3>3. contents \in [1..Length -> Line] /\ contents[Length] # Blank
      BY <3>1, <3>2
    <3>4. QED BY <3>3 DEF Texts
  <2>4. text' = [text EXCEPT ![p] = contents] /\ ContentUpdated(p, contents, timers[p])
    BY <2>1
  <2> HIDE DEF contents
  <2>5. /\ timers' \in [Pages -> Nat] /\ sentContents' \in [Pages -> Text]
        /\ requestInProgress' \in [Pages -> BOOLEAN] /\ overdue' \in [Pages -> BOOLEAN]
        /\ \A q \in Pages : q # p => timers'[q] = timers[q]
        /\ IsABag(requests') /\ \A r \in BagToSet(requests') : RequestOK(r)
    BY <2>2, <2>3, <2>4, ContentUpdatedKeeps
  <2>6. PagesOK'
    <3>1. text' \in [Pages -> Text] /\ typed' \in [Pages -> Line]
      BY <1>1, <2>1, <2>3, <2>4, LengthType DEF PagesOK
    <3>2. ASSUME NEW q \in Pages
          PROVE  IF socket'[q] = "closed" THEN LeftPage(q)' /\ timers'[q] = 0 ELSE LoadedPage(q)'
      BY <1>1, <1>2, <2>2, <2>3, <2>4, <2>5 DEF PagesOK, LoadedPage, LeftPage
    <3>3. QED BY <1>1, <2>2, <2>5, <3>1, <3>2 DEF PagesOK
  <2>7. RequestsOK' /\ AnswersOK' /\ InboxesOK'
    BY <1>1, <1>2, <2>2, <2>5
       DEF RequestsOK, RequestOK, AnswersOK, AnswerOK, InboxesOK, InboxOK
  <2>8. BoundsOK'
    BY <1>1, <2>2, PagesAssumption DEF BoundsOK
  <2>9. QED BY <1>4, <2>6, <2>7, <2>8
<1>8. ASSUME NEW pending \in Nat, socket[p] # "closed", ContentUpdated(p, text[p], pending),
             UNCHANGED << socket, loaded, text, currentVersion, answers, typed, bounds >>,
             InboxesOK'
      PROVE  PagesInv'
  <2>1. text[p] \in Texts
    BY <1>1, <1>8 DEF PagesOK, LoadedPage
  <2>2. /\ timers' \in [Pages -> Nat] /\ sentContents' \in [Pages -> Text]
        /\ requestInProgress' \in [Pages -> BOOLEAN] /\ overdue' \in [Pages -> BOOLEAN]
        /\ \A q \in Pages : q # p => timers'[q] = timers[q]
        /\ IsABag(requests') /\ \A r \in BagToSet(requests') : RequestOK(r)
    BY <1>8, <2>1, ContentUpdatedKeeps
  <2>3. PagesOK'
    BY <1>1, <1>2, <1>8, <2>2 DEF PagesOK, LoadedPage, LeftPage
  <2>4. RequestsOK' /\ AnswersOK'
    BY <1>1, <1>2, <1>8, <2>2 DEF RequestsOK, RequestOK, AnswersOK, AnswerOK
  <2>5. BoundsOK'
    BY <1>1, <1>8 DEF bounds, BoundsOK
  <2>6. QED BY <1>4, <1>8, <2>3, <2>4, <2>5
<1>9. CASE TimerFires(p)
  <2>1. /\ timers[p] > 0 /\ timers[p] \in Nat /\ ContentUpdated(p, text[p], timers[p] - 1)
        /\ UNCHANGED << socket, loaded, text, currentVersion, inbox, answers, typed, bounds >>
    BY <1>1, <1>9 DEF TimerFires, PagesOK
  <2>2. timers[p] - 1 \in Nat /\ socket[p] # "closed"
    BY <1>1, <2>1 DEF PagesOK
  <2>3. InboxesOK'
    BY <1>1, <1>2, <2>1 DEF InboxesOK, InboxOK
  <2>4. QED BY <1>8, <2>1, <2>2, <2>3
<1>10. CASE RefreshIfNeeded(p)
  <2>1. PICK version \in BagToSet(inbox[p]) :
          /\ inbox' = [inbox EXCEPT ![p] = BagRemove(@, version)]
          /\ IF version > currentVersion[p]
             THEN ContentUpdated(p, text[p], timers[p])
             ELSE UNCHANGED << sentContents, requestInProgress, overdue, timers, requests >>
          /\ UNCHANGED << server, socket, loaded, text, currentVersion, answers, typed, bounds >>
    BY <1>10 DEF RefreshIfNeeded
  <2>2. timers[p] \in Nat /\ socket[p] # "closed"
    BY <1>1, <2>1 DEF PagesOK, InboxesOK, InboxOK
  <2>3. InboxesOK'
    <3>1. inbox = [q \in Pages |-> inbox[q]]
      BY <1>1 DEF InboxesOK
    <3>2. /\ inbox' = [q \in Pages |-> inbox'[q]]
          /\ inbox'[p] = BagRemove(inbox[p], version)
          /\ \A q \in Pages : q # p => inbox'[q] = inbox[q]
      BY <2>1, <3>1
    <3>3. InboxOK(p)'
      BY <1>1, <1>2, <2>1, <3>2, BagRemoveAt DEF InboxesOK, InboxOK
    <3>4. \A q \in Pages : q # p => InboxOK(q)'
      BY <1>1, <1>2, <2>1, <3>2 DEF InboxesOK, InboxOK
    <3>5. QED BY <3>2, <3>3, <3>4 DEF InboxesOK
  <2>4. CASE version > currentVersion[p]
    BY <1>8, <2>1, <2>2, <2>3, <2>4
  <2>5. CASE ~(version > currentVersion[p])
    <3>1. UNCHANGED << sentContents, requestInProgress, overdue, timers, requests, socket,
                       loaded, text, currentVersion, answers, typed, bounds >>
      BY <2>1, <2>5
    <3>2. PagesOK'
      BY <1>1, <1>2, <3>1 DEF PagesOK, LoadedPage, LeftPage
    <3>3. RequestsOK' /\ AnswersOK' /\ BoundsOK'
      BY <1>1, <1>2, <3>1
         DEF bounds, RequestsOK, RequestOK, AnswersOK, AnswerOK, BoundsOK
    <3>4. QED BY <1>4, <2>3, <3>2, <3>3
  <2>6. QED BY <2>4, <2>5
<1>11. CASE Answered(p)
  <2>1. PICK answer \in BagToSet(answers) :
          /\ answer.page = p
          /\ answers' = BagRemove(answers, answer)
          /\ requestInProgress' = [requestInProgress EXCEPT ![p] = FALSE]
          /\ overdue' = [overdue EXCEPT ![p] = FALSE]
          /\ \/ /\ text[p] = sentContents[p]
                /\ currentVersion' = [currentVersion EXCEPT ![p] = answer.document.version]
                /\ text' = [text EXCEPT ![p] = answer.document.contents]
             \/ /\ text[p] # sentContents[p]
                /\ currentVersion' = IF answer.savedVersion # NoVersion
                                     THEN [currentVersion EXCEPT ![p] = answer.savedVersion]
                                     ELSE currentVersion
                /\ UNCHANGED text
          /\ UNCHANGED << server, socket, loaded, sentContents, timers, inbox, requests, typed,
                          bounds >>
    BY <1>11 DEF Answered
  <2>2. /\ answer.document.contents \in Texts /\ answer.document.version \in Version
        /\ answer.document.version <= clock /\ answer.savedVersion <= clock
        /\ answer.savedVersion # NoVersion => answer.savedVersion \in Version
        /\ socket[p] # "closed"
    BY <1>1, <2>1 DEF AnswersOK, AnswerOK, Answer, Row
  <2>3. LoadedPage(p)' /\ text' \in [Pages -> Text] /\ currentVersion' \in [Pages -> Nat]
    BY <1>1, <1>2, <2>1, <2>2, LengthType DEF PagesOK, LoadedPage, Version
  <2>4. ASSUME NEW q \in Pages, q # p
        PROVE  IF socket'[q] = "closed" THEN LeftPage(q)' /\ timers'[q] = 0 ELSE LoadedPage(q)'
    BY <1>1, <1>2, <2>1, <2>4 DEF PagesOK, LoadedPage, LeftPage
  <2>5. PagesOK'
    BY <1>1, <2>1, <2>2, <2>3, <2>4 DEF PagesOK
  <2>6. RequestsOK' /\ InboxesOK' /\ BoundsOK'
    BY <1>1, <1>2, <2>1 DEF bounds, RequestsOK, RequestOK, InboxesOK, InboxOK, BoundsOK
  <2>7. AnswersOK'
    BY <1>1, <1>2, <2>1, BagRemoveAt DEF AnswersOK, AnswerOK
  <2>8. QED BY <1>4, <2>5, <2>6, <2>7
<1>12. CASE AnswerIsLate(p) \/ AnswerIsMissing(p)
  <2>1. /\ overdue' = [overdue EXCEPT ![p] = TRUE]
        /\ UNCHANGED << socket, loaded, text, currentVersion, sentContents, requestInProgress,
                        timers, inbox, requests, answers, typed, edits, lost, reloads >>
        /\ slow' = slow \/ (slow < MaxSlow /\ slow' = slow + 1)
    BY <1>12 DEF AnswerIsLate, AnswerIsMissing, Overdue, network
  <2>2. PagesOK'
    BY <1>1, <1>2, <2>1 DEF PagesOK, LoadedPage, LeftPage
  <2>3. RequestsOK' /\ AnswersOK' /\ InboxesOK'
    BY <1>1, <1>2, <2>1
       DEF RequestsOK, RequestOK, AnswersOK, AnswerOK, InboxesOK, InboxOK
  <2>4. BoundsOK'
    BY <1>1, <2>1, PagesAssumption DEF BoundsOK
  <2>5. QED BY <1>4, <2>2, <2>3, <2>4
<1>13. QED BY <1>5, <1>6, <1>7, <1>9, <1>10, <1>11, <1>12

\* What was sent is saved like this.
LEMMA SavedByText ==
  ASSUME PagesInv, NEW request \in BagToSet(requests), NEW saved, saved = SavedBy(request)
  PROVE  /\ SoundSave(rows, clock, saved)
         /\ saved # Failed => SavedPageText(request.contents, request.base, saved)
<1>1. /\ ServerOK /\ request.contents \in Texts /\ request.base \in Nat
  BY DEF PagesInv, RequestsOK, RequestOK, Request, Version
<1>2. saved = Save(rows, MakeCall(request.contents, Description, request.base),
                   clock + 1, clock + 2)
  BY DEF SavedBy
<1>3. QED BY <1>1, <1>2, SavePageText

\* The server after a save that did not fail.
LEMMA SaveKeepsServer ==
  ASSUME ServerOK, NEW contents, NEW base, NEW saved,
         SoundSave(rows, clock, saved), saved # Failed, SavedPageText(contents, base, saved),
         rows' = rows \cup saved.new, clock' = clock + Cardinality(saved.new)
  PROVE  /\ ServerOK' /\ clock <= clock' /\ clock' \in Version
         /\ CurrentHead(rows') = saved.document
         /\ saved.document \in rows' /\ saved.document \in Row
         /\ saved.document.version \in Version /\ saved.document.version <= clock'
         /\ saved.savedVersion \in Nat /\ saved.savedVersion <= clock'
<1>1. /\ Cardinality(saved.new) \in Nat /\ Sound(rows', clock')
      /\ CurrentHead(rows') = saved.document /\ saved.document \in rows'
  BY DEF SoundSave
<1>2. clock \in Nat /\ clock' \in Version /\ clock <= clock'
  BY <1>1 DEF ServerOK, Version, NoVersion
<1>3. /\ \A r \in rows' : r.contents \in Texts /\ r.description = Description
      /\ \A r \in rows' : r.version <= CurrentHead(rows').version
  BY <1>1 DEF ServerOK, SavedPageText
<1>4. /\ saved.document \in Row /\ saved.document.version \in Version
      /\ saved.document.version <= clock'
  BY <1>1 DEF Sound, Row
<1>5. saved.savedVersion \in Nat /\ saved.savedVersion <= clock'
  BY DEF SavedPageText
<1>6. QED BY <1>1, <1>2, <1>3, <1>4, <1>5 DEF ServerOK

LEMMA ReloadKeepsPages ==
  ASSUME PagesInv, NEW p \in Pages, Reload(p)
  PROVE  PagesInv'
<1>1. ServerOK /\ PagesOK /\ RequestsOK /\ AnswersOK /\ InboxesOK /\ BoundsOK
      /\ clock \in Nat /\ clock \in Version
  BY DEF PagesInv, ServerOK, Version
<1>2. Leave(p) /\ UNCHANGED << rows, clock, edits, slow, lost >>
  BY DEF Reload, server
<1>3. BoundsOK' /\ ServerOK'
  BY <1>1, <1>2, PagesAssumption DEF Reload, BoundsOK, ServerOK
<1>4. /\ PagesOK' /\ RequestsOK' /\ AnswersOK'
      /\ socket'[p] = "closed" /\ \A q \in Pages : q # p => socket'[q] = socket[q]
  BY <1>1, <1>2, LeaveKeeps
<1>5. /\ inbox = [q \in Pages |-> inbox[q]]
      /\ inbox' = [inbox EXCEPT ![p] = EmptyBag]
  BY <1>1 DEF Reload, InboxesOK
<1>6. inbox' = [q \in Pages |-> inbox'[q]]
  BY <1>5
<1>7. InboxOK(p)'
  BY <1>5, EmptyBagIsEmpty DEF InboxOK
<1>8. ASSUME NEW q \in Pages, q # p PROVE InboxOK(q)'
  BY <1>1, <1>2, <1>4, <1>5, <1>8 DEF InboxesOK, InboxOK
<1>9. QED BY <1>3, <1>4, <1>6, <1>7, <1>8 DEF PagesInv, InboxesOK

LEMMA ServiceKeepsPages ==
  ASSUME PagesInv, ServeAny \/ LoseAny
  PROVE  PagesInv'
<1>1. ServerOK /\ PagesOK /\ RequestsOK /\ AnswersOK /\ InboxesOK /\ BoundsOK
      /\ clock \in Nat /\ clock \in Version
  BY DEF PagesInv, ServerOK, Version
<1>2. ASSUME NEW request \in BagToSet(requests), Serve(request)
      PROVE  PagesInv'
  <2>1. PICK saved :
        /\ saved = SavedBy(request)
        /\ saved # Failed
        /\ requests' = BagRemove(requests, request)
        /\ rows' = rows \cup saved.new /\ clock' = clock + Cardinality(saved.new)
        /\ answers' = IF request.page = Gone THEN answers
                      ELSE BagAdd(answers, [page |-> request.page, document |-> saved.document,
                                            savedVersion |-> saved.savedVersion])
        /\ inbox' = Pushed(saved.document.version, request.base)
        /\ UNCHANGED << page, typed, bounds >>
    BY <1>2 DEF Serve
  <2>2. SoundSave(rows, clock, saved) /\ SavedPageText(request.contents, request.base, saved)
    BY <2>1, SavedByText
  <2>3. /\ ServerOK' /\ clock <= clock' /\ clock' \in Version
        /\ CurrentHead(rows') = saved.document
        /\ saved.document \in rows' /\ saved.document \in Row
        /\ saved.document.version \in Version /\ saved.document.version <= clock'
        /\ saved.savedVersion \in Nat /\ saved.savedVersion <= clock'
    BY <1>1, <2>1, <2>2, SaveKeepsServer
  <2>4. clock' \in Nat /\ saved.document.contents \in Texts
    BY <2>2, <2>3 DEF SavedPageText, Version
  <2>5. PagesOK'
    BY <1>1, <2>1, <2>3, <2>4 DEF page, PagesOK, LoadedPage, LeftPage, Version
  <2>6. RequestsOK'
    BY <1>1, <2>1, <2>3, <2>4, BagRemoveAt DEF page, RequestsOK, RequestOK, Request, Version
  <2>7. ASSUME NEW a, AnswerOK(a) PROVE AnswerOK(a)'
    BY <1>1, <2>1, <2>3, <2>4, <2>7 DEF page, AnswerOK, Answer, Row, Version, NoVersion
  <2>8. AnswersOK'
    <3>1. CASE request.page = Gone
      BY <1>1, <2>1, <2>7, <3>1 DEF AnswersOK
    <3>2. CASE request.page # Gone
      <4> DEFINE a == [page |-> request.page, document |-> saved.document,
                       savedVersion |-> saved.savedVersion]
      <4>1. request.page \in Pages /\ socket[request.page] # "closed"
        BY <1>1, <3>2 DEF RequestsOK, RequestOK, Request
      <4>2. AnswerOK(a)'
        BY <2>1, <2>3, <2>4, <4>1 DEF page, AnswerOK, Answer, Version, NoVersion
      <4>3. answers' = BagAdd(answers, a)
        BY <2>1, <3>2
      <4> HIDE DEF a
      <4>4. QED BY <1>1, <2>7, <4>2, <4>3, BagAddAt DEF AnswersOK
    <3>3. QED BY <3>1, <3>2
  <2>9. InboxesOK'
    <3> DEFINE new == Pushed(saved.document.version, request.base)
    <3>1. /\ new = [q \in Pages |-> new[q]]
          /\ \A q \in Pages : /\ IsABag(new[q])
                              /\ \A v \in BagToSet(new[q]) :
                                   v \in Version /\ v <= clock' /\ socket[q] # "closed"
      BY <1>1, <2>3, <2>4, PushedKeeps
    <3>2. inbox' = new /\ socket' = socket
      BY <2>1 DEF page
    <3> HIDE DEF new
    <3>3. QED BY <3>1, <3>2 DEF InboxesOK, InboxOK
  <2>10. BoundsOK'
    BY <1>1, <2>1 DEF bounds, BoundsOK
  <2>11. QED BY <2>3, <2>5, <2>6, <2>8, <2>9, <2>10 DEF PagesInv
<1>3. ASSUME UNCHANGED << server, page, inbox, typed, edits, slow, reloads >>,
             lost' = lost \/ (lost < MaxLost /\ lost' = lost + 1),
             \/ answers' = answers /\ \E r \in BagToSet(requests) : requests' = BagRemove(requests, r)
             \/ requests' = requests /\ \E a \in BagToSet(answers) : answers' = BagRemove(answers, a)
      PROVE  PagesInv'
  <2>1. UNCHANGED << rows, clock >> /\ ServerOK'
    BY <1>1, <1>3 DEF server, ServerOK
  <2>2. PagesOK' /\ InboxesOK'
    BY <1>1, <1>3, <2>1 DEF page, PagesOK, LoadedPage, LeftPage, InboxesOK, InboxOK
  <2>3. \A r : RequestOK(r) => RequestOK(r)'
    BY <1>3, <2>1 DEF page, RequestOK
  <2>4. \A a : AnswerOK(a) => AnswerOK(a)'
    BY <1>3, <2>1 DEF page, AnswerOK
  <2>5. RequestsOK'
    BY <1>1, <1>3, <2>3, BagRemoveAt DEF RequestsOK
  <2>6. AnswersOK'
    BY <1>1, <1>3, <2>4, BagRemoveAt DEF AnswersOK
  <2>7. BoundsOK'
    BY <1>1, <1>3, PagesAssumption DEF BoundsOK
  <2>8. QED BY <2>1, <2>2, <2>5, <2>6, <2>7 DEF PagesInv
<1>4. ASSUME NEW request \in BagToSet(requests), LoseRequest(request)
      PROVE  PagesInv'
  BY <1>3, <1>4 DEF LoseRequest
<1>5. ASSUME NEW answer \in BagToSet(answers), LoseAnswer(answer)
      PROVE  PagesInv'
  BY <1>3, <1>5 DEF LoseAnswer
<1>6. QED BY <1>2, <1>4, <1>5 DEF ServeAny, LoseAny

LEMMA PagesInvStep == PagesInv /\ [Next]_vars => PagesInv'
<1>1. SUFFICES ASSUME PagesInv, [Next]_vars PROVE PagesInv'
  OBVIOUS
<1>2. ASSUME NEW p \in Pages, PageNext(p) PROVE PagesInv'
  BY <1>1, <1>2, ScriptKeepsPages, ReloadKeepsPages DEF PageNext
<1>3. CASE UNCHANGED vars
  BY <1>1, <1>3
     DEF vars, server, page, network, bounds, PagesInv, ServerOK, PagesOK, LoadedPage, LeftPage,
         RequestsOK, RequestOK, AnswersOK, AnswerOK, InboxesOK, InboxOK, BoundsOK
<1>4. QED BY <1>1, <1>2, <1>3, ServiceKeepsPages DEF Next

LEMMA PagesInvAlways == Spec => []PagesInv
BY PagesInvInit, PagesInvStep, PTL DEF Spec

-----------------------------------------------------------------------------

\* Only pages that are there miss something.
MissedOK == missed \subseteq Pages

LEMMA MissedArePages == Spec => []MissedOK
<1>1. Init => MissedOK
  BY DEF Init, MissedOK
<1>2. MissedOK /\ [Next]_vars => MissedOK'
  <2>1. SUFFICES ASSUME missed \subseteq Pages, [Next]_vars PROVE missed' \subseteq Pages
    BY DEF MissedOK
  <2>2. CASE ServeAny
    BY <2>1, <2>2 DEF ServeAny, Serve, MissedBy
  <2>3. CASE LoseAny
    BY <2>1, <2>3 DEF LoseAny, LoseRequest, LoseAnswer, server
  <2>4. ASSUME NEW p \in Pages, PageNext(p) PROVE missed' \subseteq Pages
    <3>1. CASE Open(p)
      BY <2>1, <3>1 DEF Open
    <3>2. CASE ~Open(p)
      BY <2>1, <2>4, <3>2
         DEF PageNext, Connect, Type, TimerFires, RefreshIfNeeded, Answered, AnswerIsLate,
             AnswerIsMissing, Overdue, Reload, server
    <3>3. QED BY <3>1, <3>2
  <2>5. CASE UNCHANGED vars
    BY <2>1, <2>5 DEF vars, server
  <2>6. QED BY <2>1, <2>2, <2>3, <2>4, <2>5 DEF Next
<1>3. QED BY <1>1, <1>2, PTL DEF Spec

\* Document.xhtml:60-160.  Whatever is typed, sent, lost, late or left, in any
\* order: an open page is based on a version, shows a text with all the lines of the
\* document, and sends nothing else; a page that was left gets no answers.
THEOREM PagesTypeCorrect == Spec => []TypeOK
<1>1. PagesInv /\ MissedOK => TypeOK
  BY PagesInvImpliesTypes DEF MissedOK
<1>2. QED BY <1>1, PagesInvAlways, MissedArePages, PTL

\* A version that a row has is found.
LEMMA RowIsFound ==
  ASSUME ServerOK, NEW version
  PROVE  /\ \A r \in rows : r.version = version => /\ FindByNameAndVersion(rows, version) = r
                                                   /\ r # NoRow
         /\ FindByNameAndVersion(rows, version) # NoRow =>
              /\ FindByNameAndVersion(rows, version) \in rows
              /\ FindByNameAndVersion(rows, version).version = version
<1>1. \A r, s \in rows : r.version = s.version => r = s
  BY DEF ServerOK, Sound, UniqueKeys, SameKey
<1>2. \A r \in rows : r.version # NoVersion
  BY DEF ServerOK, Sound, Row, Version
<1>3. \A r \in rows : r # NoRow
  BY <1>2 DEF NoRow
<1>4. QED BY <1>1, <1>3 DEF FindByNameAndVersion

\* Only a served request replaces rows by others.
LEMMA RowsChangeBySaves ==
  ASSUME [Next]_vars, rows' # rows
  PROVE  \E request \in BagToSet(requests) : Serve(request)
BY DEF Next, ServeAny, LoseAny, LoseRequest, LoseAnswer, PageNext, Open, Connect, Type,
       TimerFires, RefreshIfNeeded, Answered, AnswerIsLate, AnswerIsMissing, Overdue, Reload,
       server, vars

-----------------------------------------------------------------------------
(* Texts fit their versions, as long as no answer comes too late           *)

RequestsOf(p) == {r \in BagToSet(requests) : r.page = p}
AnswersOf(p)  == {a \in BagToSet(answers) : a.page = p}

\* A page waits for one answer, if any.
OneUnderWay(p) ==
  /\ \A x, y \in RequestsOf(p) : x = y
  /\ \A x, y \in AnswersOf(p) : x = y
  /\ RequestsOf(p) = {} \/ AnswersOf(p) = {}
  /\ \A r \in RequestsOf(p) : requests[r] = 1
  /\ \A a \in AnswersOf(p) : answers[a] = 1
  /\ UnderWay(p) # {} => MustWait(p)

\* Two texts with nothing between them but what the user of the page does.
SameButOwn(p, t, u) == \A i \in 1..Length : i # OwnLine[p] => t[i] = u[i]

TypedOver(p, t, version) ==
  \A r \in rows : r.version = version => SameButOwn(p, t, r.contents)

AnswerFits(p, a) ==
  /\ \A r \in rows : r.version = a.savedVersion => r.contents = sentContents[p]
  /\ \A r \in rows : r.version = a.document.version => r.contents = a.document.contents

PageFits(p) ==
  /\ OneUnderWay(p)
  /\ TypedOver(p, text[p], currentVersion[p])
  /\ \A r \in RequestsOf(p) : r.contents = sentContents[p] /\ r.base = currentVersion[p]
  /\ \A a \in AnswersOf(p) : AnswerFits(p, a)
  /\ UnderWay(p) # {} => SameButOwn(p, text[p], sentContents[p])

FitInv == PagesInv /\ (slow = 0 => \A p \in Pages : PageFits(p))

LEMMA UnderWayIs ==
  \A p : /\ UnderWay(p) = RequestsOf(p) \cup AnswersOf(p)
         /\ UnderWay(p)' = RequestsOf(p)' \cup AnswersOf(p)'
BY DEF UnderWay, RequestsOf, AnswersOf

\* What of a page has to stay the same for it to fit.
LEMMA PageFitsStays ==
  ASSUME NEW q \in Pages, PageFits(q), rows' \subseteq rows,
         text'[q] = text[q], currentVersion'[q] = currentVersion[q],
         sentContents'[q] = sentContents[q], UnderWay(q) # {} => MustWait(q)',
         RequestsOf(q)' = RequestsOf(q), \A r \in RequestsOf(q) : requests'[r] = requests[r],
         AnswersOf(q)' = AnswersOf(q), \A a \in AnswersOf(q) : answers'[a] = answers[a]
  PROVE  PageFits(q)'
<1>1. UnderWay(q)' = UnderWay(q)
  BY UnderWayIs
<1>2. OneUnderWay(q)'
  BY <1>1, UnderWayIs DEF PageFits, OneUnderWay
<1>3. TypedOver(q, text[q], currentVersion[q])' /\ \A a \in AnswersOf(q)' : AnswerFits(q, a)'
  BY DEF PageFits, TypedOver, AnswerFits
<1>4. QED BY <1>1, <1>2, <1>3 DEF PageFits

\* What is of one page when something is added or removed for another.
LEMMA OfOthersStays ==
  ASSUME NEW B, IsABag(B), NEW x, NEW q, x.page # q, NEW C,
         C = BagAdd(B, x) \/ C = BagRemove(B, x)
  PROVE  /\ {r \in BagToSet(C) : r.page = q} = {r \in BagToSet(B) : r.page = q}
         /\ \A r \in BagToSet(B) : r.page = q => C[r] = B[r]
<1>1. CASE C = BagAdd(B, x)
  BY <1>1, BagAddAt
<1>2. CASE C = BagRemove(B, x)
  BY <1>2, BagRemoveAt
<1>3. QED BY <1>1, <1>2

LEMMA NothingOfClosed ==
  ASSUME PagesInv, NEW p \in Pages, socket[p] = "closed"
  PROVE  RequestsOf(p) = {} /\ AnswersOf(p) = {}
BY DEF PagesInv, RequestsOK, RequestOK, AnswersOK, AnswerOK, RequestsOf, AnswersOf

\* A closed page has no version.
LEMMA ClosedFits ==
  ASSUME PagesInv, NEW p \in Pages, socket[p] = "closed"
  PROVE  PageFits(p)
<1>1. RequestsOf(p) = {} /\ AnswersOf(p) = {} /\ UnderWay(p) = {}
  BY NothingOfClosed, UnderWayIs
<1>2. \A r \in rows : r.version # currentVersion[p]
  BY DEF PagesInv, PagesOK, LeftPage, ServerOK, Sound, Row, Version
<1>3. QED BY <1>1, <1>2 DEF PageFits, OneUnderWay, TypedOver

\* The text is sent, over the version the page knows, if nothing is under way.
LEMMA ContentUpdatedFits ==
  ASSUME PagesInv, NEW p \in Pages, socket[p] # "closed",
         NEW contents \in Texts, NEW pending \in Nat,
         ContentUpdated(p, contents, pending),
         PageFits(p), SameButOwn(p, contents, text[p]), text'[p] = contents,
         UNCHANGED << rows, currentVersion, answers >>
  PROVE  PageFits(p)'
<1>1. /\ PagesOK /\ IsABag(requests)
  BY DEF PagesInv, RequestsOK
<1>2. AnswersOf(p)' = AnswersOf(p)
  BY DEF AnswersOf
<1>3. TypedOver(p, text[p], currentVersion[p])'
  BY DEF PageFits, TypedOver, SameButOwn
<1>4. CASE MustWait(p) /\ UNCHANGED << sentContents, requestInProgress, overdue, requests >>
  <2>1. RequestsOf(p)' = RequestsOf(p) /\ UnderWay(p)' = UnderWay(p) /\ MustWait(p)'
    BY <1>2, <1>4, UnderWayIs DEF RequestsOf, MustWait
  <2>2. OneUnderWay(p)'
    BY <1>2, <1>4, <2>1 DEF PageFits, OneUnderWay
  <2>3. \A a \in AnswersOf(p)' : AnswerFits(p, a)'
    BY <1>2, <1>4 DEF PageFits, AnswerFits
  <2>4. UnderWay(p)' # {} => SameButOwn(p, text[p], sentContents[p])'
    BY <1>4, <2>1 DEF PageFits, SameButOwn
  <2>5. QED BY <1>3, <1>4, <2>1, <2>2, <2>3, <2>4 DEF PageFits
<1>5. CASE ~MustWait(p)
  <2> DEFINE request == RequestOf(p, contents)
  <2>1. /\ sentContents'[p] = contents
        /\ requestInProgress'[p] = TRUE /\ overdue'[p] = FALSE
        /\ requests' = BagAdd(requests, request)
    BY <1>1, <1>5 DEF ContentUpdated, RequestOf, PagesOK
  <2>2. RequestsOf(p) = {} /\ AnswersOf(p) = {}
    BY <1>5, UnderWayIs DEF PageFits, OneUnderWay
  <2>3. request.page = p /\ request.contents = contents /\ request.base = currentVersion[p]
    BY DEF RequestOf
  <2> HIDE DEF request
  <2>4. request \notin BagToSet(requests)
    BY <2>2, <2>3 DEF RequestsOf
  <2>5. RequestsOf(p)' = {request} /\ requests'[request] = 1
    BY <1>1, <2>1, <2>2, <2>3, <2>4, BagAddAt DEF RequestsOf
  <2>6. MustWait(p)'
    BY <2>1 DEF MustWait
  <2>7. OneUnderWay(p)'
    BY <1>2, <2>2, <2>5, <2>6 DEF OneUnderWay
  <2>8. SameButOwn(p, text[p], sentContents[p])'
    BY <2>1 DEF SameButOwn
  <2>9. QED BY <1>2, <1>3, <2>1, <2>2, <2>3, <2>5, <2>7, <2>8 DEF PageFits
<1>6. QED BY <1>4, <1>5 DEF ContentUpdated

\* The other pages do not notice.
LEMMA ContentUpdatedFitsOthers ==
  ASSUME PagesInv, NEW p \in Pages, socket[p] # "closed",
         NEW contents \in Texts, NEW pending \in Nat,
         ContentUpdated(p, contents, pending),
         UNCHANGED << rows, currentVersion, answers >>,
         NEW q \in Pages, q # p, PageFits(q), text'[q] = text[q]
  PROVE  PageFits(q)'
<1>1. /\ sentContents'[q] = sentContents[q] /\ timers'[q] = timers[q]
      /\ requestInProgress'[q] = requestInProgress[q] /\ overdue'[q] = overdue[q]
  BY ContentUpdatedKeeps
<1>2. RequestsOf(q)' = RequestsOf(q) /\ \A r \in RequestsOf(q) : requests'[r] = requests[r]
  <2>1. IsABag(requests) /\ RequestOf(p, contents).page # q
    BY DEF PagesInv, RequestsOK, RequestOf
  <2>2. requests' = requests \/ requests' = BagAdd(requests, RequestOf(p, contents))
    BY DEF ContentUpdated, RequestOf
  <2>3. QED BY <2>1, <2>2, OfOthersStays DEF RequestsOf
<1>3. AnswersOf(q)' = AnswersOf(q)
  BY DEF AnswersOf
<1>4. UnderWay(q) # {} => MustWait(q)'
  BY <1>1 DEF PageFits, OneUnderWay, MustWait
<1>5. QED BY <1>1, <1>2, <1>3, <1>4, PageFitsStays

\* Rows that are added have newer versions than any page or answer names.
LEMMA NewRowsFit ==
  ASSUME PagesInv, NEW q \in Pages, PageFits(q), NEW new,
         \A r \in new : r.version \in Nat /\ r.version > clock,
         rows' = rows \cup new, text'[q] = text[q], currentVersion'[q] = currentVersion[q],
         sentContents'[q] = sentContents[q]
  PROVE  /\ TypedOver(q, text[q], currentVersion[q])'
         /\ \A a \in AnswersOf(q) : AnswerFits(q, a)'
<1>1. clock \in Nat /\ currentVersion[q] \in Nat /\ currentVersion[q] <= clock
  BY DEF PagesInv, ServerOK, PagesOK, LoadedPage, LeftPage, Version, NoVersion
<1>2. \A r \in new : r.version # currentVersion[q]
  BY <1>1
<1>3. TypedOver(q, text[q], currentVersion[q])'
  BY <1>2 DEF PageFits, TypedOver, SameButOwn
<1>4. ASSUME NEW a \in AnswersOf(q) PROVE AnswerFits(q, a)'
  <2>1. /\ a.savedVersion \in Nat /\ a.savedVersion <= clock
        /\ a.document.version \in Nat /\ a.document.version <= clock
    BY DEF PagesInv, AnswersOK, AnswerOK, AnswersOf, Answer, Row, Version, NoVersion
  <2>2. \A r \in new : r.version # a.savedVersion /\ r.version # a.document.version
    BY <1>1, <2>1
  <2>3. QED BY <2>2 DEF PageFits, AnswerFits
<1>5. QED BY <1>3, <1>4

\* What a served request changes.
LEMMA ServeEffect ==
  ASSUME PagesInv, NEW request \in BagToSet(requests), Serve(request)
  PROVE  \E saved :
           /\ saved = SavedBy(request) /\ saved # Failed
           /\ SoundSave(rows, clock, saved)
           /\ SavedPageText(request.contents, request.base, saved)
           /\ rows' = rows \cup saved.new
           /\ \A r \in saved.new : r.version \in Nat /\ r.version > clock
           /\ ServerOK' /\ CurrentHead(rows') = saved.document /\ saved.document \in rows'
           /\ requests' = BagRemove(requests, request)
           /\ answers' = IF request.page = Gone THEN answers
                         ELSE BagAdd(answers, [page |-> request.page,
                                               document |-> saved.document,
                                               savedVersion |-> saved.savedVersion])
           /\ inbox' = Pushed(saved.document.version, request.base)
           /\ missed' = (missed \cup MissedBy(saved.document.version, request.base))
                           \ {request.page}
           /\ UNCHANGED << page, typed, bounds >>
<1>1. PICK saved :
        /\ saved = SavedBy(request) /\ saved # Failed
        /\ requests' = BagRemove(requests, request)
        /\ rows' = rows \cup saved.new /\ clock' = clock + Cardinality(saved.new)
        /\ answers' = IF request.page = Gone THEN answers
                      ELSE BagAdd(answers, [page |-> request.page, document |-> saved.document,
                                            savedVersion |-> saved.savedVersion])
        /\ inbox' = Pushed(saved.document.version, request.base)
        /\ missed' = (missed \cup MissedBy(saved.document.version, request.base))
                        \ {request.page}
        /\ UNCHANGED << page, typed, bounds >>
  BY DEF Serve
<1>2. SoundSave(rows, clock, saved) /\ SavedPageText(request.contents, request.base, saved)
  BY <1>1, SavedByText
<1>3. ServerOK' /\ CurrentHead(rows') = saved.document /\ saved.document \in rows'
  BY <1>1, <1>2, SaveKeepsServer DEF PagesInv
<1>4. \A r \in saved.new : r.version \in Nat /\ r.version > clock
  BY <1>2 DEF SoundSave, Row, Version
<1>5. QED BY <1>1, <1>2, <1>3, <1>4

LEMMA ServedFits ==
  ASSUME PagesInv, NEW request \in BagToSet(requests), Serve(request),
         NEW q \in Pages, PageFits(q)
  PROVE  PageFits(q)'
<1>1. PICK saved :
        /\ SavedPageText(request.contents, request.base, saved)
        /\ rows' = rows \cup saved.new
        /\ \A r \in saved.new : r.version \in Nat /\ r.version > clock
        /\ ServerOK' /\ CurrentHead(rows') = saved.document /\ saved.document \in rows'
        /\ requests' = BagRemove(requests, request)
        /\ answers' = IF request.page = Gone THEN answers
                      ELSE BagAdd(answers, [page |-> request.page,
                                            document |-> saved.document,
                                            savedVersion |-> saved.savedVersion])
        /\ UNCHANGED << page, typed, bounds >>
  BY ServeEffect
<1>2. IsABag(requests) /\ IsABag(answers)
  BY DEF PagesInv, RequestsOK, AnswersOK
<1>3. /\ text' = text /\ currentVersion' = currentVersion /\ sentContents' = sentContents
      /\ MustWait(q)' = MustWait(q)
  BY <1>1 DEF page, MustWait
<1>4. /\ TypedOver(q, text[q], currentVersion[q])'
      /\ \A a \in AnswersOf(q) : AnswerFits(q, a)'
  BY <1>1, <1>3, NewRowsFit
<1>5. CASE request.page # q
  <2>1. RequestsOf(q)' = RequestsOf(q) /\ \A r \in RequestsOf(q) : requests'[r] = requests[r]
    <3>1. requests' = BagRemove(requests, request)
      BY <1>1
    <3>2. /\ {r \in BagToSet(requests') : r.page = q} = {r \in BagToSet(requests) : r.page = q}
          /\ \A r \in BagToSet(requests) : r.page = q => requests'[r] = requests[r]
      BY <1>2, <1>5, <3>1, OfOthersStays
    <3>3. QED BY <3>2 DEF RequestsOf
  <2>2. AnswersOf(q)' = AnswersOf(q) /\ \A a \in AnswersOf(q) : answers'[a] = answers[a]
    <3>1. CASE request.page = Gone
      BY <1>1, <3>1 DEF AnswersOf
    <3>2. CASE request.page # Gone
      <4> DEFINE a == [page |-> request.page, document |-> saved.document,
                       savedVersion |-> saved.savedVersion]
      <4>1. answers' = BagAdd(answers, a) /\ a.page # q
        BY <1>1, <1>5, <3>2
      <4> HIDE DEF a
      <4>2. QED BY <1>2, <4>1, OfOthersStays DEF AnswersOf
    <3>3. QED BY <3>1, <3>2
  <2>3. OneUnderWay(q)'
    BY <1>3, <2>1, <2>2, UnderWayIs DEF PageFits, OneUnderWay
  <2>4. QED BY <1>3, <1>4, <2>1, <2>2, <2>3, UnderWayIs DEF PageFits
<1>6. CASE request.page = q
  <2> DEFINE a == [page |-> request.page, document |-> saved.document,
                   savedVersion |-> saved.savedVersion]
  <2>1. request.page # Gone
    BY <1>6, PagesAssumption
  <2>2. /\ answers' = BagAdd(answers, a) /\ a.page = q
        /\ a.document = saved.document /\ a.savedVersion = saved.savedVersion
    BY <1>1, <1>6, <2>1
  <2> HIDE DEF a
  <2>3. /\ request \in RequestsOf(q) /\ requests[request] = 1 /\ AnswersOf(q) = {}
        /\ \A r \in RequestsOf(q) : r = request
        /\ request.contents = sentContents[q] /\ MustWait(q)
        /\ SameButOwn(q, text[q], sentContents[q])
    BY <1>6, UnderWayIs DEF PageFits, OneUnderWay, RequestsOf
  <2>4. RequestsOf(q)' = {}
    BY <1>1, <1>2, <2>3, BagRemoveAt DEF RequestsOf
  <2>5. a \notin BagToSet(answers)
    BY <2>2, <2>3 DEF AnswersOf
  <2>6. AnswersOf(q)' = {a} /\ answers'[a] = 1
    BY <1>2, <2>2, <2>3, <2>5, BagAddAt DEF AnswersOf
  <2>7. OneUnderWay(q)'
    BY <1>3, <2>3, <2>4, <2>6 DEF OneUnderWay
  <2>8. AnswerFits(q, a)'
    <3>1. \A r \in rows' : r.version = saved.document.version => r.contents = saved.document.contents
      BY <1>1 DEF ServerOK, Sound, UniqueKeys, SameKey
    <3>2. \A r \in rows' : r.version # NoVersion
      BY <1>1 DEF ServerOK, Sound, Row, Version
    <3>3. \A r \in rows' : r.version = saved.savedVersion => r.contents = request.contents
      BY <1>1, <3>2 DEF SavedPageText
    <3>4. QED BY <1>3, <2>2, <2>3, <3>1, <3>3 DEF AnswerFits
  <2>9. SameButOwn(q, text[q], sentContents[q])'
    BY <1>3, <2>3 DEF SameButOwn
  <2>10. QED BY <1>3, <1>4, <2>4, <2>6, <2>7, <2>8, <2>9 DEF PageFits
<1>7. QED BY <1>5, <1>6

LEMMA ClosedFitsNext ==
  ASSUME PagesInv', NEW p \in Pages, socket'[p] = "closed"
  PROVE  PageFits(p)'
<1>1. RequestsOf(p)' = {} /\ AnswersOf(p)' = {}
  BY DEF PagesInv, RequestsOK, RequestOK, AnswersOK, AnswerOK, RequestsOf, AnswersOf
<1>2. \A r \in rows' : r.version # currentVersion'[p]
  BY DEF PagesInv, PagesOK, LeftPage, ServerOK, Sound, Row, Version
<1>3. UnderWay(p)' = {}
  BY <1>1, UnderWayIs
<1>4. OneUnderWay(p)' /\ TypedOver(p, text[p], currentVersion[p])'
  BY <1>1, <1>2, <1>3 DEF OneUnderWay, TypedOver
<1>5. QED BY <1>1, <1>3, <1>4 DEF PageFits

\* The user reads an answer: the text becomes the document's, or stays the one
\* that was typed over what was sent.
LEMMA AnsweredFits ==
  ASSUME PagesInv, NEW p \in Pages, Answered(p), NEW q \in Pages, PageFits(q)
  PROVE  PageFits(q)'
<1>1. PICK answer \in BagToSet(answers) :
        /\ answer.page = p
        /\ answers' = BagRemove(answers, answer)
        /\ requestInProgress' = [requestInProgress EXCEPT ![p] = FALSE]
        /\ overdue' = [overdue EXCEPT ![p] = FALSE]
        /\ \/ /\ text[p] = sentContents[p]
              /\ currentVersion' = [currentVersion EXCEPT ![p] = answer.document.version]
              /\ text' = [text EXCEPT ![p] = answer.document.contents]
           \/ /\ text[p] # sentContents[p]
              /\ currentVersion' = IF answer.savedVersion # NoVersion
                                   THEN [currentVersion EXCEPT ![p] = answer.savedVersion]
                                   ELSE currentVersion
              /\ UNCHANGED text
        /\ UNCHANGED << server, socket, loaded, sentContents, timers, inbox, requests, typed,
                        bounds >>
  BY DEF Answered
<1>2. PagesOK /\ IsABag(answers) /\ UNCHANGED rows /\ RequestsOf(q)' = RequestsOf(q)
  BY <1>1 DEF PagesInv, AnswersOK, server, RequestsOf
<1>3. CASE q # p
  <2>1. /\ AnswersOf(q)' = AnswersOf(q)
        /\ \A a \in AnswersOf(q) : answers'[a] = answers[a]
    <3>1. /\ {a \in BagToSet(answers') : a.page = q} = {a \in BagToSet(answers) : a.page = q}
          /\ \A a \in BagToSet(answers) : a.page = q => answers'[a] = answers[a]
      BY <1>1, <1>2, <1>3, OfOthersStays
    <3>2. QED BY <3>1 DEF AnswersOf
  <2>2. /\ text'[q] = text[q] /\ currentVersion'[q] = currentVersion[q]
        /\ sentContents'[q] = sentContents[q] /\ MustWait(q)' = MustWait(q)
        /\ requests' = requests
    BY <1>1, <1>2, <1>3 DEF PagesOK, MustWait
  <2>3. UnderWay(q) # {} => MustWait(q)'
    BY <2>2 DEF PageFits, OneUnderWay
  <2>4. QED BY <1>2, <2>1, <2>2, <2>3, PageFitsStays
<1>4. CASE q = p
  <2>1. /\ answer \in AnswersOf(p) /\ answers[answer] = 1 /\ RequestsOf(p) = {}
        /\ \A a \in AnswersOf(p) : a = answer
        /\ AnswerFits(p, answer)
        /\ SameButOwn(p, text[p], sentContents[p])
        /\ TypedOver(p, text[p], currentVersion[p])
    BY <1>1, <1>4, UnderWayIs DEF PageFits, OneUnderWay, AnswersOf
  <2>2. AnswersOf(p)' = {} /\ RequestsOf(p)' = {}
    BY <1>1, <1>2, <1>4, <2>1, BagRemoveAt DEF AnswersOf
  <2>3. TypedOver(p, text[p], currentVersion[p])'
    <3>1. CASE text[p] = sentContents[p]
      <4>1. text'[p] = answer.document.contents /\ currentVersion'[p] = answer.document.version
        BY <1>1, <1>2, <3>1 DEF PagesOK
      <4>2. QED BY <1>2, <2>1, <4>1 DEF TypedOver, AnswerFits, SameButOwn
    <3>2. CASE text[p] # sentContents[p] /\ answer.savedVersion # NoVersion
      <4>1. text'[p] = text[p] /\ currentVersion'[p] = answer.savedVersion
        BY <1>1, <1>2, <3>2 DEF PagesOK
      <4>2. QED BY <1>2, <2>1, <4>1 DEF TypedOver, AnswerFits, SameButOwn
    <3>3. CASE text[p] # sentContents[p] /\ answer.savedVersion = NoVersion
      <4>1. text'[p] = text[p] /\ currentVersion'[p] = currentVersion[p]
        BY <1>1, <3>3
      <4>2. QED BY <1>2, <2>1, <4>1 DEF TypedOver, SameButOwn
    <3>4. QED BY <3>1, <3>2, <3>3
  <2>4. UnderWay(p)' = {}
    BY <2>2, UnderWayIs
  <2>5. OneUnderWay(p)'
    BY <2>2, <2>4 DEF OneUnderWay
  <2>6. QED BY <1>4, <2>2, <2>3, <2>4, <2>5 DEF PageFits
<1>5. QED BY <1>3, <1>4

LEMMA LeavingFits ==
  ASSUME PagesInv, PagesInv', NEW p \in Pages, Reload(p),
         NEW q \in Pages, PageFits(q)
  PROVE  PageFits(q)'
<1>1. Leave(p) /\ rows' \subseteq rows /\ PagesOK /\ RequestsOK /\ IsABag(requests)
      /\ IsABag(answers)
  BY DEF Reload, server, PagesInv, RequestsOK, AnswersOK
<1>2. CASE q = p
  <2>1. socket'[p] = "closed"
    BY <1>1 DEF Leave, PagesOK
  <2>2. QED BY <1>2, <2>1, ClosedFitsNext
<1>3. CASE q # p
  <2>1. /\ text'[q] = text[q] /\ currentVersion'[q] = currentVersion[q]
        /\ sentContents'[q] = sentContents[q] /\ MustWait(q)' = MustWait(q)
    BY <1>1, <1>3 DEF Leave, PagesOK, MustWait
  <2>2. RequestsOf(q)' = RequestsOf(q) /\ \A r \in RequestsOf(q) : requests'[r] = requests[r]
    <3> DEFINE others == OfOthers(requests, p)
               orphans == Orphans(p)
    <3>1. /\ IsABag(others) /\ IsABag(orphans)
          /\ BagToSet(others) = {r \in BagToSet(requests) : r.page # p}
          /\ \A r \in BagToSet(others) : others[r] = requests[r]
          /\ \A r \in BagToSet(orphans) : r.page = Gone
      BY <1>1, OfOthersKeep, OrphansKeep
    <3>2. requests' = others (+) orphans
      BY <1>1 DEF Leave
    <3> HIDE DEF others, orphans
    <3>3. /\ BagToSet(requests') = BagToSet(others) \cup BagToSet(orphans)
          /\ \A r \in BagToSet(others) : r \notin BagToSet(orphans) => requests'[r] = others[r]
      BY <3>1, <3>2, BagSum
    <3>4. QED BY <1>3, <3>1, <3>3, PagesAssumption DEF RequestsOf
  <2>3. AnswersOf(q)' = AnswersOf(q) /\ \A a \in AnswersOf(q) : answers'[a] = answers[a]
    <3>1. answers' = OfOthers(answers, p)
      BY <1>1 DEF Leave
    <3>2. /\ BagToSet(answers') = {a \in BagToSet(answers) : a.page # p}
          /\ \A a \in BagToSet(answers') : answers'[a] = answers[a]
      BY <1>1, <3>1, OfOthersKeep
    <3>3. QED BY <1>3, <3>2 DEF AnswersOf
  <2>4. UnderWay(q) # {} => MustWait(q)'
    BY <2>1 DEF PageFits, OneUnderWay
  <2>5. QED BY <1>1, <2>1, <2>2, <2>3, <2>4, PageFitsStays
<1>4. QED BY <1>2, <1>3

\* What is lost is not under way any more.
LEMMA LosingFits ==
  ASSUME PagesInv, NEW q \in Pages, PageFits(q), NEW x,
         \/ x \in BagToSet(requests) /\ requests' = BagRemove(requests, x) /\ answers' = answers
         \/ x \in BagToSet(answers) /\ answers' = BagRemove(answers, x) /\ requests' = requests,
         UNCHANGED << rows, page >>
  PROVE  PageFits(q)'
<1>1. IsABag(requests) /\ IsABag(answers)
  BY DEF PagesInv, RequestsOK, AnswersOK
<1>2. /\ RequestsOf(q)' \subseteq RequestsOf(q) /\ AnswersOf(q)' \subseteq AnswersOf(q)
      /\ \A r \in RequestsOf(q)' : requests'[r] = requests[r]
      /\ \A a \in AnswersOf(q)' : answers'[a] = answers[a]
  <2>1. ASSUME NEW B, NEW C, IsABag(B), \A y \in BagToSet(B) : y.page = q => B[y] = 1,
               x \in BagToSet(B), C = BagRemove(B, x)
        PROVE  /\ BagToSet(C) \subseteq BagToSet(B)
               /\ \A y \in BagToSet(C) : y.page = q => C[y] = B[y]
    BY <2>1, BagRemoveAt
  <2>2. /\ \A y \in BagToSet(requests) : y.page = q => requests[y] = 1
        /\ \A y \in BagToSet(answers) : y.page = q => answers[y] = 1
    BY DEF PageFits, OneUnderWay, RequestsOf, AnswersOf
  <2>3. CASE x \in BagToSet(requests) /\ requests' = BagRemove(requests, x) /\ answers' = answers
    BY <1>1, <2>1, <2>2, <2>3 DEF RequestsOf, AnswersOf
  <2>4. CASE x \in BagToSet(answers) /\ answers' = BagRemove(answers, x) /\ requests' = requests
    BY <1>1, <2>1, <2>2, <2>4 DEF RequestsOf, AnswersOf
  <2>5. QED BY <2>3, <2>4
<1>3. /\ text' = text /\ currentVersion' = currentVersion /\ sentContents' = sentContents
      /\ MustWait(q)' = MustWait(q)
  BY DEF page, MustWait
<1>4. UnderWay(q)' \subseteq UnderWay(q)
  BY <1>2, UnderWayIs
<1>5. OneUnderWay(q)'
  BY <1>2, <1>3, <1>4 DEF PageFits, OneUnderWay
<1>6. TypedOver(q, text[q], currentVersion[q])' /\ \A a \in AnswersOf(q)' : AnswerFits(q, a)'
  BY <1>2, <1>3 DEF PageFits, TypedOver, AnswerFits
<1>7. QED BY <1>2, <1>3, <1>4, <1>5, <1>6 DEF PageFits, SameButOwn

LEMMA ScriptFits ==
  ASSUME PagesInv, NEW p \in Pages,
         \/ Open(p) \/ Connect(p) \/ Type(p) \/ TimerFires(p) \/ RefreshIfNeeded(p)
         \/ AnswerIsMissing(p),
         \A q \in Pages : PageFits(q)
  PROVE  \A q \in Pages : PageFits(q)'
<1>1. PagesOK /\ InboxesOK /\ UNCHANGED << rows, answers >>
  BY DEF PagesInv, Open, Connect, Type, TimerFires, RefreshIfNeeded, AnswerIsMissing, Overdue,
         server, network
<1>2. \A q : AnswersOf(q)' = AnswersOf(q)
  BY <1>1 DEF AnswersOf
<1>3. ASSUME NEW q \in Pages, UNCHANGED << requests, sentContents >>,
             text'[q] = text[q], currentVersion'[q] = currentVersion[q],
             UnderWay(q) # {} => MustWait(q)'
      PROVE  PageFits(q)'
  <2>1. RequestsOf(q)' = RequestsOf(q)
    BY <1>3 DEF RequestsOf
  <2>2. QED BY <1>1, <1>2, <1>3, <2>1, PageFitsStays
<1>4. \A q \in Pages : UnderWay(q) # {} => MustWait(q)
  BY DEF PageFits, OneUnderWay
<1>5. CASE Open(p)
  <2> DEFINE head == CurrentHead(rows)
  <2>1. /\ socket[p] = "closed"
        /\ text' = [text EXCEPT ![p] = head.contents]
        /\ currentVersion' = [currentVersion EXCEPT ![p] = head.version]
        /\ UNCHANGED << sentContents, requestInProgress, overdue, requests >>
    BY <1>5 DEF Open, network
  <2>2. \A r \in rows : r.version = head.version => r = head
    BY <2>1, HeadIsCurrent DEF PagesInv, ServerOK, Sound, UniqueKeys, SameKey
  <2> HIDE DEF head
  <2>3. RequestsOf(p)' = {} /\ AnswersOf(p)' = {} /\ UnderWay(p)' = {}
    <3>1. RequestsOf(p) = {} /\ AnswersOf(p) = {}
      BY <2>1, NothingOfClosed
    <3>2. QED BY <1>2, <2>1, <3>1, UnderWayIs DEF RequestsOf
  <2>4. TypedOver(p, text[p], currentVersion[p])'
    BY <1>1, <2>1, <2>2 DEF PagesOK, TypedOver, SameButOwn
  <2>5. PageFits(p)'
    BY <2>3, <2>4 DEF PageFits, OneUnderWay
  <2>6. ASSUME NEW q \in Pages, q # p PROVE PageFits(q)'
    <3>1. /\ text'[q] = text[q] /\ currentVersion'[q] = currentVersion[q]
          /\ MustWait(q)' = MustWait(q)
      BY <1>1, <2>1, <2>6 DEF PagesOK, MustWait
    <3>2. QED BY <1>3, <1>4, <2>1, <3>1
  <2>7. QED BY <2>5, <2>6
<1>6. CASE Connect(p)
  <2>1. /\ UNCHANGED << text, currentVersion, sentContents, requestInProgress, overdue,
                        requests >>
        /\ \A q : MustWait(q)' = MustWait(q)
    BY <1>6 DEF Connect, network, MustWait
  <2>2. QED BY <1>3, <1>4, <2>1
<1>7. ASSUME NEW contents \in Texts, NEW pending \in Nat, socket[p] # "closed",
             ContentUpdated(p, contents, pending), SameButOwn(p, contents, text[p]),
             text'[p] = contents, \A q \in Pages : q # p => text'[q] = text[q],
             UNCHANGED currentVersion
      PROVE  \A q \in Pages : PageFits(q)'
  <2>1. PageFits(p)'
    BY <1>1, <1>7, ContentUpdatedFits
  <2>2. ASSUME NEW q \in Pages, q # p PROVE PageFits(q)'
    BY <1>1, <1>7, <2>2, ContentUpdatedFitsOthers
  <2>3. QED BY <2>1, <2>2
<1>8. CASE Type(p)
  <2>1. PICK line \in Line \ {Blank, text[p][OwnLine[p]]} :
          LET contents == [text[p] EXCEPT ![OwnLine[p]] = line]
          IN  /\ text' = [text EXCEPT ![p] = contents]
              /\ ContentUpdated(p, contents, timers[p])
    BY <1>8 DEF Type
  <2> DEFINE contents == [text[p] EXCEPT ![OwnLine[p]] = line]
  <2>2. /\ socket[p] # "closed" /\ text[p] \in Texts /\ timers[p] \in Nat
        /\ UNCHANGED currentVersion
    BY <1>1, <1>8 DEF Type, PagesOK, LoadedPage
  <2>3. contents \in Texts /\ SameButOwn(p, contents, text[p])
    <3>1. text[p] \in [1..Length -> Line] /\ text[p][Length] # Blank /\ Length \in 1..Length
      BY <2>2, LengthType DEF Texts
    <3>2. line \in Line /\ line # Blank
      BY <2>1
    <3>3. contents \in [1..Length -> Line] /\ contents[Length] # Blank
      BY <3>1, <3>2
    <3>4. QED BY <3>1, <3>3 DEF Texts, SameButOwn
  <2>4. text' = [text EXCEPT ![p] = contents] /\ ContentUpdated(p, contents, timers[p])
    BY <2>1
  <2> HIDE DEF contents
  <2>5. text'[p] = contents /\ \A q \in Pages : q # p => text'[q] = text[q]
    BY <1>1, <2>4 DEF PagesOK
  <2>6. QED BY <1>7, <2>2, <2>3, <2>4, <2>5
<1>9. ASSUME NEW pending \in Nat, socket[p] # "closed", ContentUpdated(p, text[p], pending),
             UNCHANGED << text, currentVersion >>
      PROVE  \A q \in Pages : PageFits(q)'
  <2>1. text[p] \in Texts /\ SameButOwn(p, text[p], text[p])
    BY <1>1, <1>9 DEF PagesOK, LoadedPage, SameButOwn
  <2>2. QED BY <1>7, <1>9, <2>1
<1>10. CASE TimerFires(p)
  <2>1. /\ timers[p] - 1 \in Nat /\ socket[p] # "closed"
        /\ ContentUpdated(p, text[p], timers[p] - 1) /\ UNCHANGED << text, currentVersion >>
    BY <1>1, <1>10 DEF TimerFires, PagesOK
  <2>2. QED BY <1>9, <2>1
<1>11. CASE RefreshIfNeeded(p)
  <2>1. /\ timers[p] \in Nat /\ socket[p] # "closed" /\ UNCHANGED << text, currentVersion >>
        /\ \/ ContentUpdated(p, text[p], timers[p])
           \/ UNCHANGED << sentContents, requestInProgress, overdue, requests >>
    BY <1>1, <1>11 DEF RefreshIfNeeded, PagesOK, InboxesOK, InboxOK
  <2>2. CASE UNCHANGED << sentContents, requestInProgress, overdue, requests >>
    <3>1. \A q : MustWait(q)' = MustWait(q)
      BY <2>2 DEF MustWait
    <3>2. QED BY <1>3, <1>4, <2>1, <2>2, <3>1
  <2>3. QED BY <1>9, <2>1, <2>2
<1>12. CASE AnswerIsMissing(p)
  <2>1. /\ overdue' = [overdue EXCEPT ![p] = TRUE] /\ UnderWay(p) = {}
        /\ UNCHANGED << text, currentVersion, sentContents, requestInProgress, requests >>
    BY <1>12 DEF AnswerIsMissing, Overdue, network
  <2>2. \A q \in Pages : q # p => MustWait(q)' = MustWait(q)
    BY <1>1, <2>1 DEF PagesOK, MustWait
  <2>3. QED BY <1>3, <1>4, <2>1, <2>2
<1>13. QED BY <1>5, <1>6, <1>8, <1>10, <1>11, <1>12

LEMMA FitInvInit == Init => FitInv
<1>1. SUFFICES ASSUME Init PROVE FitInv
  OBVIOUS
<1>2. PagesInv
  BY <1>1, PagesInvInit
<1>3. \A p \in Pages : PageFits(p)
  BY <1>1, <1>2, ClosedFits DEF Init
<1>4. QED BY <1>2, <1>3 DEF FitInv

LEMMA FitInvStep == FitInv /\ [Next]_vars => FitInv'
<1>1. SUFFICES ASSUME FitInv, [Next]_vars PROVE FitInv'
  OBVIOUS
<1>2. PagesInv /\ PagesInv'
  BY <1>1, PagesInvStep DEF FitInv
<1>3. slow \in Nat /\ (slow' = slow \/ slow' = slow + 1)
  <2>1. slow \in Nat
    <3>1. slow \in 0..MaxSlow
      BY <1>2 DEF PagesInv, BoundsOK
    <3>2. QED BY <3>1, PagesAssumption
  <2>2. CASE ServeAny \/ LoseAny
    BY <2>1, <2>2 DEF ServeAny, LoseAny, Serve, LoseRequest, LoseAnswer, bounds
  <2>3. ASSUME NEW p \in Pages, PageNext(p) PROVE slow' = slow \/ slow' = slow + 1
    <3>1. CASE AnswerIsLate(p)
      BY <3>1 DEF AnswerIsLate
    <3>2. CASE Open(p) \/ Connect(p) \/ TimerFires(p)
      BY <3>2 DEF Open, Connect, TimerFires, bounds
    <3>3. CASE Type(p)
      BY <3>3 DEF Type
    <3>4. CASE RefreshIfNeeded(p)
      BY <3>4 DEF RefreshIfNeeded, bounds
    <3>5. CASE Answered(p)
      BY <3>5 DEF Answered, bounds
    <3>6. CASE AnswerIsMissing(p) \/ Reload(p)
      BY <3>6 DEF AnswerIsMissing, Reload
    <3>7. QED BY <2>3, <3>1, <3>2, <3>3, <3>4, <3>5, <3>6 DEF PageNext
  <2>4. CASE UNCHANGED vars
    BY <2>1, <2>4 DEF vars, bounds
  <2>5. QED BY <1>1, <2>1, <2>2, <2>3, <2>4 DEF Next
<1>4. SUFFICES ASSUME slow' = 0 PROVE \A q \in Pages : PageFits(q)'
  BY <1>2 DEF FitInv
<1>5. slow = 0 /\ \A q \in Pages : PageFits(q)
  BY <1>1, <1>3, <1>4 DEF FitInv
<1>6. ASSUME NEW request \in BagToSet(requests),
             Serve(request) \/ LoseRequest(request)
      PROVE  \A q \in Pages : PageFits(q)'
  <2>1. CASE Serve(request)
    BY <1>2, <1>5, <2>1, ServedFits
  <2>2. CASE LoseRequest(request)
    <3>1. /\ requests' = BagRemove(requests, request) /\ answers' = answers
          /\ UNCHANGED << rows, page >>
      BY <2>2 DEF LoseRequest, server
    <3>2. QED BY <1>2, <1>5, <3>1, LosingFits
  <2>3. QED BY <1>6, <2>1, <2>2
<1>7. ASSUME NEW answer \in BagToSet(answers), LoseAnswer(answer)
      PROVE  \A q \in Pages : PageFits(q)'
  <2>1. /\ answers' = BagRemove(answers, answer) /\ requests' = requests
        /\ UNCHANGED << rows, page >>
    BY <1>7 DEF LoseAnswer, server
  <2>2. QED BY <1>2, <1>5, <2>1, LosingFits
<1>8. ASSUME NEW p \in Pages, PageNext(p)
      PROVE  \A q \in Pages : PageFits(q)'
  <2>1. ~AnswerIsLate(p)
    BY <1>4, <1>5 DEF AnswerIsLate
  <2>2. CASE Answered(p)
    BY <1>2, <1>5, <2>2, AnsweredFits
  <2>3. CASE Reload(p)
    BY <1>2, <1>5, <2>3, LeavingFits
  <2>4. QED BY <1>2, <1>5, <1>8, <2>1, <2>2, <2>3, ScriptFits DEF PageNext
<1>9. CASE UNCHANGED vars
  <2>1. UNCHANGED << rows, text, currentVersion, sentContents, requestInProgress, overdue,
                     requests, answers >>
    BY <1>9 DEF vars, server, page, network
  <2>2. \A q : /\ RequestsOf(q)' = RequestsOf(q) /\ AnswersOf(q)' = AnswersOf(q)
               /\ MustWait(q)' = MustWait(q)
    BY <2>1 DEF RequestsOf, AnswersOf, MustWait
  <2>3. \A q \in Pages : UnderWay(q) # {} => MustWait(q)'
    BY <1>5, <2>2 DEF PageFits, OneUnderWay
  <2>4. QED BY <1>5, <2>1, <2>2, <2>3, PageFitsStays
<1>10. QED BY <1>1, <1>6, <1>7, <1>8, <1>9 DEF Next, ServeAny, LoseAny

LEMMA FitInvAlways == Spec => []FitInv
BY FitInvInit, FitInvStep, PTL DEF Spec

\* Document.xhtml:118-123 and :146-150.  However requests, answers, messages and delayed
\* calls of any number of pages are interleaved or lost: while answers come within 2000 ms, what a page shows and what
\* it sends is the text of the version it names but for the line of its user.
THEOREM TextsAlwaysFit == Spec => []TextsFitTheirVersions
<1>1. FitInv => TextsFitTheirVersions
  <2>1. SUFFICES ASSUME FitInv, slow = 0, NEW p \in Pages,
                        NEW base, base = FindByNameAndVersion(rows, currentVersion[p]),
                        base # NoRow,
                        NEW i \in DOMAIN text[p] \ {OwnLine[p]}
                 PROVE  text[p][i] = base.contents[i]
    BY DEF TextsFitTheirVersions
  <2>2. base \in rows /\ base.version = currentVersion[p]
    BY <2>1, RowIsFound DEF FitInv, PagesInv
  <2>3. socket[p] # "closed"
    BY <2>1, <2>2 DEF FitInv, PagesInv, PagesOK, LeftPage, ServerOK, Sound, Row, Version
  <2>4. DOMAIN text[p] = 1..Length
    BY <2>1, <2>3 DEF FitInv, PagesInv, PagesOK, LoadedPage, Texts
  <2>5. QED BY <2>1, <2>2, <2>4 DEF FitInv, PageFits, TypedOver, SameButOwn
<1>2. QED BY <1>1, FitInvAlways, PTL

-----------------------------------------------------------------------------
(* Nothing is left or late                                                 *)

\* Every page that was opened stays open, and answers come within 2000 ms.
Undisturbed == slow = 0 /\ reloads = 0

\* What a page refers to is there, and an answer brings no older version.
PageKnows(p) ==
  /\ socket[p] # "closed" => \E r \in rows : r.version = currentVersion[p]
  /\ \A a \in AnswersOf(p) :
       /\ a.document \in rows
       /\ currentVersion[p] <= a.document.version
       /\ a.savedVersion # NoVersion => \E r \in rows : r.version = a.savedVersion

\* The line of its user is in the head as the page has sent it last, and stays so
\* whatever the others save.
PageOwns(p) ==
  LET own  == OwnLine[p]
      head == CurrentHead(rows).contents
  IN  socket[p] # "closed" =>
        /\ text[p][own] = typed[p]
        /\ AnswersOf(p) = {} =>
             \A r \in rows : r.version = currentVersion[p] => head[own] = r.contents[own]
        /\ \A a \in AnswersOf(p) :
             /\ head[own] = sentContents[p][own]
             /\ a.document.contents[own] = sentContents[p][own]
             /\ a.savedVersion = NoVersion =>
                  \A r \in rows : r.version = currentVersion[p] => r.contents = sentContents[p]

\* Text and version are the head's, or the page is going to hear of the head.
HearsOfHead(p, version, contents) ==
  LET head == CurrentHead(rows)
  IN  \/ version = head.version /\ contents = head.contents
      \/ version # head.version /\ head.version \in BagToSet(inbox[p])

PageHears(p) ==
  socket[p] # "closed" =>
    /\ UnderWay(p) # {} /\ text[p] # sentContents[p] => timers[p] > 0
    /\ p \notin missed /\ timers[p] = 0 =>
         /\ UnderWay(p) = {} => HearsOfHead(p, currentVersion[p], text[p])
         /\ \A a \in AnswersOf(p) : HearsOfHead(p, a.document.version, a.document.contents)

PageStays(p) == PageKnows(p) /\ (lost = 0 => PageOwns(p) /\ PageHears(p))

AllStay ==
  /\ \A r \in BagToSet(requests) : r.page # Gone
  /\ \A p \in Pages : PageStays(p)

StayInv == FitInv /\ (Undisturbed => AllStay)

\* What of a page has to stay the same for all of this to stay.
LEMMA PageStaysStays ==
  ASSUME NEW q \in Pages, PageStays(q), UNCHANGED << rows, lost >>,
         socket'[q] = socket[q], text'[q] = text[q], currentVersion'[q] = currentVersion[q],
         sentContents'[q] = sentContents[q], timers'[q] = timers[q], typed'[q] = typed[q],
         inbox'[q] = inbox[q], q \in missed => q \in missed',
         RequestsOf(q)' = RequestsOf(q), AnswersOf(q)' = AnswersOf(q)
  PROVE  PageStays(q)'
<1>1. PageKnows(q)'
  BY DEF PageStays, PageKnows
<1>2. PageOwns(q) => PageOwns(q)'
  BY DEF PageOwns
<1>3. UnderWay(q)' = UnderWay(q)
  BY UnderWayIs
<1>4. \A v, c : HearsOfHead(q, v, c)' <=> HearsOfHead(q, v, c)
  BY DEF HearsOfHead
<1>5. PageHears(q) => PageHears(q)'
  BY <1>3, <1>4 DEF PageHears
<1>6. QED BY <1>1, <1>2, <1>5 DEF PageStays

\* The user of a page may type on and have it sent.
LEMMA ContentUpdatedStays ==
  ASSUME PagesInv, NEW p \in Pages, socket[p] # "closed",
         NEW contents \in Texts, NEW pending \in Nat,
         ContentUpdated(p, contents, pending),
         PageFits(p), PageStays(p), text'[p] = contents,
         lost = 0 => typed'[p] = contents[OwnLine[p]],
         UNCHANGED << rows, missed, currentVersion, answers, socket, lost >>
  PROVE  PageStays(p)'
<1>1. PagesOK /\ IsABag(requests)
  BY DEF PagesInv, RequestsOK
<1>2. AnswersOf(p)' = AnswersOf(p)
  BY DEF AnswersOf
<1>3. PageKnows(p)'
  BY <1>2 DEF PageStays, PageKnows
<1>4. \/ timers'[p] > 0 /\ sentContents'[p] = sentContents[p]
      \/ sentContents'[p] = contents /\ UnderWay(p)' # {} /\ AnswersOf(p) = {}
  <2>1. CASE MustWait(p) /\ timers' = [timers EXCEPT ![p] = pending + 1]
             /\ UNCHANGED sentContents
    BY <1>1, <2>1 DEF PagesOK
  <2>2. CASE /\ ~MustWait(p)
             /\ sentContents' = [sentContents EXCEPT ![p] = contents]
             /\ requests' = BagAdd(requests, RequestOf(p, contents))
    <3>1. AnswersOf(p) = {}
      BY <2>2, UnderWayIs DEF PageFits, OneUnderWay
    <3>2. RequestOf(p, contents) \in RequestsOf(p)'
      <4>1. RequestOf(p, contents).page = p
        BY DEF RequestOf
      <4>2. RequestOf(p, contents) \in BagToSet(requests')
        BY <1>1, <2>2, BagAddAt
      <4>3. QED BY <4>1, <4>2 DEF RequestsOf, RequestOf
    <3>3. QED BY <1>1, <2>2, <3>1, <3>2, UnderWayIs DEF PagesOK
  <2>3. QED BY <2>1, <2>2 DEF ContentUpdated, RequestOf
<1>5. ASSUME lost = 0 PROVE PageOwns(p)'
  BY <1>2, <1>4, <1>5 DEF PageStays, PageOwns
<1>6. ASSUME lost = 0 PROVE PageHears(p)'
  <2>1. timers'[p] > 0 => timers'[p] # 0
    OBVIOUS
  <2>2. QED BY <1>2, <1>4, <2>1 DEF PageHears
<1>7. QED BY <1>3, <1>5, <1>6 DEF PageStays

LEMMA ContentUpdatedStaysOthers ==
  ASSUME PagesInv, NEW p \in Pages, socket[p] # "closed",
         NEW contents \in Texts, NEW pending \in Nat,
         ContentUpdated(p, contents, pending),
         UNCHANGED << rows, missed, currentVersion, answers, socket, lost >>,
         NEW q \in Pages, q # p, PageStays(q), text'[q] = text[q], typed'[q] = typed[q],
         inbox'[q] = inbox[q]
  PROVE  PageStays(q)'
<1>1. sentContents'[q] = sentContents[q] /\ timers'[q] = timers[q]
  BY ContentUpdatedKeeps
<1>2. RequestsOf(q)' = RequestsOf(q)
  <2>1. IsABag(requests) /\ RequestOf(p, contents).page # q
    BY DEF PagesInv, RequestsOK, RequestOf
  <2>2. requests' = requests \/ requests' = BagAdd(requests, RequestOf(p, contents))
    BY DEF ContentUpdated, RequestOf
  <2>3. QED BY <2>1, <2>2, OfOthersStays DEF RequestsOf
<1>3. AnswersOf(q)' = AnswersOf(q)
  BY DEF AnswersOf
<1>4. QED BY <1>1, <1>2, <1>3, PageStaysStays

LEMMA AnsweredStays ==
  ASSUME PagesInv, NEW p \in Pages, Answered(p), NEW q \in Pages, PageFits(q), PageStays(q)
  PROVE  PageStays(q)'
<1>1. PICK answer \in BagToSet(answers) :
        /\ answer.page = p
        /\ answers' = BagRemove(answers, answer)
        /\ \/ /\ text[p] = sentContents[p]
              /\ currentVersion' = [currentVersion EXCEPT ![p] = answer.document.version]
              /\ text' = [text EXCEPT ![p] = answer.document.contents]
           \/ /\ text[p] # sentContents[p]
              /\ currentVersion' = IF answer.savedVersion # NoVersion
                                   THEN [currentVersion EXCEPT ![p] = answer.savedVersion]
                                   ELSE currentVersion
              /\ UNCHANGED text
        /\ UNCHANGED << server, socket, loaded, sentContents, timers, inbox, requests, typed,
                        bounds >>
  BY DEF Answered
<1>2. /\ PagesOK /\ IsABag(answers) /\ RequestsOf(q)' = RequestsOf(q)
      /\ UNCHANGED << rows, missed, socket, sentContents, timers, inbox, typed, lost >>
  BY <1>1 DEF PagesInv, AnswersOK, server, bounds, RequestsOf
<1>3. CASE q # p
  <2>1. AnswersOf(q)' = AnswersOf(q)
    <3>1. {a \in BagToSet(answers') : a.page = q} = {a \in BagToSet(answers) : a.page = q}
      <4>1. IsABag(answers) /\ answer.page # q /\ answers' = BagRemove(answers, answer)
        BY <1>1, <1>2, <1>3
      <4>2. QED BY <4>1, OfOthersStays
    <3>2. QED BY <3>1 DEF AnswersOf
  <2>2. text'[q] = text[q] /\ currentVersion'[q] = currentVersion[q]
    BY <1>1, <1>2, <1>3 DEF PagesOK
  <2>3. QED BY <1>2, <2>1, <2>2, PageStaysStays
<1>4. CASE q = p
  <2>1. /\ answer \in AnswersOf(p) /\ answers[answer] = 1 /\ RequestsOf(p) = {}
        /\ \A a \in AnswersOf(p) : a = answer
        /\ AnswerFits(p, answer) /\ UnderWay(p) # {}
    BY <1>1, <1>4, UnderWayIs DEF PageFits, OneUnderWay, AnswersOf
  <2>2. AnswersOf(p)' = {} /\ RequestsOf(p)' = {}
    BY <1>1, <1>2, <1>4, <2>1, BagRemoveAt DEF AnswersOf
  <2>3. UnderWay(p)' = {}
    BY <2>2, UnderWayIs
  <2>4. socket[p] # "closed" /\ OwnLine[p] \in 1..Length
    BY <1>1, PagesAssumption, LengthType DEF PagesInv, AnswersOK, AnswerOK, Texts
  <2>5. /\ answer.document \in rows
        /\ answer.savedVersion # NoVersion => \E r \in rows : r.version = answer.savedVersion
        /\ \E r \in rows : r.version = currentVersion[p]
    BY <1>4, <2>1, <2>4 DEF PageStays, PageKnows
  <2>6. CASE text[p] = sentContents[p]
    <3>1. /\ text'[p] = answer.document.contents
          /\ currentVersion'[p] = answer.document.version
      BY <1>1, <1>2, <2>6 DEF PagesOK
    <3>2. PageKnows(p)'
      BY <1>2, <2>2, <2>5, <3>1 DEF PageKnows
    <3>3. ASSUME lost = 0 PROVE PageOwns(p)'
      <4>1. /\ text[p][OwnLine[p]] = typed[p]
            /\ CurrentHead(rows).contents[OwnLine[p]] = sentContents[p][OwnLine[p]]
            /\ answer.document.contents[OwnLine[p]] = sentContents[p][OwnLine[p]]
        BY <1>4, <2>1, <2>4, <3>3 DEF PageStays, PageOwns
      <4>2. \A r \in rows : r.version = currentVersion'[p] => r.contents = answer.document.contents
        BY <2>1, <3>1 DEF AnswerFits
      <4>3. QED BY <1>2, <2>2, <2>6, <3>1, <4>1, <4>2 DEF PageOwns
    <3>4. ASSUME lost = 0 PROVE PageHears(p)'
      <4>1. p \notin missed /\ timers[p] = 0 =>
              HearsOfHead(p, answer.document.version, answer.document.contents)
        BY <1>4, <2>1, <2>4, <3>4 DEF PageStays, PageHears
      <4>2. p \notin missed' /\ timers'[p] = 0 => HearsOfHead(p, currentVersion[p], text[p])'
        BY <1>2, <3>1, <4>1 DEF HearsOfHead
      <4>3. QED BY <2>2, <2>3, <4>2 DEF PageHears
    <3>5. QED BY <1>2, <1>4, <3>2, <3>3, <3>4 DEF PageStays
  <2>7. CASE text[p] # sentContents[p]
    <3>1. /\ text' = text
          /\ currentVersion'[p] = IF answer.savedVersion # NoVersion THEN answer.savedVersion
                                                                     ELSE currentVersion[p]
      BY <1>1, <1>2, <2>7 DEF PagesOK
    <3>2. PageKnows(p)'
      BY <1>2, <2>2, <2>5, <3>1 DEF PageKnows
    <3>3. ASSUME lost = 0 PROVE PageOwns(p)'
      <4>1. /\ text[p][OwnLine[p]] = typed[p]
            /\ CurrentHead(rows).contents[OwnLine[p]] = sentContents[p][OwnLine[p]]
            /\ answer.savedVersion = NoVersion =>
                 \A r \in rows : r.version = currentVersion[p] => r.contents = sentContents[p]
        BY <1>4, <2>1, <2>4, <3>3 DEF PageStays, PageOwns
      <4>2. \A r \in rows : r.version = currentVersion'[p] => r.contents = sentContents[p]
        BY <2>1, <3>1, <4>1 DEF AnswerFits
      <4>3. QED BY <1>2, <2>2, <3>1, <4>1, <4>2 DEF PageOwns
    <3>4. ASSUME lost = 0 PROVE PageHears(p)'
      <4>1. timers[p] > 0
        BY <1>4, <2>1, <2>4, <2>7, <3>4 DEF PageStays, PageHears
      <4>2. timers'[p] # 0
        BY <1>2, <4>1
      <4>3. QED BY <2>2, <2>3, <4>2 DEF PageHears
    <3>5. QED BY <1>2, <1>4, <3>2, <3>3, <3>4 DEF PageStays
  <2>8. QED BY <2>6, <2>7
<1>5. QED BY <1>3, <1>4

\* What is lost breaks no reference.
LEMMA LosingStays ==
  ASSUME PagesInv, NEW q \in Pages, PageStays(q), NEW x,
         answers' = BagRemove(answers, x) \/ answers' = answers,
         UNCHANGED << rows, page >>, lost' # 0
  PROVE  PageStays(q)'
<1>1. AnswersOf(q)' \subseteq AnswersOf(q)
  BY BagRemoveAt DEF PagesInv, AnswersOK, AnswersOf
<1>2. PageKnows(q)'
  BY <1>1 DEF page, PageStays, PageKnows
<1>3. QED BY <1>2 DEF PageStays

\* What a save brings into the head is the line of its page's user.
LEMMA SaveKeepsOwnLines ==
  ASSUME PagesInv, NEW request \in BagToSet(requests), Serve(request),
         NEW p \in Pages, request.page = p, PageFits(p),
         NEW q \in Pages, q # p
  PROVE  CurrentHead(rows').contents[OwnLine[q]] = CurrentHead(rows).contents[OwnLine[q]]
<1> DEFINE head == CurrentHead(rows).contents
<1>1. PICK saved :
        /\ SavedPageText(request.contents, request.base, saved)
        /\ CurrentHead(rows') = saved.document
  BY ServeEffect
<1>2. PICK previous \in rows :
        /\ previous.version = request.base
        /\ MergesInto(previous.contents, head, request.contents, saved.document.contents)
  BY <1>1 DEF SavedPageText
<1>3. /\ request.contents = sentContents[p] /\ request.base = currentVersion[p]
      /\ SameButOwn(p, text[p], sentContents[p])
      /\ SameButOwn(p, text[p], previous.contents)
  <2>1. request \in RequestsOf(p) /\ UnderWay(p) # {}
    BY UnderWayIs DEF RequestsOf
  <2>2. request.contents = sentContents[p] /\ request.base = currentVersion[p]
    BY <2>1 DEF PageFits
  <2>3. QED BY <1>2, <2>1, <2>2 DEF PageFits, TypedOver
<1>4. OwnLine[q] \in 1..Length /\ OwnLine[q] # OwnLine[p]
  BY PagesAssumption, LengthType DEF Texts
<1>5. previous.contents[OwnLine[q]] = request.contents[OwnLine[q]]
  BY <1>3, <1>4 DEF SameButOwn
<1>6. saved.document.contents[OwnLine[q]] = head[OwnLine[q]]
  BY <1>2, <1>4, <1>5 DEF MergesInto
<1>7. QED BY <1>1, <1>6

\* Every page that does not miss it hears of a head that is new.
LEMMA ServedIsHeard ==
  ASSUME PagesInv, NEW request \in BagToSet(requests), Serve(request),
         NEW q \in Pages, socket[q] # "closed", request.page # q, q \notin missed',
         NEW version \in Nat, version <= clock, NEW contents,
         HearsOfHead(q, version, contents)
  PROVE  HearsOfHead(q, version, contents)'
<1>1. PICK saved :
        /\ SoundSave(rows, clock, saved)
        /\ rows' = rows \cup saved.new
        /\ \A r \in saved.new : r.version \in Nat /\ r.version > clock
        /\ CurrentHead(rows') = saved.document
        /\ saved # Failed
        /\ inbox' = Pushed(saved.document.version, request.base)
        /\ missed' = (missed \cup MissedBy(saved.document.version, request.base))
                        \ {request.page}
        /\ UNCHANGED << page, typed, bounds >>
  BY ServeEffect
<1>2. clock \in Nat /\ request.base \in Nat /\ request.base <= clock /\ IsABag(inbox[q])
  BY DEF PagesInv, ServerOK, RequestsOK, RequestOK, Request, Version, InboxesOK, InboxOK
<1>3. CASE saved.new = {}
  <2>1. rows' = rows
    BY <1>1, <1>3
  <2>2. BagToSet(inbox[q]) \subseteq BagToSet(inbox'[q])
    <3>1. inbox'[q] = BagAdd(inbox[q], saved.document.version) \/ inbox'[q] = inbox[q]
      BY <1>1 DEF Pushed
    <3>2. QED BY <1>2, <3>1, BagAddAt
  <2>3. QED BY <2>1, <2>2 DEF HearsOfHead
<1>4. CASE saved.new # {}
  <2>1. saved.document.version > clock /\ saved.document.version \in Nat
    BY <1>1, <1>4 DEF SoundSave
  <2>2. saved.document.version # request.base /\ saved.document.version # version
    BY <1>2, <2>1
  <2>3. inbox'[q] = BagAdd(inbox[q], saved.document.version)
    <3>1. socket[q] = "listening"
      BY <1>1, <2>2 DEF MissedBy, PagesInv, PagesOK
    <3>2. QED BY <1>1, <2>2, <3>1 DEF Pushed
  <2>4. saved.document.version \in BagToSet(inbox'[q])
    BY <1>2, <2>3, BagAddAt
  <2>5. QED BY <1>1, <2>2, <2>4 DEF HearsOfHead
<1>5. QED BY <1>3, <1>4

LEMMA ServedStays ==
  ASSUME PagesInv, NEW request \in BagToSet(requests), Serve(request), AllStay,
         \A p \in Pages : PageFits(p), NEW q \in Pages
  PROVE  PageStays(q)'
<1> DEFINE own  == OwnLine[q]
           head == CurrentHead(rows).contents
<1>1. PICK saved :
        /\ SavedPageText(request.contents, request.base, saved)
        /\ rows' = rows \cup saved.new
        /\ \A r \in saved.new : r.version \in Nat /\ r.version > clock
        /\ ServerOK' /\ CurrentHead(rows') = saved.document /\ saved.document \in rows'
        /\ requests' = BagRemove(requests, request)
        /\ answers' = IF request.page = Gone THEN answers
                      ELSE BagAdd(answers, [page |-> request.page,
                                            document |-> saved.document,
                                            savedVersion |-> saved.savedVersion])
        /\ UNCHANGED << page, typed, bounds >>
  BY ServeEffect
<1>2. /\ IsABag(requests) /\ IsABag(answers) /\ PageStays(q) /\ PageFits(q)
      /\ request.page \in Pages
  BY DEF PagesInv, RequestsOK, RequestOK, Request, AnswersOK, AllStay
<1>3. /\ UNCHANGED << socket, text, currentVersion, sentContents, timers, typed, lost >>
      /\ currentVersion[q] \in Nat /\ currentVersion[q] <= clock /\ clock \in Nat
  BY <1>1 DEF page, bounds, PagesInv, PagesOK, LoadedPage, LeftPage, ServerOK, Version, NoVersion
<1>4. \A r \in rows' : r.version = currentVersion[q] => r \in rows
  BY <1>1, <1>3
<1>5. socket[q] # "closed" => \E r \in rows' : r.version = currentVersion[q]
  BY <1>1, <1>2 DEF PageStays, PageKnows
<1> DEFINE a == [page |-> request.page, document |-> saved.document,
                 savedVersion |-> saved.savedVersion]
<1>6. /\ answers' = BagAdd(answers, a) /\ a.page = request.page
      /\ a.document = saved.document /\ a.savedVersion = saved.savedVersion
  BY <1>1, <1>2, PagesAssumption
<1> HIDE DEF a
<1>7. CASE request.page # q
  <2>1. RequestsOf(q)' = RequestsOf(q) /\ AnswersOf(q)' = AnswersOf(q)
    <3>1. /\ requests' = BagRemove(requests, request)
          /\ answers' = BagAdd(answers, a) /\ a.page # q
      BY <1>1, <1>6, <1>7
    <3>2. {r \in BagToSet(requests') : r.page = q} = {r \in BagToSet(requests) : r.page = q}
      BY <1>2, <1>7, <3>1, OfOthersStays
    <3>3. {r \in BagToSet(answers') : r.page = q} = {r \in BagToSet(answers) : r.page = q}
      BY <1>2, <3>1, OfOthersStays
    <3>4. QED BY <3>2, <3>3 DEF RequestsOf, AnswersOf
  <2>2. UnderWay(q)' = UnderWay(q)
    BY <2>1, UnderWayIs
  <2>3. PageKnows(q)'
    BY <1>1, <1>2, <1>3, <1>5, <2>1 DEF PageStays, PageKnows
  <2>4. CurrentHead(rows').contents[own] = head[own]
    BY <1>2, <1>7, SaveKeepsOwnLines
  <2>5. ASSUME lost = 0 PROVE PageOwns(q)'
    BY <1>2, <1>3, <1>4, <2>1, <2>4, <2>5 DEF PageStays, PageOwns
  <2>6. ASSUME lost = 0 PROVE PageHears(q)'
    <3>1. CASE socket[q] # "closed" /\ q \notin missed'
      <4>1. /\ UnderWay(q) # {} /\ text[q] # sentContents[q] => timers[q] > 0
            /\ timers[q] = 0 =>
                 /\ UnderWay(q) = {} => HearsOfHead(q, currentVersion[q], text[q])
                 /\ \A b \in AnswersOf(q) : HearsOfHead(q, b.document.version, b.document.contents)
        <5>1. q \notin missed
          BY <1>7, <3>1 DEF Serve
        <5>2. QED BY <1>2, <2>6, <3>1, <5>1 DEF PageStays, PageHears
      <4>2. HearsOfHead(q, currentVersion[q], text[q]) => HearsOfHead(q, currentVersion[q], text[q])'
        <5>1. ASSUME NEW c, c = text[q], HearsOfHead(q, currentVersion[q], c)
              PROVE  HearsOfHead(q, currentVersion[q], c)'
          <6>1. PICK v : v = currentVersion[q]
            OBVIOUS
          <6>2. v \in Nat /\ v <= clock /\ HearsOfHead(q, v, c)
            BY <1>3, <5>1, <6>1
          <6>3. HearsOfHead(q, v, c)'
            BY <1>7, <3>1, <6>2, ServedIsHeard
          <6>4. QED BY <1>3, <6>1, <6>3
        <5>2. QED BY <1>3, <5>1 DEF HearsOfHead
      <4>3. ASSUME NEW b \in AnswersOf(q), HearsOfHead(q, b.document.version, b.document.contents)
            PROVE  HearsOfHead(q, b.document.version, b.document.contents)'
        <5>1. b.document.version \in Nat /\ b.document.version <= clock
          BY DEF PagesInv, AnswersOK, AnswerOK, AnswersOf, Answer, Row, Version
        <5>2. QED BY <1>7, <3>1, <4>3, <5>1, ServedIsHeard
      <4>4. QED BY <1>3, <2>1, <2>2, <4>1, <4>2, <4>3 DEF PageHears
    <3>2. CASE socket[q] = "closed" \/ q \in missed'
      BY <1>2, <1>3, <2>2, <2>6, <3>2 DEF PageStays, PageHears
    <3>3. QED BY <3>1, <3>2
  <2>7. QED BY <1>3, <2>3, <2>5, <2>6 DEF PageStays
<1>8. CASE request.page = q
  <2>1. /\ request \in RequestsOf(q) /\ AnswersOf(q) = {} /\ UnderWay(q) # {}
        /\ request.contents = sentContents[q] /\ request.base = currentVersion[q]
    BY <1>2, <1>8, UnderWayIs DEF PageFits, OneUnderWay, RequestsOf
  <2>2. AnswersOf(q)' = {a}
    BY <1>2, <1>6, <1>8, <2>1, BagAddAt DEF AnswersOf
  <2>3. socket[q] # "closed" /\ own \in 1..Length
    BY <1>8, PagesAssumption, LengthType DEF PagesInv, RequestsOK, RequestOK, Texts
  <2>4. PICK previous \in rows :
          /\ previous.version = currentVersion[q]
          /\ MergesInto(previous.contents, head, sentContents[q], saved.document.contents)
          /\ saved.savedVersion = NoVersion => previous.contents = sentContents[q]
    BY <1>1, <1>2, <2>1 DEF SavedPageText
  <2>5. PageKnows(q)'
    <3>1. currentVersion[q] <= saved.document.version
      BY <1>1, <2>4 DEF ServerOK
    <3>2. saved.savedVersion # NoVersion => \E r \in rows' : r.version = saved.savedVersion
      BY <1>1 DEF SavedPageText
    <3>3. QED BY <1>1, <1>3, <1>5, <1>6, <2>2, <3>1, <3>2 DEF PageKnows
  <2>6. ASSUME lost = 0 PROVE PageOwns(q)'
    <3>1. /\ text[q][own] = typed[q]
          /\ \A r \in rows : r.version = currentVersion[q] => head[own] = r.contents[own]
      BY <1>2, <2>1, <2>3, <2>6 DEF PageStays, PageOwns
    <3>2. saved.document.contents[own] = sentContents[q][own]
      BY <2>3, <2>4, <3>1 DEF MergesInto
    <3>3. \A r \in rows : r.version = currentVersion[q] => r = previous
      BY <2>4 DEF PagesInv, ServerOK, Sound, UniqueKeys, SameKey
    <3>4. saved.savedVersion = NoVersion =>
            \A r \in rows' : r.version = currentVersion[q] => r.contents = sentContents[q]
      BY <1>4, <2>4, <3>3
    <3>5. QED BY <1>1, <1>3, <1>6, <2>2, <3>1, <3>2, <3>4 DEF PageOwns
  <2>7. ASSUME lost = 0 PROVE PageHears(q)'
    <3>1. UnderWay(q)' # {}
      BY <2>2, UnderWayIs
    <3>2. HearsOfHead(q, a.document.version, a.document.contents)'
      <4>1. PICK v, c : v = a.document.version /\ c = a.document.contents
        OBVIOUS
      <4>2. HearsOfHead(q, v, c)'
        BY <1>1, <1>6, <4>1 DEF HearsOfHead
      <4>3. QED BY <4>1, <4>2
    <3>3. QED BY <1>2, <1>3, <2>1, <2>2, <2>7, <3>1, <3>2 DEF PageStays, PageHears
  <2>8. QED BY <1>3, <2>5, <2>6, <2>7 DEF PageStays
<1>9. QED BY <1>7, <1>8

\* A message of a version that the page has reached tells it nothing.
LEMMA IgnoredStays ==
  ASSUME PagesInv, NEW p \in Pages, socket[p] # "closed", PageStays(p),
         NEW version \in BagToSet(inbox[p]), ~(version > currentVersion[p]),
         inbox'[p] = BagRemove(inbox[p], version),
         UNCHANGED << rows, missed, socket, text, currentVersion, sentContents, timers, requests,
                      answers, typed, lost >>
  PROVE  PageStays(p)'
<1>1. /\ ServerOK /\ PagesOK /\ InboxOK(p)
      /\ RequestsOf(p)' = RequestsOf(p) /\ AnswersOf(p)' = AnswersOf(p)
  BY DEF PagesInv, InboxesOK, RequestsOf, AnswersOf
<1>2. PageKnows(p)'
  BY <1>1 DEF PageStays, PageKnows
<1>3. PageOwns(p) => PageOwns(p)'
  BY <1>1 DEF PageOwns
<1>4. UnderWay(p)' = UnderWay(p)
  BY <1>1, UnderWayIs
<1>5. /\ version \in Nat /\ currentVersion[p] \in Nat /\ version <= currentVersion[p]
      /\ IsABag(inbox[p])
  BY <1>1 DEF InboxOK, PagesOK, Version
<1>6. PICK row \in rows : row.version = currentVersion[p]
  BY DEF PageStays, PageKnows
<1>7. /\ row.version <= CurrentHead(rows).version
      /\ CurrentHead(rows) \in rows /\ CurrentHead(rows).version \in Nat
  BY <1>1, <1>6, HeadIsCurrent DEF ServerOK, Sound, Row, Version
<1>8. ASSUME NEW v \in Nat, NEW c, currentVersion[p] <= v, v <= CurrentHead(rows).version,
             HearsOfHead(p, v, c)
      PROVE  HearsOfHead(p, v, c)'
  <2>1. CASE v = CurrentHead(rows).version /\ c = CurrentHead(rows).contents
    BY <2>1 DEF HearsOfHead
  <2>2. CASE v # CurrentHead(rows).version /\ CurrentHead(rows).version \in BagToSet(inbox[p])
    <3>1. CurrentHead(rows).version # version
      BY <1>5, <1>7, <1>8, <2>2
    <3>2. CurrentHead(rows).version \in BagToSet(inbox'[p])
      BY <1>5, <2>2, <3>1, BagRemoveAt
    <3>3. QED BY <2>2, <3>2 DEF HearsOfHead
  <2>3. QED BY <1>8, <2>1, <2>2 DEF HearsOfHead
<1>9. ASSUME NEW c, HearsOfHead(p, currentVersion[p], c)
      PROVE  HearsOfHead(p, currentVersion[p], c)'
  <2>1. PICK v : v = currentVersion[p]
    OBVIOUS
  <2>2. HearsOfHead(p, v, c)'
    BY <1>5, <1>6, <1>7, <1>8, <1>9, <2>1
  <2>3. QED BY <2>1, <2>2
<1>10. HearsOfHead(p, currentVersion[p], text[p]) => HearsOfHead(p, currentVersion[p], text[p])'
  <2>1. PICK c : c = text[p]
    OBVIOUS
  <2>2. HearsOfHead(p, currentVersion[p], c) => HearsOfHead(p, currentVersion[p], c)'
    BY <1>9
  <2>3. QED BY <2>1, <2>2
<1>11. ASSUME NEW a \in AnswersOf(p), HearsOfHead(p, a.document.version, a.document.contents)
       PROVE  HearsOfHead(p, a.document.version, a.document.contents)'
  <2>1. a.document \in rows /\ currentVersion[p] <= a.document.version
    BY DEF PageStays, PageKnows
  <2>2. a.document.version \in Nat /\ a.document.version <= CurrentHead(rows).version
    BY <1>1, <2>1 DEF ServerOK, Sound, Row, Version
  <2>3. QED BY <1>8, <1>11, <2>1, <2>2
<1>12. PageHears(p) => PageHears(p)'
  BY <1>1, <1>4, <1>10, <1>11 DEF PageHears
<1>13. QED BY <1>2, <1>3, <1>12 DEF PageStays

LEMMA ScriptStays ==
  ASSUME PagesInv, NEW p \in Pages,
         \/ Open(p) \/ Connect(p) \/ Type(p) \/ TimerFires(p) \/ RefreshIfNeeded(p)
         \/ AnswerIsMissing(p),
         \A q \in Pages : PageFits(q) /\ PageStays(q)
  PROVE  \A q \in Pages : PageStays(q)'
<1>1. /\ PagesOK /\ InboxesOK /\ UNCHANGED << rows, answers, lost >>
      /\ missed' = missed \/ missed' = missed \ {p}
  BY DEF PagesInv, Open, Connect, Type, TimerFires, RefreshIfNeeded, AnswerIsMissing, Overdue,
         server, network, bounds
<1>2. \A q : AnswersOf(q)' = AnswersOf(q)
  BY <1>1 DEF AnswersOf
<1>3. ASSUME NEW q \in Pages, UNCHANGED << requests, sentContents, timers >>,
             socket'[q] = socket[q], text'[q] = text[q], currentVersion'[q] = currentVersion[q],
             typed'[q] = typed[q], inbox'[q] = inbox[q], q # p \/ missed' = missed
      PROVE  PageStays(q)'
  <2>1. RequestsOf(q)' = RequestsOf(q)
    BY <1>3 DEF RequestsOf
  <2>2. q \in missed => q \in missed'
    BY <1>1, <1>3
  <2>3. QED BY <1>1, <1>2, <1>3, <2>1, <2>2, PageStaysStays
<1>4. CASE Open(p)
  <2> DEFINE head == CurrentHead(rows)
  <2>1. /\ socket[p] = "closed"
        /\ text' = [text EXCEPT ![p] = head.contents]
        /\ currentVersion' = [currentVersion EXCEPT ![p] = head.version]
        /\ typed' = [typed EXCEPT ![p] = head.contents[OwnLine[p]]]
        /\ socket' = [socket EXCEPT ![p] = "loaded"]
        /\ UNCHANGED << sentContents, timers, inbox, requests >>
    BY <1>4 DEF Open, network
  <2>2. head \in rows /\ \A r \in rows : r.version = head.version => r = head
    BY <2>1, HeadIsCurrent DEF PagesInv, ServerOK, Sound, UniqueKeys, SameKey
  <2>3. head = CurrentHead(rows)
    OBVIOUS
  <2> HIDE DEF head
  <2>4. AnswersOf(p)' = {} /\ UnderWay(p)' = {}
    <3>1. RequestsOf(p) = {} /\ AnswersOf(p) = {}
      BY <2>1, NothingOfClosed
    <3>2. QED BY <1>2, <2>1, <3>1, UnderWayIs DEF RequestsOf
  <2>5. /\ text'[p] = head.contents /\ currentVersion'[p] = head.version
        /\ typed'[p] = head.contents[OwnLine[p]]
    BY <1>1, <2>1 DEF PagesOK
  <2>6. PageKnows(p)'
    BY <1>1, <2>2, <2>4, <2>5 DEF PageKnows
  <2>7. PageOwns(p)'
    BY <1>1, <2>2, <2>3, <2>4, <2>5 DEF PageOwns
  <2>8. PageHears(p)'
    <3>1. HearsOfHead(p, currentVersion[p], text[p])'
      BY <1>1, <2>3, <2>5 DEF HearsOfHead
    <3>2. QED BY <2>4, <3>1 DEF PageHears
  <2>9. ASSUME NEW q \in Pages, q # p PROVE PageStays(q)'
    <3>1. /\ text'[q] = text[q] /\ currentVersion'[q] = currentVersion[q]
          /\ socket'[q] = socket[q] /\ typed'[q] = typed[q] /\ inbox'[q] = inbox[q]
      BY <1>1, <2>1, <2>9 DEF PagesOK
    <3>2. QED BY <1>3, <2>1, <2>9, <3>1
  <2>10. QED BY <2>6, <2>7, <2>8, <2>9 DEF PageStays
<1>5. CASE Connect(p)
  <2>1. /\ UNCHANGED << text, currentVersion, sentContents, timers, inbox, requests, typed >>
        /\ socket[p] = "loaded" /\ socket' = [socket EXCEPT ![p] = "listening"]
        /\ missed' = missed
    BY <1>5 DEF Connect, network, server
  <2>2. /\ socket'[p] = "listening" /\ \A q \in Pages : q # p => socket'[q] = socket[q]
    BY <1>1, <2>1 DEF PagesOK
  <2>3. RequestsOf(p)' = RequestsOf(p) /\ UnderWay(p)' = UnderWay(p)
    BY <1>2, <2>1, UnderWayIs DEF RequestsOf
  <2>4. PageKnows(p)'
    BY <1>1, <1>2, <2>1 DEF PageStays, PageKnows
  <2>5. lost = 0 => PageOwns(p)'
    BY <1>1, <1>2, <2>1 DEF PageStays, PageOwns
  <2>6. lost = 0 => PageHears(p)'
    BY <1>1, <1>2, <2>1, <2>3 DEF PageStays, PageHears, HearsOfHead
  <2>7. PageStays(p)'
    BY <1>1, <2>4, <2>5, <2>6 DEF PageStays
  <2>8. QED BY <1>3, <2>1, <2>2, <2>7
<1>6. ASSUME NEW contents \in Texts, NEW pending \in Nat, socket[p] # "closed",
             ContentUpdated(p, contents, pending),
             text'[p] = contents, lost = 0 => typed'[p] = contents[OwnLine[p]],
             \A q \in Pages : q # p => /\ text'[q] = text[q] /\ typed'[q] = typed[q]
                                       /\ inbox'[q] = inbox[q],
             UNCHANGED << missed, currentVersion, socket >>
      PROVE  \A q \in Pages : PageStays(q)'
  <2>1. PageStays(p)'
    BY <1>1, <1>6, ContentUpdatedStays
  <2>2. ASSUME NEW q \in Pages, q # p PROVE PageStays(q)'
    BY <1>1, <1>6, <2>2, ContentUpdatedStaysOthers
  <2>3. QED BY <2>1, <2>2
<1>7. CASE Type(p)
  <2>1. PICK line \in Line \ {Blank, text[p][OwnLine[p]]} :
          LET contents == [text[p] EXCEPT ![OwnLine[p]] = line]
          IN  /\ text' = [text EXCEPT ![p] = contents]
              /\ typed' = [typed EXCEPT ![p] = line]
              /\ ContentUpdated(p, contents, timers[p])
    BY <1>7 DEF Type
  <2> DEFINE contents == [text[p] EXCEPT ![OwnLine[p]] = line]
  <2>2. /\ socket[p] # "closed" /\ text[p] \in Texts /\ timers[p] \in Nat
        /\ UNCHANGED << missed, currentVersion, socket, inbox >> /\ OwnLine[p] \in 1..Length
    BY <1>1, <1>7, PagesAssumption, LengthType DEF Type, PagesOK, LoadedPage, Texts, server
  <2>3. contents \in Texts /\ contents[OwnLine[p]] = line
    <3>1. text[p] \in [1..Length -> Line] /\ text[p][Length] # Blank /\ Length \in 1..Length
      BY <2>2, LengthType DEF Texts
    <3>2. line \in Line /\ line # Blank
      BY <2>1
    <3>3. /\ contents \in [1..Length -> Line] /\ contents[Length] # Blank
          /\ contents[OwnLine[p]] = line
      BY <2>2, <3>1, <3>2
    <3>4. QED BY <3>3 DEF Texts
  <2>4. /\ text' = [text EXCEPT ![p] = contents] /\ typed' = [typed EXCEPT ![p] = line]
        /\ ContentUpdated(p, contents, timers[p])
    BY <2>1
  <2> HIDE DEF contents
  <2>5. /\ text'[p] = contents /\ typed'[p] = contents[OwnLine[p]]
        /\ \A q \in Pages : q # p => text'[q] = text[q] /\ typed'[q] = typed[q]
    BY <1>1, <2>3, <2>4 DEF PagesOK
  <2>6. QED BY <1>6, <2>2, <2>3, <2>4, <2>5
<1>8. ASSUME NEW pending \in Nat, socket[p] # "closed", ContentUpdated(p, text[p], pending),
             UNCHANGED << missed, text, currentVersion, socket, typed >>,
             \A q \in Pages : q # p => inbox'[q] = inbox[q]
      PROVE  \A q \in Pages : PageStays(q)'
  <2>1. text[p] \in Texts /\ (lost = 0 => typed[p] = text[p][OwnLine[p]])
    BY <1>1, <1>8 DEF PagesOK, LoadedPage, PageStays, PageOwns
  <2>2. QED BY <1>6, <1>8, <2>1
<1>9. CASE TimerFires(p)
  <2>1. /\ timers[p] - 1 \in Nat /\ socket[p] # "closed"
        /\ ContentUpdated(p, text[p], timers[p] - 1)
        /\ UNCHANGED << missed, text, currentVersion, socket, typed, inbox >>
    BY <1>1, <1>9 DEF TimerFires, PagesOK, server
  <2>2. QED BY <1>8, <2>1
<1>10. CASE RefreshIfNeeded(p)
  <2>1. PICK version \in BagToSet(inbox[p]) :
          /\ inbox' = [inbox EXCEPT ![p] = BagRemove(@, version)]
          /\ IF version > currentVersion[p]
             THEN ContentUpdated(p, text[p], timers[p])
             ELSE UNCHANGED << sentContents, requestInProgress, overdue, timers, requests >>
          /\ UNCHANGED << server, socket, loaded, text, currentVersion, answers, typed, bounds >>
    BY <1>10 DEF RefreshIfNeeded
  <2>2. /\ timers[p] \in Nat /\ socket[p] # "closed" /\ inbox = [q \in Pages |-> inbox[q]]
    BY <1>1, <2>1 DEF PagesOK, InboxesOK, InboxOK
  <2>3. /\ inbox'[p] = BagRemove(inbox[p], version)
        /\ \A q \in Pages : q # p => inbox'[q] = inbox[q]
        /\ UNCHANGED << missed, socket, text, currentVersion, typed >>
    BY <2>1, <2>2 DEF server
  <2>4. CASE version > currentVersion[p]
    BY <1>8, <2>1, <2>2, <2>3, <2>4
  <2>5. CASE ~(version > currentVersion[p])
    <3>1. UNCHANGED << sentContents, timers, requests >>
      BY <2>1, <2>5
    <3>2. PageStays(p)'
      BY <1>1, <2>2, <2>3, <2>5, <3>1, IgnoredStays
    <3>3. QED BY <1>3, <2>3, <3>1, <3>2
  <2>6. QED BY <2>4, <2>5
<1>11. CASE AnswerIsMissing(p)
  <2>1. UNCHANGED << missed, socket, text, currentVersion, sentContents, timers, inbox, requests,
                     typed >>
    BY <1>11 DEF AnswerIsMissing, Overdue, network, server
  <2>2. QED BY <1>3, <2>1
<1>12. QED BY <1>4, <1>5, <1>7, <1>9, <1>10, <1>11

\* How the counters tell what has happened.
LEMMA CountersStep ==
  ASSUME PagesInv, [Next]_vars
  PROVE  /\ Undisturbed' => Undisturbed
         /\ Undisturbed' => \A p \in Pages : ~(AnswerIsLate(p) \/ Reload(p))
         /\ lost' = 0 => lost = 0
<1>1. /\ slow \in Nat /\ reloads \in Nat /\ lost \in Nat
  <2>1. slow \in 0..MaxSlow /\ reloads \in 0..MaxReloads /\ lost \in 0..MaxLost
    BY DEF PagesInv, BoundsOK
  <2>2. QED BY <2>1, PagesAssumption
<1>2. CASE UNCHANGED << slow, reloads, lost >>
  BY <1>1, <1>2 DEF Undisturbed, AnswerIsLate, Reload
<1>3. CASE UNCHANGED << slow, reloads >> /\ lost' = lost + 1
  BY <1>1, <1>3 DEF Undisturbed, AnswerIsLate, Reload
<1>4. CASE /\ lost' = lost
           /\ \/ slow' = slow + 1 /\ reloads' = reloads
              \/ reloads' = reloads + 1 /\ slow' = slow
  BY <1>1, <1>4 DEF Undisturbed
<1>5. CASE ServeAny
  BY <1>2, <1>5 DEF ServeAny, Serve, bounds
<1>6. CASE LoseAny
  BY <1>3, <1>6 DEF LoseAny, LoseRequest, LoseAnswer
<1>7. ASSUME NEW p \in Pages, PageNext(p)
      PROVE  \/ UNCHANGED << slow, reloads, lost >>
             \/ /\ lost' = lost
                /\ \/ slow' = slow + 1 /\ reloads' = reloads
                   \/ reloads' = reloads + 1 /\ slow' = slow
  <2>1. CASE Open(p) \/ Connect(p) \/ Type(p) \/ TimerFires(p)
    BY <2>1 DEF Open, Connect, Type, TimerFires, bounds
  <2>2. CASE RefreshIfNeeded(p)
    BY <2>2 DEF RefreshIfNeeded, bounds
  <2>3. CASE Answered(p)
    BY <2>3 DEF Answered, bounds
  <2>4. CASE AnswerIsLate(p) \/ AnswerIsMissing(p)
    BY <2>4 DEF AnswerIsLate, AnswerIsMissing, Overdue
  <2>5. CASE Reload(p)
    BY <2>5 DEF Reload
  <2>6. QED BY <1>7, <2>1, <2>2, <2>3, <2>4, <2>5 DEF PageNext
<1>8. CASE UNCHANGED vars
  BY <1>2, <1>8 DEF vars, bounds
<1>9. QED BY <1>2, <1>4, <1>5, <1>6, <1>7, <1>8 DEF Next

LEMMA StayInvInit == Init => StayInv
<1>1. SUFFICES ASSUME Init PROVE StayInv
  OBVIOUS
<1>2. FitInv /\ PagesInv
  BY <1>1, FitInvInit, PagesInvInit
<1>3. BagToSet(requests) = {} /\ BagToSet(answers) = {}
  BY <1>1, EmptyBagIsEmpty DEF Init
<1>4. \A p \in Pages : PageStays(p)
  BY <1>1, <1>3 DEF Init, PageStays, PageKnows, PageOwns, PageHears, AnswersOf
<1>5. QED BY <1>2, <1>3, <1>4 DEF StayInv, AllStay

LEMMA StayInvStep == StayInv /\ [Next]_vars => StayInv'
<1>1. SUFFICES ASSUME StayInv, [Next]_vars PROVE StayInv'
  OBVIOUS
<1>2. FitInv' /\ PagesInv /\ PagesInv'
  BY <1>1, FitInvStep DEF StayInv, FitInv
<1>3. SUFFICES ASSUME Undisturbed' PROVE AllStay'
  BY <1>2 DEF StayInv
<1>4. /\ AllStay /\ \A p \in Pages : PageFits(p) /\ PageStays(p)
      /\ \A p \in Pages : ~(AnswerIsLate(p) \/ Reload(p))
  BY <1>1, <1>2, <1>3, CountersStep DEF StayInv, FitInv, Undisturbed, AllStay
<1>5. ASSUME \A q \in Pages : PageStays(q)',
             \A r \in BagToSet(requests') : r \in BagToSet(requests) \/ r.page \in Pages
      PROVE  AllStay'
  BY <1>4, <1>5, PagesAssumption DEF AllStay
<1>6. IsABag(requests)
  BY <1>2 DEF PagesInv, RequestsOK
<1>7. ASSUME NEW request \in BagToSet(requests), Serve(request) PROVE AllStay'
  <2>1. requests' = BagRemove(requests, request)
    BY <1>7 DEF Serve
  <2>2. \A r \in BagToSet(requests') : r \in BagToSet(requests)
    BY <1>6, <2>1, BagRemoveAt
  <2>3. \A q \in Pages : PageStays(q)'
    BY <1>2, <1>4, <1>7, ServedStays
  <2>4. QED BY <1>5, <2>2, <2>3
<1>8. CASE LoseAny
  <2>1. /\ UNCHANGED << rows, page >> /\ lost' = lost + 1
        /\ \/ \E r \in BagToSet(requests) : requests' = BagRemove(requests, r) /\ answers' = answers
           \/ \E a \in BagToSet(answers) : answers' = BagRemove(answers, a) /\ requests' = requests
    BY <1>8 DEF LoseAny, LoseRequest, LoseAnswer, server
  <2>2. lost' # 0
    <3>1. lost \in 0..MaxLost
      BY <1>2 DEF PagesInv, BoundsOK
    <3>2. QED BY <2>1, <3>1, PagesAssumption
  <2>3. \A r \in BagToSet(requests') : r \in BagToSet(requests)
    BY <1>6, <2>1, BagRemoveAt
  <2>4. \A q \in Pages : PageStays(q)'
    BY <1>2, <1>4, <2>1, <2>2, LosingStays
  <2>5. QED BY <1>5, <2>3, <2>4
<1>9. ASSUME NEW p \in Pages, PageNext(p) PROVE AllStay'
  <2>1. CASE Answered(p)
    <3>1. \A q \in Pages : PageStays(q)'
      BY <1>2, <1>4, <2>1, AnsweredStays
    <3>2. UNCHANGED requests
      BY <2>1 DEF Answered
    <3>3. QED BY <1>5, <3>1, <3>2
  <2>2. CASE \/ Open(p) \/ Connect(p) \/ Type(p) \/ TimerFires(p) \/ RefreshIfNeeded(p)
             \/ AnswerIsMissing(p)
    <3>1. \A q \in Pages : PageStays(q)'
      BY <1>2, <1>4, <2>2, ScriptStays
    <3>2. \/ requests' = requests
          \/ \E contents : requests' = BagAdd(requests, RequestOf(p, contents))
      BY <2>2 DEF Open, Connect, Type, TimerFires, RefreshIfNeeded, AnswerIsMissing, Overdue,
                  server, network, ContentUpdated, RequestOf
    <3>3. \A r \in BagToSet(requests') : r \in BagToSet(requests) \/ r.page \in Pages
      <4>1. \A contents : RequestOf(p, contents).page = p
        BY DEF RequestOf
      <4>2. QED BY <1>6, <3>2, <4>1, BagAddAt
    <3>4. QED BY <1>5, <3>1, <3>3
  <2>3. QED BY <1>4, <1>9, <2>1, <2>2 DEF PageNext
<1>10. CASE UNCHANGED vars
  <2>1. UNCHANGED << rows, missed, socket, text, currentVersion, sentContents, timers, inbox,
                     requests, answers, typed, lost >>
    BY <1>10 DEF vars, server, page, network, bounds
  <2>2. \A q : RequestsOf(q)' = RequestsOf(q) /\ AnswersOf(q)' = AnswersOf(q)
    BY <2>1 DEF RequestsOf, AnswersOf
  <2>3. \A q \in Pages : PageStays(q)'
    BY <1>4, <2>1, <2>2, PageStaysStays
  <2>4. QED BY <1>5, <2>1, <2>3
<1>11. QED BY <1>1, <1>7, <1>8, <1>9, <1>10 DEF Next, ServeAny

LEMMA StayInvAlways == Spec => []StayInv
BY StayInvInit, StayInvStep, PTL DEF Spec

\* Document.xhtml:127-152.  However many users type, whatever is merged, delayed or
\* shown meanwhile: what a page shows in its user's line is what the user has put there
\* last, unless an answer is lost or takes 2000 ms (which is where the run
\* slow_answer goes wrong), or someone leaves a page.
THEOREM OwnLineAlwaysStays == Spec => [](Undisturbed => OwnLineStays)
<1>1. StayInv => (Undisturbed => OwnLineStays)
  BY DEF StayInv, AllStay, PageStays, PageOwns, OwnLineStays
<1>2. QED BY <1>1, StayInvAlways, PTL

\* Document.xhtml:104-110 and :118-123.  When no request, answer, message or delayed call is
\* left, every page shows the head, with what its user has typed: no version
\* that was pushed to a page is passed over, and no text is kept back.  However long
\* it takes to connect a websocket: it is only a page that something was pushed past
\* until then that may show an old text, and only until the service answers it.
THEOREM QuietPagesAlwaysShowHead == Spec => [](Undisturbed => QuietPagesShowHead)
<1>1. StayInv => (Undisturbed => QuietPagesShowHead)
  <2>1. SUFFICES ASSUME StayInv, Undisturbed, lost = 0, Quiet, NEW p \in Pages,
                        socket[p] # "closed", p \notin missed
                 PROVE  ShowsHead(p)
    BY DEF QuietPagesShowHead
  <2>2. BagToSet(requests) = {} /\ BagToSet(answers) = {} /\ BagToSet(inbox[p]) = {}
        /\ timers[p] = 0
    BY <2>1, EmptyBagIsEmpty DEF Quiet
  <2>3. UnderWay(p) = {}
    BY <2>2 DEF UnderWay
  <2>4. PageOwns(p) /\ PageHears(p)
    BY <2>1 DEF StayInv, AllStay, PageStays
  <2>5. HearsOfHead(p, currentVersion[p], text[p])
    BY <2>1, <2>2, <2>3, <2>4 DEF PageHears
  <2>6. text[p] = CurrentHead(rows).contents
    BY <2>2, <2>5 DEF HearsOfHead
  <2>7. QED BY <2>1, <2>4, <2>6 DEF ShowsHead, DocumentHead, PageOwns
<1>2. QED BY <1>1, StayInvAlways, PTL

\* Document.xhtml:146-150 with SimpleMerger.java:38-54.  A save changes nobody's line but
\* that of the user of the page that sent it, also when requests or answers are lost.
THEOREM SavesAlwaysKeepOthersLines == Spec /\ []Undisturbed => SavesKeepOthersLines
<1>1. StayInv /\ Undisturbed /\ Undisturbed' /\ [Next]_vars =>
        [rows' # rows =>
           LET before == DocumentHead.contents
               after  == DocumentHead'.contents
           IN  \A p \in Pages :
                 after[OwnLine[p]] # before[OwnLine[p]] =>
                   \E request \in BagToSet(requests) :
                     /\ request.page = p
                     /\ requests' = BagRemove(requests, request)]_vars
  <2>1. SUFFICES ASSUME StayInv, Undisturbed, Undisturbed', [Next]_vars, rows' # rows,
                        NEW p \in Pages,
                        CurrentHead(rows').contents[OwnLine[p]]
                          # CurrentHead(rows).contents[OwnLine[p]]
                 PROVE  \E request \in BagToSet(requests) :
                          /\ request.page = p
                          /\ requests' = BagRemove(requests, request)
    BY DEF DocumentHead
  <2>2. /\ PagesInv /\ AllStay /\ \A q \in Pages : PageFits(q)
    BY <2>1 DEF StayInv, FitInv, Undisturbed
  <2>3. PICK request \in BagToSet(requests) : Serve(request)
    BY <2>1, RowsChangeBySaves
  <2>4. request.page \in Pages
    BY <2>2 DEF PagesInv, RequestsOK, RequestOK, Request, AllStay
  <2>5. request.page = p
    BY <2>1, <2>2, <2>3, <2>4, SaveKeepsOwnLines
  <2>6. QED BY <2>3, <2>5 DEF Serve
<1>2. QED BY <1>1, StayInvAlways, PTL DEF Spec, SavesKeepOthersLines
=============================================================================
