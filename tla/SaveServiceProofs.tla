--------------------------- MODULE SaveServiceProofs ---------------------------
(* What one call of the service does to the table, whatever it is sent.    *)
EXTENDS SaveService, SimpleMergerProofs

\* The rows of one document, whose versions have all been generated: no two
\* share a key, and one of them is the head.
Sound(rows, newest) ==
  /\ rows \subseteq Row
  /\ \A r \in rows : r.version <= newest /\ r.previousVersion <= newest
  /\ UniqueKeys(rows)
  /\ rows # {} => \E h \in rows : Heads(rows) = {h}

\* The call as the pages make it.
Calls == [contents : Text, description : Descriptions, base : Nat]

\* The head is the row that no other row follows (Document.java:25-26).
LEMMA HeadIsCurrent ==
  ASSUME NEW rows, NEW newest, Sound(rows, newest), rows # {}
  PROVE  /\ CurrentHead(rows) \in rows
         /\ Heads(rows) = {CurrentHead(rows)}
         /\ \A r \in rows : r.previousVersion # CurrentHead(rows).version
BY DEF Sound, CurrentHead, Heads

\* What a save does to rows that it changes: a first row, or a row on top of
\* the head, if the version that was sent is one of the document's, and perhaps
\* the draft it is merged with.
ChangesRows(rows, call, v, w, effect) ==
  LET head     == CurrentHead(rows)
      previous == FindByNameAndVersion(rows, call.base)
      draft    == MakeRow(v, v, previous.version, call.description, call.contents)
  IN  \/ /\ rows = {}
         /\ effect = Created(call, v)
      \/ /\ rows # {} /\ previous \in rows /\ previous.version = call.base
         /\ \/ /\ call.description # head.description
               /\ effect = Described(head, call, v)
            \/ /\ previous = head
               /\ call.description = head.description
               /\ effect = SavedOverHead(head, call, v)
            \/ /\ previous # head
               /\ ~MergeThrows(head.contents, call.contents)
               /\ effect = MergedIntoHead(head, previous, call, v, w)

\* What a save does that changes nothing: the head has the text already, or the
\* text is the one that the version stands for.
KeepsRows(rows, call, effect) ==
  LET head     == CurrentHead(rows)
      previous == FindByNameAndVersion(rows, call.base)
  IN  /\ rows # {} /\ previous \in rows /\ previous.version = call.base
      /\ \/ head.contents = call.contents /\ effect = Effect({}, head, head.version)
         \/ previous.contents = call.contents /\ effect = Effect({}, head, NoVersion)

\* Why a save fails: the version is not there, or the merge throws.
Fails(rows, call, effect) ==
  /\ effect = Failed
  /\ rows # {}
  /\ \/ \A r \in rows : r.version # call.base
     \/ MergeThrows(CurrentHead(rows).contents, call.contents)

\* DocumentManagerBean.java:38-149, case by case.
LEMMA SaveCases ==
  ASSUME NEW rows, NEW newest \in Nat, Sound(rows, newest), NEW call \in Calls,
         NEW v \in Version, NEW w \in Version,
         NEW saved, saved = Save(rows, call, v, w)
  PROVE  \/ Fails(rows, call, saved)
         \/ KeepsRows(rows, call, saved)
         \/ ChangesRows(rows, call, v, w, saved)
<1> DEFINE head == CurrentHead(rows)
           previous == FindByNameAndVersion(rows, call.base)
<1>1. CASE rows = {}
  BY <1>1 DEF Save, ChangesRows
<1>2. CASE rows # {} /\ previous = NoRow
  <2>1. \A r \in rows : r.version # NoVersion
    BY DEF Sound, Row, Version
  <2>2. \A r \in rows : r.version # call.base
    BY <1>2, <2>1 DEF FindByNameAndVersion, NoRow
  <2>3. QED BY <1>2, <2>2 DEF Save, Fails
<1>3. CASE rows # {} /\ previous # NoRow
  <2>1. previous \in rows /\ previous.version = call.base
    BY <1>3 DEF FindByNameAndVersion
  <2>2. CASE call.description \notin {head.description, previous.description}
    BY <1>3, <2>1, <2>2 DEF Save, ChangesRows
  <2>3. CASE call.description \in {head.description, previous.description}
    <3>1. saved = SavedText(head, previous, call, v, w)
      BY <1>3, <2>3 DEF Save
    <3>2. \/ MergeThrows(head.contents, call.contents) /\ saved = Failed
          \/ head.contents = call.contents /\ saved = Effect({}, head, head.version)
          \/ previous.contents = call.contents /\ saved = Effect({}, head, NoVersion)
          \/ /\ previous = head
             /\ saved = SavedOverHead(head, call, v)
          \/ /\ previous # head
             /\ ~MergeThrows(head.contents, call.contents)
             /\ saved = MergedIntoHead(head, previous, call, v, w)
      BY <3>1 DEF SavedText
    <3> HIDE DEF head, previous
    <3>3. QED
      BY <1>3, <2>1, <2>3, <3>2 DEF Fails, KeepsRows, ChangesRows, head, previous
  <2>4. QED BY <2>2, <2>3
<1>4. QED BY <1>1, <1>2, <1>3

\* A row on top of the head, and perhaps a draft, leaves sound rows, and that row
\* as the head.
LEMMA InsertKeepsSound ==
  ASSUME NEW rows, NEW newest \in Nat, Sound(rows, newest), NEW later \in Nat, newest <= later,
         NEW document \in Row, document.version > newest, document.version <= later,
         NEW new, document \in new, new \subseteq Row,
         \A r \in new : \/ r = document
                        \/ /\ IsDraft(r) /\ r.version # document.version
                           /\ r.version > newest /\ r.version <= later,
         \A r, s \in new : r # document /\ s # document => r = s,
         IF rows = {} THEN document.previousVersion = NoVersion
                      ELSE document.previousVersion = CurrentHead(rows).version
  PROVE  /\ Sound(rows \cup new, later)
         /\ CurrentHead(rows \cup new) = document
<1> USE DEF Row, Version, NoVersion
<1>1. rows \subseteq Row /\ \A r \in rows : r.version <= newest /\ r.previousVersion <= newest
  BY DEF Sound
<1>2. /\ document.previousVersion <= newest
      /\ \A r \in rows : r.previousVersion # document.previousVersion
  <2>1. CASE rows = {}
    BY <2>1
  <2>2. CASE rows # {}
    BY <1>1, <2>2, HeadIsCurrent
  <2>3. QED BY <2>1, <2>2
<1>3. rows \cup new \subseteq Row
  BY <1>1
<1>4. \A r \in rows \cup new : r.version <= later /\ r.previousVersion <= later
  <2>1. \A r \in rows : r.version <= later /\ r.previousVersion <= later
    BY <1>1
  <2>2. \A r \in new : r.version <= later /\ r.previousVersion <= later
    BY <1>2 DEF IsDraft
  <2>3. QED BY <2>1, <2>2
<1>5. UniqueKeys(rows \cup new)
  <2>1. \A r, s \in rows : SameKey(r, s) => r = s
    BY DEF Sound, UniqueKeys
  <2>2. \A r \in rows, s \in new : ~SameKey(r, s) /\ ~SameKey(s, r)
    BY <1>1, <1>2 DEF SameKey, IsDraft
  <2>3. \A r, s \in new : SameKey(r, s) => r = s
    BY <1>2 DEF SameKey, IsDraft
  <2>4. QED BY <2>1, <2>2, <2>3 DEF UniqueKeys
<1>6. document \in Heads(rows \cup new)
  <2>1. \A r \in rows : r.previousVersion # document.version
    BY <1>1
  <2>2. \A r \in new : r.previousVersion # document.version
    BY <1>2 DEF IsDraft
  <2>3. QED BY <2>1, <2>2 DEF Heads
<1>7. ASSUME NEW h \in Heads(rows \cup new) PROVE h = document
  <2>1. h \in rows \cup new /\ \A s \in rows \cup new : s.previousVersion # h.version
    BY <1>7 DEF Heads
  <2>2. CASE h \in rows
    <3>1. h \in Heads(rows)
      BY <2>1, <2>2 DEF Heads
    <3>2. Heads(rows) = {CurrentHead(rows)} /\ document.previousVersion = CurrentHead(rows).version
      BY <2>2, HeadIsCurrent
    <3>3. QED BY <2>1, <3>1, <3>2
  <2>3. CASE h \in new
    BY <2>1, <2>3 DEF IsDraft
  <2>4. QED BY <2>1, <2>2, <2>3
<1>8. Heads(rows \cup new) = {document}
  BY <1>6, <1>7
<1>9. QED BY <1>3, <1>4, <1>5, <1>8 DEF Sound, CurrentHead

\* What a save leaves behind: sound rows, and the row that it returns is the head.
SoundSave(rows, newest, saved) ==
  LET later == newest + Cardinality(saved.new)
  IN  /\ saved.new \subseteq Row
      /\ Cardinality(saved.new) \in Nat
      /\ \A r \in saved.new : r.version > newest /\ r.version <= later
      /\ Sound(rows \cup saved.new, later)
      /\ saved # Failed => /\ CurrentHead(rows \cup saved.new) = saved.document
                           /\ saved.document \in rows \cup saved.new
      /\ saved.new # {} => /\ saved # Failed
                           /\ saved.document \in saved.new
                           /\ \A r \in saved.new : r.version <= saved.document.version

\* What a save inserts is one or two new rows, and the one it returns is the head.
LEMMA SaveKeepsSound ==
  ASSUME NEW rows, NEW newest \in Nat, Sound(rows, newest), NEW call \in Calls,
         NEW saved, saved = Save(rows, call, newest + 1, newest + 2)
  PROVE  SoundSave(rows, newest, saved)
<1> DEFINE v == newest + 1
           w == newest + 2
<1>1. v \in Version /\ w \in Version /\ v # w
  BY DEF Version, NoVersion
<1>2. Cardinality({}) = 0 /\ rows \cup {} = rows /\ newest + 0 = newest
  BY FS_EmptySet
<1>3. CASE Fails(rows, call, saved) \/ KeepsRows(rows, call, saved)
  <2>1. /\ saved.new = {}
        /\ saved # Failed => saved.document = CurrentHead(rows) /\ rows # {}
    BY <1>3 DEF Fails, KeepsRows, Failed, Effect
  <2>2. Cardinality(saved.new) = 0
    <3>1. saved.new = {}
      BY <2>1
    <3>2. QED BY <1>2, <3>1
  <2>3. /\ rows \cup saved.new = rows /\ newest + Cardinality(saved.new) = newest
        /\ Cardinality(saved.new) \in Nat /\ saved.new \subseteq Row
    BY <2>1, <2>2
  <2>4. saved # Failed => saved.document \in rows
    BY <2>1, HeadIsCurrent
  <2>5. QED BY <2>1, <2>2, <2>3, <2>4 DEF SoundSave
<1>4. CASE ChangesRows(rows, call, v, w, saved)
  <2> DEFINE head     == CurrentHead(rows)
             previous == FindByNameAndVersion(rows, call.base)
             draft    == MakeRow(v, v, previous.version, call.description, call.contents)
  <2>1. call.contents \in Text /\ call.description \in Descriptions
    BY DEF Calls
  <2>2. rows # {} => head \in rows /\ head \in Row
    BY HeadIsCurrent DEF Sound
  <2>3. ASSUME NEW document \in Row, document.version = v,
               saved.new = {document}, saved.document = document,
               IF rows = {} THEN document.previousVersion = NoVersion
                            ELSE document.previousVersion = head.version
        PROVE  SoundSave(rows, newest, saved)
    <3>1. Cardinality(saved.new) = 1
      <4>1. Cardinality({document}) = 1
        BY FS_Singleton
      <4>2. saved.new = {document}
        BY <2>3
      <4>3. QED BY <4>1, <4>2
    <3> DEFINE new   == {document}
               later == newest + 1
    <3>2. /\ later \in Nat /\ newest <= later
          /\ document.version > newest /\ document.version <= later
      BY <2>3
    <3>3. new \subseteq Row /\ document \in new /\ \A r \in new : r = document
      BY <2>3
    <3> HIDE DEF new, later
    <3>4. Sound(rows \cup new, later) /\ CurrentHead(rows \cup new) = document
      BY <2>3, <3>2, <3>3, InsertKeepsSound
    <3>5. saved.new = new /\ newest + Cardinality(saved.new) = later
      BY <2>3, <3>1 DEF new, later
    <3>6. \A r \in saved.new : r.version > newest /\ r.version <= later
      BY <3>2, <3>3, <3>5
    <3>7. Cardinality(saved.new) \in Nat
      BY <3>1
    <3>8. saved.new \subseteq Row /\ saved.document \in saved.new /\ saved # Failed
      BY <2>3, <3>3, <3>5 DEF Failed, Effect
    <3>9. document.version \in Nat /\ \A r \in saved.new : r.version <= saved.document.version
      BY <2>3, <3>3, <3>5
    <3>10. QED BY <2>3, <3>4, <3>5, <3>6, <3>7, <3>8, <3>9 DEF SoundSave
  <2>4. CASE rows = {} /\ saved = Created(call, v)
    <3> DEFINE document == MakeRow(v, NoVersion, NoVersion, call.description, call.contents)
    <3>1. document \in Row /\ document.version = v /\ document.previousVersion = NoVersion
      BY <1>1, <2>1 DEF MakeRow, Row
    <3>2. saved.new = {document} /\ saved.document = document
      BY <2>4 DEF Created, Effect
    <3> HIDE DEF document
    <3>3. QED BY <2>3, <2>4, <3>1, <3>2
  <2>5. CASE rows # {} /\ saved = Described(head, call, v)
    <3> DEFINE document == MakeRow(v, head.version, NoVersion, call.description, head.contents)
    <3>1. document \in Row /\ document.version = v /\ document.previousVersion = head.version
      BY <1>1, <2>1, <2>2, <2>5 DEF MakeRow, Row
    <3>2. saved.new = {document} /\ saved.document = document
      BY <2>5 DEF Described, Effect
    <3> HIDE DEF document, head
    <3>3. QED BY <2>3, <2>5, <3>1, <3>2
  <2>6. CASE rows # {} /\ saved = SavedOverHead(head, call, v)
    <3> DEFINE document == MakeRow(v, head.version, NoVersion, call.description, call.contents)
    <3>1. document \in Row /\ document.version = v /\ document.previousVersion = head.version
      BY <1>1, <2>1, <2>2, <2>6 DEF MakeRow, Row
    <3>2. saved.new = {document} /\ saved.document = document
      BY <2>6 DEF SavedOverHead, Effect
    <3> HIDE DEF document, head
    <3>3. QED BY <2>3, <2>6, <3>1, <3>2
  <2>7. CASE /\ rows # {} /\ previous \in rows
             /\ ~MergeThrows(head.contents, call.contents)
             /\ saved = MergedIntoHead(head, previous, call, v, w)
    <3> DEFINE document == MakeRow(w, head.version, v, call.description,
                             MergedText(previous.contents, head.contents, call.contents))
    <3>1. previous \in Row
      BY <2>7 DEF Sound
    <3>2. MergedText(previous.contents, head.contents, call.contents) \in Text
      BY <2>1, <2>2, <2>7, <3>1, MergedTextType DEF Row
    <3>3. document \in Row /\ document.version = w /\ document.previousVersion = head.version
      BY <1>1, <2>1, <2>2, <2>7, <3>2 DEF MakeRow, Row
    <3>4. draft \in Row /\ draft.version = v /\ draft.previousVersion = v
      BY <1>1, <2>1, <2>7, <3>1 DEF MakeRow, Row
    <3>5. saved.new = {draft, document} /\ saved.document = document
      BY <2>7 DEF MergedIntoHead, Effect
    <3> HIDE DEF document, head, draft
    <3>6. draft # document
      BY <1>1, <3>3, <3>4
    <3>7. Cardinality({draft, document}) = 2
      <4>1. Cardinality({document}) = 1 /\ IsFiniteSet({document})
        BY FS_Singleton
      <4>2. Cardinality({document} \cup {draft}) = Cardinality({document}) + 1
        BY <3>6, <4>1, FS_AddElement
      <4>3. {document} \cup {draft} = {draft, document}
        OBVIOUS
      <4>4. QED BY <4>1, <4>2, <4>3
    <3> DEFINE new   == {draft, document}
               later == newest + 2
    <3>8. /\ later \in Nat /\ newest <= later
          /\ document.version > newest /\ document.version <= later
      BY <3>3
    <3>9. /\ new \subseteq Row /\ document \in new
          /\ \A r \in new : \/ r = document
                             \/ /\ IsDraft(r) /\ r.version # document.version
                                /\ r.version > newest /\ r.version <= later
          /\ \A r, s \in new : r # document /\ s # document => r = s
      BY <3>3, <3>4 DEF IsDraft
    <3>10. newest + Cardinality(new) = later /\ Cardinality(new) \in Nat /\ saved.new = new
      BY <3>5, <3>7
    <3> HIDE DEF new, later
    <3>11. document.previousVersion = CurrentHead(rows).version
      BY <3>3 DEF head
    <3>12. Sound(rows \cup new, later) /\ CurrentHead(rows \cup new) = document
      BY <2>7, <3>3, <3>8, <3>9, <3>11, InsertKeepsSound
    <3>13. \A r \in new : r.version > newest /\ r.version <= later
      BY <3>8, <3>9
    <3>14. saved # Failed /\ \A r \in new : r.version <= document.version
      BY <3>3, <3>4, <3>5 DEF Failed, Effect, new
    <3>15. QED BY <3>5, <3>9, <3>10, <3>12, <3>13, <3>14 DEF SoundSave
  <2>8. QED BY <1>4, <2>4, <2>5, <2>6, <2>7 DEF ChangesRows
<1>5. QED BY <1>1, <1>3, <1>4, SaveCases
=============================================================================
