---------------------------- MODULE FormPagesProofs ----------------------------
(***************************************************************************)
(* For any number of users, documents, texts and saves: what the forms do  *)
(* to the documents.                                                       *)
(***************************************************************************)
EXTENDS FormPages, SaveServiceProofs

-----------------------------------------------------------------------------
(* The invariant                                                           *)

Field == [name : Names \cup {Empty}, description : Descriptions \cup {Empty}, contents : Text]

\* The beans, and what the tables hold.
BeansOK ==
  /\ field \in [Users -> Field]
  /\ previousVersion \in [Users -> 0..clock]
  /\ shown \in [Users -> Text]

TablesOK ==
  /\ clock \in Nat
  /\ submits \in 0..MaxSubmits
  /\ documents \in [Names -> SUBSET Row]
  /\ \A n \in Names : Sound(documents[n], clock)
  /\ \A m, n \in Names : m # n => \A r \in documents[m], s \in documents[n] : r.version # s.version

\* The text that a form showed is the one its version stands for, while there is
\* such a version.
FormsShowTheirVersion ==
  \A u \in Editors, n \in Names : \A r \in documents[n] :
    r.version = previousVersion[u] => r.contents = shown[u]

FormsInv == BeansOK /\ TablesOK /\ FormsShowTheirVersion

\* What every save leaves behind, whoever made it.
LEMMA StoreKeepsTables ==
  ASSUME TablesOK, NEW name \in Names, NEW call \in Calls,
         NEW saved, saved = SavedAs(name, call), Store(name, saved)
  PROVE  /\ TablesOK'
         /\ clock <= clock'
         /\ documents'[name] = documents[name] \cup saved.new
         /\ \A n \in Names : \A r \in documents'[n] : r \in documents[n] \/ r.version > clock
         /\ saved # Failed => saved.document \in documents'[name] /\ saved.document \in Row
<1> DEFINE rows  == documents[name]
           later == clock + Cardinality(saved.new)
<1>1. clock \in Nat /\ Sound(rows, clock) /\ documents \in [Names -> SUBSET Row]
  BY DEF TablesOK
<1>2. saved = Save(rows, call, clock + 1, clock + 2)
  BY DEF SavedAs
<1>3. /\ saved.new \subseteq Row
      /\ Cardinality(saved.new) \in Nat
      /\ \A r \in saved.new : r.version > clock /\ r.version <= later
      /\ Sound(rows \cup saved.new, later)
      /\ saved # Failed => saved.document \in rows \cup saved.new
  BY <1>1, <1>2, SaveKeepsSound DEF SoundSave
<1>4. later \in Nat /\ clock <= later /\ clock' = later
  BY <1>1, <1>3 DEF Store
<1>5. /\ documents' \in [Names -> SUBSET Row]
      /\ documents'[name] = rows \cup saved.new
      /\ \A n \in Names \ {name} : documents'[n] = documents[n]
  BY <1>1, <1>3 DEF Store
<1>6. submits' \in 0..MaxSubmits
  BY FormsAssumption DEF Store, TablesOK
<1> HIDE DEF later
<1>7. ASSUME NEW n \in Names PROVE Sound(documents'[n], clock')
  <2>1. CASE n = name
    BY <1>3, <1>4, <1>5, <2>1
  <2>2. CASE n # name
    <3>1. Sound(documents[n], clock) /\ documents'[n] = documents[n]
      BY <1>5, <2>2 DEF TablesOK
    <3>2. \A r \in documents[n] : r.version \in Nat /\ r.previousVersion \in Nat
      BY <1>1 DEF Row, Version, NoVersion
    <3>3. QED BY <1>1, <1>4, <3>1, <3>2 DEF Sound
  <2>3. QED BY <2>1, <2>2
<1>8. \A n \in Names : \A r \in documents[n] : r.version <= clock /\ r.version \in Nat
  BY <1>1 DEF TablesOK, Sound, Row, Version
<1>9. \A r \in saved.new : r.version \in Nat
  BY <1>3 DEF Row, Version
<1>10. ASSUME NEW m \in Names, NEW n \in Names, m # n,
              NEW r \in documents'[m], NEW s \in documents'[n]
       PROVE  r.version # s.version
  <2>1. CASE r \in documents[m] /\ s \in documents[n]
    BY <1>10, <2>1 DEF TablesOK
  <2>2. CASE r \notin documents[m]
    <3>1. r \in saved.new /\ s \in documents[n]
      BY <1>5, <1>10, <2>2
    <3>2. QED BY <1>1, <1>3, <1>8, <1>9, <3>1
  <2>3. CASE s \notin documents[n]
    <3>1. s \in saved.new /\ r \in documents[m]
      BY <1>5, <1>10, <2>3
    <3>2. QED BY <1>1, <1>3, <1>8, <1>9, <3>1
  <2>4. QED BY <2>1, <2>2, <2>3
<1>11. TablesOK'
  BY <1>4, <1>5, <1>6, <1>7, <1>10 DEF TablesOK
<1>12. \A n \in Names : \A r \in documents'[n] : r \in documents[n] \/ r.version > clock
  BY <1>3, <1>5
<1>13. saved # Failed => saved.document \in documents'[name] /\ saved.document \in Row
  BY <1>1, <1>3, <1>5
<1>14. QED BY <1>4, <1>5, <1>11, <1>12, <1>13

\* A form that is not the one that was sent still shows its version.
LEMMA OthersStillShow ==
  ASSUME FormsInv, TablesOK', NEW u \in Users,
         \A n \in Names : \A r \in documents'[n] : r \in documents[n] \/ r.version > clock,
         previousVersion'[u] = previousVersion[u], shown'[u] = shown[u]
  PROVE  u \in Editors => \A n \in Names : \A r \in documents'[n] :
           r.version = previousVersion'[u] => r.contents = shown'[u]
<1>1. previousVersion[u] <= clock /\ clock \in Nat /\ previousVersion[u] \in Nat
  BY DEF FormsInv, BeansOK, TablesOK
<1>2. \A n \in Names : \A r \in documents'[n] : r.version \in Nat
  BY DEF TablesOK, Row, Version
<1>3. QED BY <1>1, <1>2 DEF FormsInv, FormsShowTheirVersion

\* The form that is given a row of a document shows it.
LEMMA ShowsGivenRow ==
  ASSUME TablesOK, NEW name \in Names, NEW document \in documents[name]
  PROVE  \A n \in Names : \A r \in documents[n] :
           r.version = document.version => r.contents = document.contents
BY DEF TablesOK, Sound, UniqueKeys, SameKey

\* Loading a document into a form.
LEMMA LoadKeeps ==
  ASSUME FormsInv, NEW u \in Users, NEW name \in Names, Load(u, name),
         UNCHANGED << documents, clock, submits >>
  PROVE  FormsInv'
<1>1. TablesOK /\ TablesOK'
  BY DEF FormsInv, TablesOK
<1>2. BeansOK /\ clock \in Nat
  BY DEF FormsInv, TablesOK
<1>3. CASE documents[name] = {}
  <2>1. /\ field' = [field EXCEPT ![u].name = name]
        /\ UNCHANGED << previousVersion, shown >>
    BY <1>3 DEF Load
  <2>2. field' \in [Users -> Field]
    BY <1>2, <2>1 DEF BeansOK, Field
  <2>4. BeansOK'
    BY <1>2, <2>1, <2>2 DEF BeansOK
  <2>5. QED BY <1>1, <2>1, <2>4 DEF FormsInv, FormsShowTheirVersion
<1>4. CASE documents[name] # {}
  <2> DEFINE document == CurrentHead(documents[name])
  <2>1. /\ field' = [field EXCEPT ![u] = [name |-> name,
                                          description |-> document.description,
                                          contents |-> document.contents]]
        /\ previousVersion' = [previousVersion EXCEPT ![u] = document.version]
        /\ shown' = [shown EXCEPT ![u] = document.contents]
    BY <1>4 DEF Load
  <2>2. document \in documents[name] /\ document \in Row /\ document.version \in 0..clock
    <3>1. Sound(documents[name], clock)
      BY <1>1 DEF TablesOK
    <3>2. document \in documents[name]
      BY <1>4, <3>1, HeadIsCurrent
    <3> HIDE DEF document
    <3>3. QED BY <1>2, <3>1, <3>2 DEF Sound, Row, Version
  <2> HIDE DEF document
  <2>3. document.description \in Descriptions /\ document.contents \in Text
    BY <2>2 DEF Row
  <2>4. field' \in [Users -> Field]
    BY <1>2, <2>1, <2>3 DEF BeansOK, Field
  <2>6. previousVersion' \in [Users -> 0..clock] /\ shown' \in [Users -> Text]
    BY <1>2, <2>1, <2>2, <2>3 DEF BeansOK
  <2>7. BeansOK'
    BY <2>4, <2>6 DEF BeansOK
  <2>8. ASSUME NEW e \in Editors, NEW n \in Names, NEW r \in documents'[n],
               r.version = previousVersion'[e]
        PROVE  r.contents = shown'[e]
    <3>1. CASE e = u
      <4>1. previousVersion'[e] = document.version /\ shown'[e] = document.contents
        BY <1>2, <2>1, <3>1 DEF BeansOK
      <4>2. QED BY <1>1, <2>2, <2>8, <4>1, ShowsGivenRow
    <3>2. CASE e # u
      <4>1. previousVersion'[e] = previousVersion[e] /\ shown'[e] = shown[e]
        BY <1>2, <2>1, <3>2 DEF BeansOK, Users
      <4>2. QED BY <2>8, <4>1 DEF FormsInv, FormsShowTheirVersion
    <3>3. QED BY <3>1, <3>2
  <2>9. QED BY <1>1, <2>7, <2>8 DEF FormsInv, FormsShowTheirVersion
<1>5. QED BY <1>3, <1>4

\* Sending the form of the edit page.
LEMMA SubmitKeeps ==
  ASSUME FormsInv, NEW u \in Editors, NEW name \in Names, NEW description \in Descriptions,
         NEW contents \in Inputs, Submit(u, name, description, contents)
  PROVE  FormsInv'
<1> DEFINE call    == MakeCall(contents, description, previousVersion[u])
           saved   == SavedAs(name, call)
           entered == [name |-> name, description |-> description, contents |-> contents]
<1>1. u \in Users /\ BeansOK /\ TablesOK /\ contents \in Text /\ u \notin Listeners
  BY FormsAssumption DEF FormsInv, Users
<1>2. call \in Calls
  BY <1>1 DEF MakeCall, Calls, BeansOK, TablesOK
<1>3. /\ Store(name, saved)
      /\ IF saved = Failed
         THEN /\ field' = [field EXCEPT ![u] = entered]
              /\ UNCHANGED << previousVersion, shown >>
         ELSE /\ field' = [field EXCEPT ![u] = [entered EXCEPT !.contents =
                                                  saved.document.contents]]
              /\ previousVersion' = [previousVersion EXCEPT ![u] = saved.document.version]
              /\ shown' = [shown EXCEPT ![u] = saved.document.contents]
  BY DEF Submit
<1> HIDE DEF call, saved
<1>4. /\ TablesOK'
      /\ clock <= clock'
      /\ \A n \in Names : \A r \in documents'[n] : r \in documents[n] \/ r.version > clock
      /\ saved # Failed => saved.document \in documents'[name] /\ saved.document \in Row
  BY <1>1, <1>2, <1>3, StoreKeepsTables DEF saved
<1>5. clock \in Nat /\ clock' \in Nat
  BY <1>1, <1>4 DEF TablesOK
<1>6. saved # Failed => /\ saved.document.contents \in Text
                        /\ saved.document.version \in 0..clock'
  BY <1>4 DEF TablesOK, Sound, Row, Version
<1>7. entered \in Field /\ \A text \in Text : [entered EXCEPT !.contents = text] \in Field
  BY <1>1 DEF Field
<1> HIDE DEF entered
<1>8. field' \in [Users -> Field] /\ \A l \in Listeners : field'[l] = field[l]
  BY <1>1, <1>3, <1>6, <1>7 DEF BeansOK, Users
<1>9. shown' \in [Users -> Text]
  BY <1>1, <1>3, <1>6 DEF BeansOK
<1>10. previousVersion \in [Users -> 0..clock']
  BY <1>1, <1>4, <1>5 DEF BeansOK
<1>11. previousVersion' \in [Users -> 0..clock']
  BY <1>3, <1>6, <1>10
<1>12. BeansOK'
  BY <1>1, <1>3, <1>8, <1>9, <1>11 DEF BeansOK
<1>13. ASSUME NEW e \in Editors, NEW n \in Names, NEW r \in documents'[n],
              r.version = previousVersion'[e]
       PROVE  r.contents = shown'[e]
  <2>1. CASE e = u /\ saved # Failed
    <3>1. previousVersion'[e] = saved.document.version /\ shown'[e] = saved.document.contents
      BY <1>1, <1>3, <2>1 DEF BeansOK
    <3>2. \A q \in documents'[n] : q.version = saved.document.version
                                 => q.contents = saved.document.contents
      <4>1. \A m \in Names : \A q \in documents'[m] : q.version = saved.document.version
                                 => q.contents = saved.document.contents
        BY <1>4, <2>1 DEF TablesOK, Sound, UniqueKeys, SameKey
      <4>2. QED BY <4>1
    <3>3. QED BY <1>13, <3>1, <3>2
  <2>2. CASE ~(e = u /\ saved # Failed)
    <3>1. previousVersion'[e] = previousVersion[e] /\ shown'[e] = shown[e]
      BY <1>1, <1>3, <2>2 DEF BeansOK, Users
    <3>2. e \in Users
      BY DEF Users
    <3>3. QED BY <1>4, <1>13, <3>1, <3>2, OthersStillShow
  <2>3. QED BY <2>1, <2>2
<1>14. QED BY <1>4, <1>12, <1>13 DEF FormsInv, FormsShowTheirVersion

\* Saving from the create page, whose version "0" is of no form.
LEMMA CreateKeeps == FormsInv /\ CreateDocument => FormsInv'
<1>1. SUFFICES ASSUME FormsInv, CreateDocument PROVE FormsInv'
  OBVIOUS
<1>2. PICK name \in Names, description \in Descriptions :
        Store(name, SavedAs(name, MakeCall(NoText, description, NoVersion)))
  BY <1>1 DEF CreateDocument, Create
<1> DEFINE call == MakeCall(NoText, description, NoVersion)
<1>3. NoText \in Text
  BY LineAssumption DEF NoText, Text
<1>4. call \in Calls
  BY <1>3 DEF Calls, MakeCall, NoVersion
<1> HIDE DEF call
<1>5. /\ TablesOK' /\ clock <= clock'
      /\ \A n \in Names : \A r \in documents'[n] : r \in documents[n] \/ r.version > clock
  BY <1>1, <1>2, <1>4, StoreKeepsTables DEF FormsInv, call
<1>6. UNCHANGED << field, previousVersion, shown >>
  BY <1>1 DEF CreateDocument, Create
<1>7. clock \in Nat /\ clock' \in Nat
  BY <1>1, <1>5 DEF FormsInv, TablesOK
<1>8. BeansOK'
  BY <1>1, <1>5, <1>6, <1>7 DEF FormsInv, BeansOK
<1>9. ASSUME NEW e \in Editors
      PROVE  \A n \in Names : \A r \in documents'[n] :
               r.version = previousVersion'[e] => r.contents = shown'[e]
  <2>1. e \in Users
    BY DEF Users
  <2>2. QED BY <1>1, <1>5, <1>6, <2>1, OthersStillShow
<1>10. QED BY <1>5, <1>8, <1>9 DEF FormsInv, FormsShowTheirVersion

\* A save that fails stores nothing.
LEMMA FailedChangesNothing ==
  ASSUME TablesOK, NEW name \in Names, Store(name, Failed)
  PROVE  documents'[name] = documents[name]
BY DEF Failed, Effect, Store, TablesOK

\* A change of the text area of the page that saves without its script.
LEMMA ChangeKeeps ==
  ASSUME FormsInv, NEW u \in Listeners, ContentsValueChange(u)
  PROVE  FormsInv'
<1>1. u \in Users /\ BeansOK /\ TablesOK /\ u \notin Editors
  BY FormsAssumption DEF FormsInv, Users
<1>2. PICK contents \in Inputs \ {field[u].contents} :
        LET saved == IF field[u].description = Empty THEN Failed
                     ELSE SavedAs(field[u].name,
                                  MakeCall(contents, field[u].description, previousVersion[u]))
            now   == IF saved = Failed THEN contents ELSE saved.document.contents
        IN  /\ Store(field[u].name, saved)
            /\ field' = [field EXCEPT ![u].contents = now]
            /\ shown' = [shown EXCEPT ![u] = now]
  BY DEF ContentsValueChange
<1> DEFINE name  == field[u].name
           call  == MakeCall(contents, field[u].description, previousVersion[u])
           saved == IF field[u].description = Empty THEN Failed ELSE SavedAs(name, call)
           now   == IF saved = Failed THEN contents ELSE saved.document.contents
<1>3. /\ Store(name, saved)
      /\ field' = [field EXCEPT ![u].contents = now]
      /\ shown' = [shown EXCEPT ![u] = now]
      /\ UNCHANGED previousVersion
  BY <1>2 DEF ContentsValueChange
<1>4. contents \in Text /\ name \in Names
  <2>1. name # Empty /\ contents \in Text
    BY FormsAssumption DEF ContentsValueChange
  <2>2. QED BY <1>1, <2>1 DEF BeansOK, Field
<1> HIDE DEF call, saved, name
<1>5. /\ TablesOK' /\ clock <= clock'
      /\ \A n \in Names : \A r \in documents'[n] : r \in documents[n] \/ r.version > clock
      /\ saved # Failed => saved.document \in Row
  <2>1. CASE field[u].description # Empty
    <3>1. field[u].description \in Descriptions /\ previousVersion[u] \in Nat
      BY <1>1, <2>1 DEF BeansOK, Field, TablesOK
    <3>2. call \in Calls
      BY <1>4, <3>1 DEF Calls, MakeCall, call
    <3>3. QED BY <1>1, <1>3, <1>4, <2>1, <3>2, StoreKeepsTables DEF saved
  <2>2. CASE field[u].description = Empty
    <3>1. saved = Failed
      BY <2>2 DEF saved
    <3>2. documents' = documents
      BY <1>1, <1>3, <1>4, <3>1, FailedChangesNothing DEF Store, TablesOK
    <3>3. clock' = clock
      BY <1>1, <1>3, <3>1, FS_EmptySet DEF Store, Failed, Effect, TablesOK
    <3>4. submits' \in 0..MaxSubmits
      BY <1>1, <1>3, FormsAssumption DEF Store, TablesOK
    <3>5. QED BY <1>1, <3>1, <3>2, <3>3, <3>4 DEF TablesOK
  <2>3. QED BY <2>1, <2>2
<1>6. now \in Text
  BY <1>4, <1>5 DEF Row
<1> HIDE DEF now
<1>7. clock \in Nat /\ clock' \in Nat
  BY <1>1, <1>5 DEF TablesOK
<1>8. field' \in [Users -> Field] /\ shown' \in [Users -> Text]
  BY <1>1, <1>3, <1>6 DEF BeansOK, Field
<1>9. \A l \in Listeners : /\ field'[l].name = field[l].name
                           /\ field'[l].description = field[l].description
  BY <1>1, <1>3 DEF BeansOK, Field, Users
<1>10. previousVersion' \in [Users -> 0..clock']
  BY <1>1, <1>3, <1>5, <1>7 DEF BeansOK
<1>11. BeansOK'
  BY <1>1, <1>3, <1>8, <1>9, <1>10 DEF BeansOK
<1>12. ASSUME NEW e \in Editors
       PROVE  \A n \in Names : \A r \in documents'[n] :
                r.version = previousVersion'[e] => r.contents = shown'[e]
  <2>1. e \in Users /\ shown'[e] = shown[e] /\ previousVersion'[e] = previousVersion[e]
    BY <1>1, <1>3 DEF BeansOK, Users
  <2>2. QED BY <1>5, <2>1, OthersStillShow
<1>13. QED BY <1>5, <1>11, <1>12 DEF FormsInv, FormsShowTheirVersion

LEMMA FormsInductive == FormsSpec => []FormsInv
<1>1. FormsInit => FormsInv
  <2>1. SUFFICES ASSUME FormsInit PROVE FormsInv
    OBVIOUS
  <2>2. NoText \in Text
    BY LineAssumption DEF NoText, Text
  <2>3. BeansOK
    <3>1. field \in [Users -> Field] /\ \A u \in Users : field[u].name = Empty
      BY <2>1, <2>2 DEF FormsInit, Field
    <3>2. previousVersion \in [Users -> 0..clock]
      BY <2>1 DEF FormsInit, NoVersion
    <3>3. shown \in [Users -> Text]
      BY <2>1, <2>2 DEF FormsInit
    <3>4. QED BY <3>1, <3>2, <3>3 DEF BeansOK, Users
  <2>4. Sound({}, 0)
    BY DEF Sound, UniqueKeys
  <2>5. TablesOK
    BY <2>1, <2>4, FormsAssumption DEF FormsInit, TablesOK
  <2>6. FormsShowTheirVersion
    BY <2>1 DEF FormsInit, FormsShowTheirVersion
  <2>7. QED BY <2>3, <2>5, <2>6 DEF FormsInv
<1>2. FormsInv /\ [FormsNext]_fvars => FormsInv'
  <2>1. SUFFICES ASSUME FormsInv, [FormsNext]_fvars PROVE FormsInv'
    OBVIOUS
  <2>2. ASSUME NEW u \in Editors, EditDocument(u) PROVE FormsInv'
    <3>1. u \in Users /\ u \notin Listeners
      BY FormsAssumption DEF Users
    <3>2. PICK name \in Names : Load(u, name)
      BY <2>2 DEF EditDocument
    <3>3. QED BY <2>1, <2>2, <3>1, <3>2, LoadKeeps DEF EditDocument
  <2>3. ASSUME NEW u \in Editors, SaveDocument(u) PROVE FormsInv'
    BY <2>1, <2>3, SubmitKeeps DEF SaveDocument
  <2>4. ASSUME NEW u \in Listeners, OpenListener(u) PROVE FormsInv'
    <3>1. PICK name \in Names : Load(u, name)
      BY <2>4 DEF OpenListener
    <3>2. QED BY <2>1, <2>4, <3>1, LoadKeeps DEF OpenListener, Users
  <2>5. CASE UNCHANGED fvars
    BY <2>1, <2>5 DEF fvars, FormsInv, BeansOK, TablesOK, FormsShowTheirVersion
  <2>6. QED
    BY <2>1, <2>2, <2>3, <2>4, <2>5, CreateKeeps, ChangeKeeps
       DEF FormsNext, EditorStep, ListenerStep
<1>3. QED BY <1>1, <1>2, PTL DEF FormsSpec

\* Every variable of the pages holds what its type says.
THEOREM FormsTypeCorrect == FormsSpec => []FormsTypeOK
<1>1. FormsInv => FormsTypeOK
  BY DEF FormsInv, BeansOK, TablesOK, FormsTypeOK, Field
<1>2. QED BY <1>1, FormsInductive, PTL

-----------------------------------------------------------------------------
(* The properties                                                          *)

\* A save with a version that a document has not got leaves the document alone.
LEMMA StrangersChangeNothing ==
  ASSUME TablesOK, NEW name \in Names, documents[name] # {},
         NEW contents, NEW description, NEW base,
         FindByNameAndVersion(documents[name], base) = NoRow,
         Store(name, SavedAs(name, MakeCall(contents, description, base)))
  PROVE  documents'[name] = documents[name]
<1>1. SavedAs(name, MakeCall(contents, description, base)) = Failed
  BY DEF SavedAs, Save, MakeCall
<1>2. QED BY <1>1, FailedChangesNothing

\* DocumentManagerBean.java:65-71: for any number of users and documents, a form
\* changes no document that its version is not one of.
THEOREM FormsAlwaysKeepToTheirDocument == FormsSpec => FormsKeepToTheirDocument
<1> DEFINE Kept == \A name \in Names :
              (documents[name] # {} /\ documents'[name] # documents[name]) =>
                /\ ~CreateDocument
                /\ \A u \in Users :
                     (SaveDocument(u) \/ (field[u].name = name /\ ContentsValueChange(u))) =>
                       FindByNameAndVersion(documents[name], previousVersion[u]) # NoRow
<1>1. FormsInv /\ [FormsNext]_fvars => [Kept]_fvars
  <2>1. SUFFICES ASSUME FormsInv, NEW name \in Names,
                        documents[name] # {}, documents'[name] # documents[name]
                 PROVE  /\ ~CreateDocument
                        /\ \A u \in Users :
                             (SaveDocument(u) \/ (field[u].name = name /\ ContentsValueChange(u)))
                               => FindByNameAndVersion(documents[name], previousVersion[u]) # NoRow
    OBVIOUS
  <2>2. TablesOK
    BY <2>1 DEF FormsInv
  <2>3. \A other \in Names : \A saved : Store(other, saved) => other = name
    BY <2>1, <2>2 DEF Store, TablesOK
  <2>4. ASSUME CreateDocument PROVE FALSE
    <3>1. PICK description \in Descriptions :
            Store(name, SavedAs(name, MakeCall(NoText, description, NoVersion)))
      BY <2>3, <2>4 DEF CreateDocument, Create
    <3>2. FindByNameAndVersion(documents[name], NoVersion) = NoRow
      BY <2>2 DEF TablesOK, FindByNameAndVersion, Row, Version
    <3>3. QED BY <2>1, <2>2, <3>1, <3>2, StrangersChangeNothing
  <2>5. ASSUME NEW u \in Users, SaveDocument(u)
        PROVE  FindByNameAndVersion(documents[name], previousVersion[u]) # NoRow
    <3>1. PICK description \in Descriptions, contents \in Inputs :
            Store(name, SavedAs(name, MakeCall(contents, description, previousVersion[u])))
      BY <2>3, <2>5 DEF SaveDocument, Submit
    <3>2. QED BY <2>1, <2>2, <3>1, StrangersChangeNothing
  <2>6. ASSUME NEW u \in Users, field[u].name = name, ContentsValueChange(u)
        PROVE  FindByNameAndVersion(documents[name], previousVersion[u]) # NoRow
    <3>1. PICK contents \in Inputs :
            Store(name, IF field[u].description = Empty THEN Failed
                        ELSE SavedAs(name, MakeCall(contents, field[u].description,
                                                    previousVersion[u])))
      BY <2>6 DEF ContentsValueChange
    <3>2. field[u].description # Empty
      BY <2>1, <2>2, <3>1, FailedChangesNothing
    <3>3. QED BY <2>1, <2>2, <3>1, <3>2, StrangersChangeNothing
  <2>7. QED BY <2>4, <2>5, <2>6
<1>2. QED BY <1>1, FormsInductive, PTL DEF FormsSpec, FormsKeepToTheirDocument

\* A save that changes a document puts the row that it returns on top.
LEMMA StoreChangesRows ==
  ASSUME TablesOK, NEW name \in Names, NEW call \in Calls,
         NEW saved, saved = SavedAs(name, call), Store(name, saved),
         documents'[name] # documents[name]
  PROVE  /\ ChangesRows(documents[name], call, clock + 1, clock + 2, saved)
         /\ CurrentHead(documents'[name]) = saved.document
         /\ documents'[name] = documents[name] \cup saved.new
<1>1. clock \in Nat /\ Sound(documents[name], clock)
  BY DEF TablesOK
<1>2. documents'[name] = documents[name] \cup saved.new
  BY DEF Store, TablesOK
<1>3. saved.new # {} /\ saved # Failed
  BY <1>2 DEF Failed, Effect
<1>4. saved = Save(documents[name], call, clock + 1, clock + 2)
  BY DEF SavedAs
<1>5. CurrentHead(documents[name] \cup saved.new) = saved.document
  BY <1>1, <1>3, <1>4, SaveKeepsSound DEF SoundSave
<1>6. clock + 1 \in Version /\ clock + 2 \in Version
  BY <1>1 DEF Version, NoVersion
<1>7. ChangesRows(documents[name], call, clock + 1, clock + 2, saved)
  BY <1>1, <1>3, <1>4, <1>6, SaveCases DEF Fails, KeepsRows, Effect
<1>8. QED BY <1>2, <1>5, <1>7

\* DocumentsEditPageBean.java:139-142: for any number of users and texts, a save
\* changes no line that the user has not.
THEOREM EditsAlwaysKeepUnseenLines == FormsSpec => EditsKeepUnseenLines
<1> DEFINE Kept == \A u \in Editors, name \in Names, description \in Descriptions, contents \in Inputs :
             (/\ documents[name] # {}
              /\ documents'[name] # documents[name]
              /\ Submit(u, name, description, contents)) =>
                LET before == SplitLines(CurrentHead(documents[name]).contents)
                    after  == CurrentHead(documents'[name]).contents
                IN  \A i \in DOMAIN before :
                      LineOf(after, i) # before[i]
                        => LineOf(contents, i) # LineOf(shown[u], i)
<1>1. FormsInv => Kept
  <2> SUFFICES ASSUME FormsInv, NEW u \in Editors, NEW name \in Names,
                      NEW description \in Descriptions, NEW contents \in Inputs,
                      documents[name] # {},
                      documents'[name] # documents[name],
                      Submit(u, name, description, contents)
               PROVE  \A i \in DOMAIN SplitLines(CurrentHead(documents[name]).contents) :
                        LineOf(CurrentHead(documents'[name]).contents, i)
                            # SplitLines(CurrentHead(documents[name]).contents)[i]
                          => LineOf(contents, i) # LineOf(shown[u], i)
    OBVIOUS
  <2> DEFINE head     == CurrentHead(documents[name])
             call     == MakeCall(contents, description, previousVersion[u])
             previous == FindByNameAndVersion(documents[name], call.base)
             saved    == SavedAs(name, call)
             before   == SplitLines(head.contents)
             after    == saved.document.contents
  <2>1. contents \in Text /\ u \in Users /\ BeansOK /\ TablesOK
    BY FormsAssumption DEF FormsInv, Users
  <2>2. call \in Calls /\ call.contents = contents /\ call.base = previousVersion[u]
    BY <2>1 DEF MakeCall, Calls, BeansOK, TablesOK
  <2>3. Store(name, saved)
    BY DEF Submit
  <2> HIDE DEF call, saved
  <2>4. /\ ChangesRows(documents[name], call, clock + 1, clock + 2, saved)
        /\ CurrentHead(documents'[name]) = saved.document
    BY <2>1, <2>2, <2>3, StoreChangesRows DEF saved
  <2>5. head \in documents[name] /\ head.contents \in Text
    <3>1. Sound(documents[name], clock)
      BY <2>1 DEF TablesOK
    <3>2. QED BY <3>1, HeadIsCurrent DEF Sound, Row
  <2>6. previous \in documents[name] /\ previous.version = previousVersion[u]
    BY <2>2, <2>4 DEF ChangesRows
  <2>7. previous.contents = shown[u] /\ shown[u] \in Text
    BY <2>1, <2>6 DEF FormsInv, FormsShowTheirVersion, BeansOK
  <2>8. \A i \in DOMAIN before : i \in DOMAIN head.contents /\ before[i] = head.contents[i]
    BY <2>5, SplitLinesKeeps
  <2>9. SUFFICES ASSUME NEW i \in DOMAIN before, LineOf(after, i) # before[i]
                 PROVE  LineOf(contents, i) # LineOf(shown[u], i)
    BY <2>4
  <2>10. LineOf(head.contents, i) = before[i]
    BY <2>8 DEF LineOf
  <2>11. CASE saved = Described(head, call, clock + 1)
    BY <2>9, <2>10, <2>11 DEF Described, Effect, MakeRow
  <2>12. CASE previous = head /\ saved = SavedOverHead(head, call, clock + 1)
    <3>1. after = contents
      BY <2>2, <2>12 DEF SavedOverHead, Effect, MakeRow
    <3>2. QED BY <2>7, <2>9, <2>10, <2>12, <3>1
  <2>13. CASE saved = MergedIntoHead(head, previous, call, clock + 1, clock + 2)
    <3> DEFINE base == SplitLines(shown[u])
               own  == SplitLines(contents)
    <3>1. after = MergeLines(base, before, own)
      BY <2>2, <2>7, <2>13 DEF MergedIntoHead, Effect, MakeRow, MergedText
    <3>2. base \in Seq(Line) /\ before \in Seq(Line) /\ own \in Seq(Line)
      BY <2>1, <2>5, <2>7, SplitLinesType
    <3>3. /\ \A j \in DOMAIN base : j \in DOMAIN shown[u] /\ base[j] = shown[u][j]
          /\ \A j \in DOMAIN own : j \in DOMAIN contents /\ own[j] = contents[j]
      BY <2>1, <2>7, SplitLinesKeeps
    <3> HIDE DEF base, own, before, after
    <3>4. i \in DOMAIN after /\ after[i] # before[i]
      <4>1. i \in DOMAIN after
        BY <3>1, <3>2 DEF MergeLines, Longer
      <4>2. QED BY <2>9, <4>1 DEF LineOf
    <3>5. i \in DOMAIN base /\ i \in DOMAIN own /\ base[i] # own[i]
      BY <3>1, <3>2, <3>4 DEF MergeLines, Longer, Shared
    <3>6. QED BY <3>3, <3>5 DEF LineOf
  <2>14. QED BY <2>4, <2>11, <2>12, <2>13 DEF ChangesRows
<1>2. FormsInv /\ [FormsNext]_fvars => [Kept]_fvars
  BY <1>1
<1>3. QED BY <1>2, FormsInductive, PTL DEF FormsSpec, EditsKeepUnseenLines

DocumentHead(name) == IF documents[name] = {} THEN NoRow ELSE CurrentHead(documents[name])

History(name) == INSTANCE HeadHistory
                   WITH head <- DocumentHead(name), saved <- documents[name]

\* HeadHistory has its own copies of the operators it shares with the pages.
LEMMA SameOperators ==
  ASSUME NEW name
  PROVE  /\ History(name)!NoRow = NoRow /\ History(name)!NoVersion = NoVersion
         /\ \A S : History(name)!UniqueKeys(S) <=> UniqueKeys(S)
         /\ \A r : History(name)!IsDraft(r) <=> IsDraft(r)
         /\ \A P, H, M : History(name)!MergedText(P, H, M) = MergedText(P, H, M)
<1>1. /\ History(name)!NoRow = NoRow /\ History(name)!NoVersion = NoVersion
      /\ \A S : History(name)!UniqueKeys(S) <=> UniqueKeys(S)
      /\ \A r : History(name)!IsDraft(r) <=> IsDraft(r)
  BY DEF History!NoRow, NoRow, History!NoVersion, NoVersion, History!UniqueKeys, UniqueKeys,
         History!SameKey, SameKey, History!IsDraft, IsDraft
<1>2. ASSUME NEW t PROVE History(name)!SplitLines(t) = SplitLines(t)
  BY DEF History!SplitLines, SplitLines, History!Cardinality, Cardinality
<1>3. ASSUME NEW P, NEW H, NEW M PROVE History(name)!MergeLines(P, H, M) = MergeLines(P, H, M)
  BY DEF History!MergeLines, MergeLines, History!Shared, Shared, History!Longer, Longer
<1>4. ASSUME NEW P, NEW H, NEW M PROVE History(name)!MergedText(P, H, M) = MergedText(P, H, M)
  BY <1>2, <1>3 DEF History!MergedText, MergedText
<1>5. QED BY <1>1, <1>4

\* A save that changes a document is a step of its history.
LEMMA StoreIsHistory ==
  ASSUME TablesOK, TablesOK', NEW name \in Names, NEW call \in Calls,
         NEW saved, saved = SavedAs(name, call), Store(name, saved),
         documents'[name] # documents[name]
  PROVE  History(name)!HNext
<1> DEFINE rows     == documents[name]
           head     == CurrentHead(rows)
           previous == FindByNameAndVersion(rows, call.base)
           document == saved.document
<1>1. /\ ChangesRows(rows, call, clock + 1, clock + 2, saved)
      /\ CurrentHead(documents'[name]) = document
      /\ documents'[name] = rows \cup saved.new
  BY StoreChangesRows
<1>2. /\ DocumentHead(name) = IF rows = {} THEN NoRow ELSE head
      /\ DocumentHead(name)' = document
  <2>1. documents'[name] # {}
    BY <1>1
  <2>2. QED BY <1>1, <2>1 DEF DocumentHead, CurrentHead, Heads
<1>3. clock \in Nat /\ Sound(rows, clock) /\ Sound(documents'[name], clock')
  BY DEF TablesOK
<1>4. \A r \in saved.new : r \in Row /\ r.version > clock
  BY <1>3, SaveKeepsSound DEF SavedAs, SoundSave
<1>5. saved.new \cap rows = {}
  BY <1>3, <1>4 DEF Sound, Row, Version
<1>6. History(name)!Fresh(saved.new)
  BY <1>1, <1>3, <1>5, SameOperators DEF History!Fresh, Sound
<1>7. rows # {} => head \in rows /\ head # NoRow
  <2>1. rows # {} => head \in rows
    BY <1>3, HeadIsCurrent
  <2>2. \A r \in rows : r.version # NoRow.version
    BY <1>3 DEF Sound, Row, NoRow, Version
  <2>3. QED BY <2>1, <2>2
<1> HIDE DEF rows
<1>8. CASE rows = {} /\ saved = Created(call, clock + 1)
  <2>1. /\ saved.new = {document} /\ document.previousVersion = NoVersion
        /\ document.version = clock + 1
    BY <1>8 DEF Created, Effect, MakeRow
  <2>2. document # NoRow
    BY <1>3, <2>1 DEF NoRow, NoVersion
  <2>3. History(name)!Begin
    BY <1>2, <1>6, <1>8, <2>1, <2>2, SameOperators DEF History!Begin
  <2>4. QED BY <2>3 DEF History!HNext
<1>9. CASE /\ rows # {}
           /\ \/ saved = Described(head, call, clock + 1)
              \/ /\ call.description = head.description
                 /\ saved = SavedOverHead(head, call, clock + 1)
  <2>1. /\ saved.new = {document} /\ document.previousVersion = head.version
        /\ document.mergedWith = NoVersion
        /\ document.description = head.description \/ document.contents = head.contents
    BY <1>9 DEF Described, SavedOverHead, Effect, MakeRow
  <2>2. History(name)!Continue
    BY <1>2, <1>6, <1>7, <1>9, <2>1, SameOperators DEF History!Continue
  <2>3. QED BY <2>2 DEF History!HNext
<1>10. CASE /\ rows # {} /\ previous \in rows /\ previous # head
            /\ saved = MergedIntoHead(head, previous, call, clock + 1, clock + 2)
  <2> DEFINE draft == MakeRow(clock + 1, clock + 1, previous.version,
                              call.description, call.contents)
  <2>1. /\ saved.new = {draft, document}
        /\ document.previousVersion = head.version
        /\ document.mergedWith = clock + 1
        /\ document.contents = MergedText(previous.contents, head.contents, call.contents)
    BY <1>10 DEF MergedIntoHead, Effect, MakeRow
  <2>2. /\ IsDraft(draft) /\ draft.mergedWith = previous.version
        /\ draft.version = clock + 1 /\ draft.contents = call.contents
    BY DEF IsDraft, MakeRow
  <2> HIDE DEF draft, head, previous, document
  <2>3. draft \in documents'[name] \ rows
    BY <1>1, <1>5, <2>1
  <2>4. document.contents = MergedText(previous.contents, head.contents, draft.contents)
    BY <2>1, <2>2
  <2>5. History(name)!Fresh({draft, document})
    BY <1>6, <2>1
  <2>6. draft \in documents[name]' \ documents[name] /\ previous \in documents[name]
    BY <1>10, <2>3 DEF rows
  <2>7. DocumentHead(name) = head /\ DocumentHead(name)' = document /\ head # NoRow
    BY <1>2, <1>7, <1>10
  <2>8. History(name)!Combine
    BY <1>10, <2>1, <2>2, <2>4, <2>5, <2>6, <2>7, SameOperators DEF History!Combine
  <2>9. QED BY <2>8 DEF History!HNext
<1>11. QED BY <1>1, <1>8, <1>9, <1>10 DEF ChangesRows

\* DocumentManagerBean.java:38-149 while nobody deletes: the one step that a save is
\* for the forms is a step of the HeadHistory of its document, which is what the
\* transactions implement (DocumentRefinement).
LEMMA SavesAreHistorySteps ==
  FormsSpec => [][\A name \in Names :
                    documents'[name] = documents[name] \/ History(name)!HNext]_fvars
<1> DEFINE Kept == \A name \in Names :
                     documents'[name] = documents[name] \/ History(name)!HNext
<1>1. FormsInv /\ FormsInv' /\ [FormsNext]_fvars => [Kept]_fvars
  <2>1. SUFFICES ASSUME FormsInv, FormsInv', FormsNext, NEW name \in Names,
                        documents'[name] # documents[name]
                 PROVE  History(name)!HNext
    BY DEF fvars
  <2>2. TablesOK /\ TablesOK' /\ BeansOK
    BY <2>1 DEF FormsInv
  <2>3. \A other \in Names : \A saved : Store(other, saved) => other = name
    BY <2>1, <2>2 DEF Store, TablesOK
  <2>4. documents' # documents
    BY <2>1
  <2>5. ASSUME NEW u \in Editors, SaveDocument(u) PROVE History(name)!HNext
    <3>1. PICK description \in Descriptions, contents \in Inputs :
            Store(name, SavedAs(name, MakeCall(contents, description, previousVersion[u])))
      BY <2>3, <2>5 DEF SaveDocument, Submit
    <3>2. MakeCall(contents, description, previousVersion[u]) \in Calls
      BY <2>2, FormsAssumption DEF MakeCall, Calls, BeansOK, TablesOK, Users
    <3>3. QED BY <2>1, <2>2, <3>1, <3>2, StoreIsHistory
  <2>7. ASSUME NEW u \in Listeners, ContentsValueChange(u) PROVE History(name)!HNext
    <3>1. field[u].name \in Names /\ field[u].description \in Descriptions \cup {Empty}
      BY <2>2, <2>7 DEF ContentsValueChange, BeansOK, Field, Users
    <3>2. PICK contents \in Inputs :
            Store(field[u].name,
                  IF field[u].description = Empty THEN Failed
                  ELSE SavedAs(field[u].name,
                         MakeCall(contents, field[u].description, previousVersion[u])))
      BY <2>7 DEF ContentsValueChange
    <3>3. field[u].name = name
      BY <2>3, <3>1, <3>2
    <3>4. field[u].description # Empty
      BY <2>1, <2>2, <3>2, <3>3, FailedChangesNothing
    <3>5. MakeCall(contents, field[u].description, previousVersion[u]) \in Calls
      BY <2>2, <3>1, <3>4, FormsAssumption DEF MakeCall, Calls, BeansOK, TablesOK, Users
    <3>6. QED BY <2>1, <2>2, <3>2, <3>3, <3>4, <3>5, StoreIsHistory
  <2>8. ASSUME CreateDocument PROVE History(name)!HNext
    <3>1. PICK description \in Descriptions :
            Store(name, SavedAs(name, MakeCall(NoText, description, NoVersion)))
      BY <2>3, <2>8 DEF CreateDocument, Create
    <3>2. MakeCall(NoText, description, NoVersion) \in Calls
      BY LineAssumption DEF MakeCall, Calls, NoText, Text, NoVersion
    <3>3. QED BY <2>1, <2>2, <3>1, <3>2, StoreIsHistory
  <2>9. QED
    BY <2>1, <2>4, <2>5, <2>7, <2>8
       DEF FormsNext, EditorStep, ListenerStep, EditDocument, OpenListener
<1>2. QED BY <1>1, FormsInductive, PTL DEF FormsSpec
=============================================================================
