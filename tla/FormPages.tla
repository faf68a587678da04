------------------------------ MODULE FormPages ------------------------------
(***************************************************************************)
(* The pages that save documents from a form: DocumentsEdit.xhtml with     *)
(* DocumentsEditPageBean, DocumentCreate.xhtml with DocumentCreatePageBean *)
(* and DocumentJSF.xhtml with the value change listener of                 *)
(* DocumentPageBean, over SaveService for several documents.               *)
(*                                                                         *)
(* A form is submitted as a whole: the fields are set and the button's     *)
(* action runs, in one request.  Nobody deletes a document here: then a    *)
(* save is one step (DocumentRefinement).  StalePages has the deletions.   *)
(***************************************************************************)
EXTENDS SaveService

CONSTANTS
  Names,        \* names of documents
  Inputs,       \* texts that users type
  Editors,      \* users with the edit page
  Listeners,    \* users with the page that saves when the text area changes
  MaxSubmits    \* bound: saves

ASSUME FormsAssumption ==
  /\ Inputs \subseteq Text
  /\ Editors \cap Listeners = {}
  /\ Names # {}
  /\ Descriptions # {}
  /\ MaxSubmits \in Nat

VARIABLES
  documents, \* the rows of every document
  clock,     \* the newest version that was generated
  field,     \* documentName, description and contents of a form
  previousVersion, \* of a page bean
  shown,     \* the contents that the form was last rendered with
  submits    \* counter for the bound

fvars == << documents, clock, field, previousVersion, shown, submits >>

Users == Editors \cup Listeners

\* A field that nothing was entered in.
Empty == ""

\* What an empty text area holds.
NoText == << Blank >>

\* A bean's version is the "0" it starts with or one that a document once had.
FormsTypeOK ==
  /\ documents \in [Names -> SUBSET Row]
  /\ clock \in Nat
  /\ \A u \in Users : /\ field[u].name \in Names \cup {Empty}
                      /\ field[u].description \in Descriptions \cup {Empty}
                      /\ field[u].contents \in Text
                      /\ shown[u] \in Text
  /\ previousVersion \in [Users -> 0..clock]
  /\ submits \in 0..MaxSubmits

FormsInit ==
  /\ documents = [n \in Names |-> {}]
  /\ clock = 0
  /\ field = [u \in Users |-> [name |-> Empty, description |-> Empty, contents |-> NoText]]
  /\ previousVersion = [u \in Users |-> NoVersion]
  /\ shown = [u \in Users |-> NoText]
  /\ submits = 0

-----------------------------------------------------------------------------

\* loadDocument of either bean: of a document that is not there the name is
\* taken, and nothing else is.
Load(u, name) ==
  IF documents[name] = {}
  THEN /\ field' = [field EXCEPT ![u].name = name]
       /\ UNCHANGED << previousVersion, shown >>
  ELSE LET document == CurrentHead(documents[name])
       IN  /\ field' = [field EXCEPT ![u] = [name |-> name,
                                             description |-> document.description,
                                             contents |-> document.contents]]
           /\ previousVersion' = [previousVersion EXCEPT ![u] = document.version]
           /\ shown' = [shown EXCEPT ![u] = document.contents]

\* createOrUpdate: what is stored under a name.
Store(name, saved) ==
  /\ submits < MaxSubmits
  /\ submits' = submits + 1
  /\ documents' = [documents EXCEPT ![name] = @ \cup saved.new]
  /\ clock' = clock + Cardinality(saved.new)

SavedAs(name, call) == Save(documents[name], call, clock + 1, clock + 2)

\* DocumentsEditPageBean.editDocument, and a link with a name in it.
EditDocument(u) ==
  /\ \E name \in Names : Load(u, name)
  /\ UNCHANGED << documents, clock, submits >>

\* Mutant: the version stays the one that the form was loaded with.
SubmitAsLoaded(u, name, description, contents) ==
  LET saved   == SavedAs(name, MakeCall(contents, description, previousVersion[u]))
      entered == [name |-> name, description |-> description, contents |-> contents]
  IN  /\ Store(name, saved)
      /\ IF saved = Failed
         THEN /\ field' = [field EXCEPT ![u] = entered]
              /\ UNCHANGED shown
         ELSE /\ field' = [field EXCEPT ![u] = [entered EXCEPT !.contents =
                                                  saved.document.contents]]
              /\ shown' = [shown EXCEPT ![u] = saved.document.contents]
      /\ UNCHANGED previousVersion

\* DocumentsEditPageBean.saveDocument with what was entered in the form.  When the
\* service fails the error page is shown and the bean keeps what was entered.
Submit(u, name, description, contents) ==
  LET saved   == SavedAs(name, MakeCall(contents, description, previousVersion[u]))
      entered == [name |-> name, description |-> description, contents |-> contents]
  IN  /\ Store(name, saved)
      /\ IF saved = Failed
         THEN /\ field' = [field EXCEPT ![u] = entered]
              /\ UNCHANGED << previousVersion, shown >>
         ELSE /\ field' = [field EXCEPT ![u] = [entered EXCEPT !.contents =
                                                  saved.document.contents]]
              /\ previousVersion' = [previousVersion EXCEPT ![u] = saved.document.version]
              /\ shown' = [shown EXCEPT ![u] = saved.document.contents]

\* Name, description and contents may all have been edited.
SaveDocument(u) ==
  \E name \in Names, description \in Descriptions, contents \in Inputs :
    Submit(u, name, description, contents)

\* DocumentCreatePageBean.save: no text, and the version "0".
Create(name, description) ==
  /\ Store(name, SavedAs(name, MakeCall(NoText, description, NoVersion)))
  /\ UNCHANGED << field, previousVersion, shown >>

CreateDocument == \E name \in Names, description \in Descriptions : Create(name, description)

\* DocumentPageBean: the link that opens the page, and its refresh button.  The
\* document need not be there.
OpenListener(u) ==
  /\ \E name \in Names : /\ field[u].name \in {Empty, name}
                         /\ Load(u, name)
  /\ UNCHANGED << documents, clock, submits >>

\* DocumentPageBean.contentsValueChange: previousVersion stays the loaded one.  A
\* page that has found no document has no description, and no row is without one.
ContentsValueChange(u) ==
  /\ field[u].name # Empty
  /\ \E contents \in Inputs \ {field[u].contents} :
       LET saved == IF field[u].description = Empty THEN Failed
                    ELSE SavedAs(field[u].name,
                                 MakeCall(contents, field[u].description, previousVersion[u]))
           now   == IF saved = Failed THEN contents ELSE saved.document.contents
       IN  /\ Store(field[u].name, saved)
           /\ field' = [field EXCEPT ![u].contents = now]
           /\ shown' = [shown EXCEPT ![u] = now]
  /\ UNCHANGED previousVersion

-----------------------------------------------------------------------------

EditorStep(u)   == EditDocument(u) \/ SaveDocument(u)
ListenerStep(u) == OpenListener(u) \/ ContentsValueChange(u)

FormsNext ==
  \/ \E u \in Editors : EditorStep(u)
  \/ \E u \in Listeners : ListenerStep(u)
  \/ CreateDocument

FormsSpec == FormsInit /\ [][FormsNext]_fvars

-----------------------------------------------------------------------------
(* Correctness                                                             *)

\* DocumentManagerBean.java:65-71 for DocumentsEditPageBean.java:111-120, while
\* nobody deletes.  A form may hold the version of one document under the name of
\* another; whatever name is entered then, it changes no document that its version
\* is not one of.  Nor does the create page, whose version "0" is of none.
FormsKeepToTheirDocument ==
  [][\A name \in Names :
       (documents[name] # {} /\ documents'[name] # documents[name]) =>
         /\ ~CreateDocument
         /\ \A u \in Users :
              (SaveDocument(u) \/ (field[u].name = name /\ ContentsValueChange(u))) =>
                FindByNameAndVersion(documents[name], previousVersion[u]) # NoRow]_fvars

\* What a text area shows in a line; below its text there is nothing.
LineOf(text, i) == IF i \in DOMAIN text THEN text[i] ELSE Blank

\* DocumentsEditPageBean.java:139-142.  A user who saves again and again from the
\* same form never undoes what others saved between: of the lines that a document
\* has, a save changes only those that the user has changed in the text the form
\* showed.  (Lines that others have cut off its end do come back with the user's
\* text, SimpleMerger.java:48-54.)
EditsKeepUnseenLines ==
  [][\A u \in Editors, name \in Names, description \in Descriptions, contents \in Inputs :
       (/\ documents[name] # {}
        /\ documents'[name] # documents[name]
        /\ Submit(u, name, description, contents)) =>
          LET before == SplitLines(CurrentHead(documents[name]).contents)
              after  == CurrentHead(documents'[name]).contents
          IN  \A i \in DOMAIN before :
                LineOf(after, i) # before[i]
                  => LineOf(contents, i) # LineOf(shown[u], i)]_fvars
=============================================================================
