------------------------------ MODULE StalePages ------------------------------
(***************************************************************************)
(* Pages that stay open while their document is deleted, and perhaps       *)
(* created again under its name: Document.xhtml and DocumentJSF.xhtml with *)
(* DocumentPageBean, both with a Delete button, and the Delete button of   *)
(* DocumentsEdit.xhtml, over the transactions of DocumentManager.          *)
(*                                                                         *)
(* What users type is any text at any time.  EditorPages has how it comes  *)
(* about.                                                                  *)
(***************************************************************************)
EXTENDS DocumentManager

CONSTANTS
  ScriptPages,    \* the callers that are Document.xhtml; the others are DocumentJSF.xhtml
  NoDescription   \* the "" that the script of a page without a document sends

ASSUME StaleAssumption ==
  /\ ScriptPages \subseteq Callers
  /\ Callers \subseteq Deleters
  /\ NoDescription \in Descriptions

VARIABLES
  page,      \* the bean of a page with the currentVersion of its script
  request,   \* what the request of a page is for
  orphan     \* (history) the call has had no row with its version since it began

svars == << vars, page, request, orphan >>

Closed == [loaded |-> NoVersion]

\* What the bean has loaded, and the version the script has come to.
Page == [loaded : Version \cup {NoVersion}, description : Descriptions,
         contents : Text, current : Version \cup {NoVersion}]

\* Every page, request and flag holds what it can.
StaleTypeOK ==
  /\ TypeOK
  /\ page \in [Callers -> Page \cup {Closed}]
  /\ request \in [Callers -> {"none", "script", "form", "delete", "toDelete"}]
  /\ orphan \in [Callers -> BOOLEAN]

StaleInit ==
  /\ Init
  /\ page = [p \in Callers |-> Closed]
  /\ request = [p \in Callers |-> "none"]
  /\ orphan = [p \in Callers |-> FALSE]

-----------------------------------------------------------------------------

\* No row has the version that a call knows.
Unknown(c) == call[c] # NoCall /\ \A r \in rows : r.version # call[c].base

\* What every step does to the history.
Watched == orphan' = [c \in Callers |-> Unknown(c)' /\ (call[c] = NoCall \/ orphan[c])]

\* loadDocument of a new bean that found a document.
PageOf(document) ==
  [loaded |-> document.version, description |-> document.description,
   contents |-> document.contents, current |-> document.version]

\* A new bean that found none keeps its version "0".
PageWithout ==
  [loaded |-> NoVersion, description |-> NoDescription,
   contents |-> << Blank >>, current |-> NoVersion]

\* A page is opened, or loaded again.
Open(p) ==
  /\ pc[p] = "idle" /\ request[p] = "none" /\ doomed[p] = {}
  /\ \/ Heads(rows) = {} /\ page' = [page EXCEPT ![p] = PageWithout]
     \/ \E head \in Heads(rows) : /\ Heads(rows) = {head}
                                  /\ page' = [page EXCEPT ![p] = PageOf(head)]
  /\ UNCHANGED << vars, request >>
  /\ Watched

Sends(p, contents, base, what) ==
  /\ page[p] # Closed /\ request[p] = "none"
  /\ BeginCall(p, [contents |-> contents, description |-> page[p].description, base |-> base])
  /\ request' = [request EXCEPT ![p] = what]
  /\ UNCHANGED page
  /\ Watched

\* contentUpdated: the script sends what is in the text area.
ScriptSaves(p) ==
  /\ p \in ScriptPages
  /\ \E contents \in Inputs : Sends(p, contents, page[p].current, "script")

\* The form is sent with a text that the bean does not have: contentsValueChange,
\* then the action of the button.  (The bean of a page that found no document has
\* null for its description, which no row takes: that request fails.)
FormSaves(p) ==
  /\ page[p].loaded # NoVersion
  /\ \E contents \in Inputs \ {page[p].contents} :
       \/ Sends(p, contents, page[p].loaded, "delete")
       \/ p \notin ScriptPages /\ Sends(p, contents, page[p].loaded, "form")

\* The versions that the script has after an answer: textarea as it was sent, or not.
NextVersions(p) ==
  {response[p].document.version,
   IF response[p].savedVersion # NoVersion THEN response[p].savedVersion ELSE page[p].current}

\* The answer: to a page that has gone since, it means nothing.
AnswerArrives(p) ==
  /\ Notify(p)
  /\ request' = [request EXCEPT ![p] = IF @ = "delete" THEN "toDelete" ELSE "none"]
  /\ IF page[p] = Closed THEN UNCHANGED page
     ELSE IF request[p] = "script"
     THEN \E version \in NextVersions(p) : page' = [page EXCEPT ![p].current = version]
     ELSE page' = [page EXCEPT ![p].contents = response[p].document.contents]
  /\ Watched

\* A step of the request's thread that does not answer.  An exception ends the
\* request, but UserNotFoundException is only shown, and the action follows.
RunsOn(p) ==
  /\ Transacts(p) \/ TransactionFails(p) \/ CallLost(p)
  /\ request' = [request EXCEPT ![p] =
                   IF pc'[p] # "idle" THEN @
                   ELSE IF @ = "delete" /\ outcome'[p] = "refused" THEN "toDelete"
                   ELSE "none"]
  /\ UNCHANGED page
  /\ Watched

\* DocumentPageBean.deleteDocument: at once when the text has not changed, else after
\* it was saved.  DocumentNotFoundException is only shown.  Then the page is left.
PressDelete(p) ==
  /\ page[p] # Closed
  /\ request[p] \in {"none", "script", "toDelete"}
  /\ \/ DeleteFinds(p)
     \/ rows = {} /\ UNCHANGED vars
  /\ page' = [page EXCEPT ![p] = Closed]
  /\ request' = [request EXCEPT ![p] = IF @ = "script" THEN @ ELSE "none"]
  /\ Watched

\* DocumentsEditPageBean.deleteDocument of the name that is selected in the list.
DeleteSelected(d) ==
  /\ d \notin Callers
  /\ DeleteFinds(d)
  /\ UNCHANGED << page, request >>
  /\ Watched

DeleteEnds(d) ==
  /\ DeleteCommits(d) \/ DeleteFails(d)
  /\ UNCHANGED << page, request >>
  /\ Watched

-----------------------------------------------------------------------------

PageStep(p) ==
  Open(p) \/ ScriptSaves(p) \/ FormSaves(p) \/ AnswerArrives(p) \/ RunsOn(p) \/ PressDelete(p)

StaleNext ==
  \/ \E p \in Callers : PageStep(p)
  \/ \E d \in Deleters : DeleteSelected(d) \/ DeleteEnds(d)

StaleSpec == StaleInit /\ [][StaleNext]_svars

-----------------------------------------------------------------------------
(* Correctness                                                             *)

\* DocumentManagerBean.java:65-71 ("unable to find document with name ... while head
\* document exist"), which reads head and version in two queries while deletions
\* (line 166), creations and other saves commit.  A page is open while its document
\* is deleted, or was opened without one, and a document of that name is created by
\* others: the page's save changes no other document's head, and it is answered
\* with nobody's text but its own.  If it commits, it is a first version.
OrphansOnlyCreate ==
  \A c \in Callers : (orphan[c] /\ pc[c] \in {"commit", "notify"}) =>
    LET document == response[c].document
    IN  /\ staged[c] = {document}
        /\ document.previousVersion = NoVersion
        /\ document.contents = call[c].contents
        /\ response[c].savedVersion = document.version
=============================================================================
