----------------------------- MODULE SaveService -----------------------------
(***************************************************************************)
(* What one call of DocumentServiceImpl.createOrUpdate does to the table   *)
(* of one document and what it answers, taken as one step:                 *)
(* DocumentRefinement shows that the concurrent transactions behind it     *)
(* look like this from outside as long as nobody deletes the document.     *)
(* For users who have an account.                                          *)
(***************************************************************************)
EXTENDS SimpleMerger

CONSTANT Descriptions

INSTANCE DocumentStore WITH Contents <- Text

\* What a caller sends: its text, a description and the version it knows.
MakeCall(contents, description, base) ==
  [contents |-> contents, description |-> description, base |-> base]

CurrentHead(rows) == CHOOSE h \in rows : h \in Heads(rows)

MakeRow(version, previousVersion, mergedWith, description, contents) ==
  [version |-> version, previousVersion |-> previousVersion, mergedWith |-> mergedWith,
   description |-> description, contents |-> contents]

\* What a call inserts, which row it returns, and under which version the
\* caller's text is stored.
Effect(new, document, savedVersion) ==
  [new |-> new, document |-> document, savedVersion |-> savedVersion]

\* EJBException after the last attempt.
Failed == Effect({}, NoRow, NoVersion)

-----------------------------------------------------------------------------
(* The versions v and w are generated for the call, v first.               *)

\* There is no such document.
Created(call, v) ==
  LET document == MakeRow(v, NoVersion, NoVersion, call.description, call.contents)
  IN  Effect({document}, document, v)

\* Another description: the caller's text is not saved.
Described(head, call, v) ==
  LET document == MakeRow(v, head.version, NoVersion, call.description, head.contents)
  IN  Effect({document}, document, NoVersion)

\* The caller's text was typed over the head.
SavedOverHead(head, call, v) ==
  LET document == MakeRow(v, head.version, NoVersion, call.description, call.contents)
  IN  Effect({document}, document, v)

\* The caller's text is kept as a draft and merged into the head.
MergedIntoHead(head, previous, call, v, w) ==
  LET draft  == MakeRow(v, v, previous.version, call.description, call.contents)
      merged == MakeRow(w, head.version, v, call.description,
                        MergedText(previous.contents, head.contents, call.contents))
  IN  Effect({draft, merged}, merged, v)

\* The description is no new one.
SavedText(head, previous, call, v, w) ==
  IF head.contents = call.contents THEN Effect({}, head, head.version)
  ELSE IF previous = head THEN SavedOverHead(head, call, v)
  ELSE IF MergeThrows(head.contents, call.contents) THEN Failed
  ELSE IF previous.contents = call.contents THEN Effect({}, head, NoVersion)
  ELSE MergedIntoHead(head, previous, call, v, w)

\* Mutant: a version that is not there is taken for the head.
SaveOverAny(rows, call, v, w) ==
  IF rows = {} THEN Created(call, v)
  ELSE LET head  == CurrentHead(rows)
           found == FindByNameAndVersion(rows, call.base)
       IN  SavedText(head, IF found = NoRow THEN head ELSE found, call, v, w)

Save(rows, call, v, w) ==
  IF rows = {} THEN Created(call, v)
  ELSE LET head     == CurrentHead(rows)
           previous == FindByNameAndVersion(rows, call.base)
       IN  IF previous = NoRow THEN Failed
           ELSE IF call.description \notin {head.description, previous.description}
           THEN Described(head, call, v)
           ELSE SavedText(head, previous, call, v, w)
=============================================================================
