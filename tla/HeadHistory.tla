----------------------------- MODULE HeadHistory -----------------------------
(***************************************************************************)
(* What saving a document promises, with no transactions, queries, retries *)
(* or threads: one head, replaced in one step by a version made from the   *)
(* head itself, and everything ever saved kept for later merges.           *)
(***************************************************************************)
EXTENDS SimpleMerger

CONSTANT Descriptions

INSTANCE DocumentStore WITH Contents <- Text

VARIABLES
  head,   \* the current version, NoRow before the first
  saved   \* all versions and drafts

hvars == << head, saved >>

HInit == head = NoRow /\ saved = {}

\* Something new under a version of its own.
Fresh(new) == UniqueKeys(saved \cup new) /\ new \cap saved = {} /\ saved' = saved \cup new

\* The first version.
Begin ==
  /\ head = NoRow
  /\ head' # NoRow
  /\ head'.previousVersion = NoVersion
  /\ Fresh({head'})

\* A version made on top of the head: another text, or another description
\* for the text it has.
Continue ==
  /\ head # NoRow
  /\ head'.previousVersion = head.version
  /\ head'.mergedWith = NoVersion
  /\ head'.description = head.description \/ head'.contents = head.contents
  /\ Fresh({head'})

\* A draft made on top of anything saved, and its merge with the head.
Combine ==
  /\ head # NoRow
  /\ \E draft \in saved' \ saved, base \in saved :
       /\ IsDraft(draft)
       /\ draft.mergedWith = base.version
       /\ base # head
       /\ head'.previousVersion = head.version
       /\ head'.mergedWith = draft.version
       /\ head'.contents = MergedText(base.contents, head.contents, draft.contents)
       /\ Fresh({draft, head'})

HNext == Begin \/ Continue \/ Combine

HSpec == HInit /\ [][HNext]_hvars
=============================================================================
