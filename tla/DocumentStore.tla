---------------------------- MODULE DocumentStore ----------------------------
(***************************************************************************)
(* The table behind the JPA entity Document, for one document name: every  *)
(* query and both unique constraints of entity/multieditor/Document.java   *)
(* are keyed by the name, so documents do not touch each other's rows.     *)
(*                                                                         *)
(* A row is immutable once inserted (Document.updateFrom is never called). *)
(* The generated id, the name and the owner of the change are left out.    *)
(***************************************************************************)
EXTENDS Integers

CONSTANTS
  Contents,     \* what a contents column can hold
  Descriptions  \* what a description column can hold

\* No row has this version: the "" that a first row stores and the "0" that
\* a page which has not seen a version yet sends.
NoVersion == 0
Version   == Nat \ {NoVersion}

Row == [version         : Version,
        previousVersion : Version \cup {NoVersion},
        mergedWith      : Version \cup {NoVersion},
        description     : Descriptions,
        contents        : Contents]

\* The null of a query that found nothing.
NoRow == [version |-> NoVersion]

\* Document.FIND_BY_NAME: the rows no row of the document has as its previous one.
Heads(rows) == {r \in rows : \A next \in rows : next.previousVersion # r.version}

\* Document.FIND_BY_NAME_AND_VERSION; null when there is none.
FindByNameAndVersion(rows, version) ==
  IF \E r \in rows : r.version = version
  THEN CHOOSE r \in rows : r.version = version
  ELSE NoRow

\* The unique constraints (name, version) and (name, previousVersion).
SameKey(r, s) == r.version = s.version \/ r.previousVersion = s.previousVersion

UniqueKeys(rows) == \A r, s \in rows : SameKey(r, s) => r = s

\* Mutant: the constraint on (name, previousVersion) is missing.
VersionKeyOnly(rows, new) ==
  \A n \in new : \A r \in rows \cup (new \ {n}) : n.version # r.version

\* The rows can be inserted: no two rows of the result share a key.
Insertable(rows, new) ==
  \A n \in new : \A r \in rows \cup (new \ {n}) : ~SameKey(n, r)

-----------------------------------------------------------------------------

\* A row that is its own previous version: a user's text kept for the merges
\* that start from it, never a head.
IsDraft(r) == r.previousVersion = r.version

Published(rows) == {r \in rows : ~IsDraft(r)}
=============================================================================
