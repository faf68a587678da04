------------------------ MODULE DocumentManagerProofs ------------------------
(***************************************************************************)
(* For any number of threads, texts, retries, any clock skew unless it is  *)
(* said, and any bounds.  Five parts: a document has one head while it is  *)
(* not deleted; what the saves leave in its table; what deletions leave;   *)
(* for the clients of the acceptance test, any number of them with any     *)
(* words, that what they type arrives whatever the service has to try      *)
(* again; and what pages do whose document was deleted.                    *)
(***************************************************************************)
EXTENDS LineTypists, StalePages, DocumentRefinement, SimpleMergerProofs,
        WellFoundedInduction, TLAPS

-----------------------------------------------------------------------------
(* The table                                                               *)

\* Inserting a version on top of a row that is there, and drafts beside it,
\* moves the only head to that version (Document.java:25-26, 35-42).
LEMMA InsertMovesHead ==
  ASSUME NEW S, NEW T, NEW new \in T,
         \A r \in S \cup T : r.version # NoVersion,
         UniqueKeys(S),
         \A r \in S : r.previousVersion \in {p.version : p \in S} \cup {NoVersion},
         S # {} => \E r \in S : r.previousVersion = NoVersion,
         S # {} => \E h \in S : Heads(S) = {h},
         new.previousVersion \in {p.version : p \in S} \cup {NoVersion},
         \A s \in T : s # new => IsDraft(s),
         Insertable(S, T)
  PROVE  Heads(S \cup T) = {new}
<1> USE DEF Insertable, SameKey
<1>1. \A r \in S : r.version # new.version /\ r.previousVersion # new.previousVersion
  <2>1. new \notin S
    OBVIOUS
  <2>2. QED BY <2>1
<1>2. \A s \in T : s # new => s.version # new.version /\ s.previousVersion # new.previousVersion
  OBVIOUS
<1>3. new.previousVersion # new.version
  BY <1>1
<1>4. new \in Heads(S \cup T)
  <2>1. \A r \in S : r.previousVersion # new.version
    BY <1>1
  <2>2. \A s \in T : s.previousVersion # new.version
    BY <1>2, <1>3 DEF IsDraft
  <2>3. QED BY <2>1, <2>2 DEF Heads
<1>5. ASSUME NEW r \in Heads(S \cup T) PROVE r = new
  <2>1. SUFFICES ASSUME r # new PROVE FALSE
    OBVIOUS
  <2>2. r \in S
    BY <1>5, <2>1 DEF Heads, IsDraft
  <2>3. r \in Heads(S)
    BY <1>5, <2>2 DEF Heads
  <2>4. Heads(S) = {r}
    BY <2>2, <2>3
  <2>5. PICK p \in S : p.version = new.previousVersion
    BY <1>1, <2>2
  <2>6. p \in Heads(S)
    BY <1>1, <2>5 DEF Heads
  <2>7. p = r
    BY <2>4, <2>6
  <2>8. QED BY <1>5, <2>5, <2>7 DEF Heads
<1>6. QED BY <1>4, <1>5

\* Inserting what the constraints allow keeps the keys unique.
LEMMA InsertKeepsKeys ==
  ASSUME NEW S, NEW T, UniqueKeys(S), Insertable(S, T)
  PROVE  UniqueKeys(S \cup T)
BY DEF UniqueKeys, Insertable, SameKey

\* The query by version returns a row of that version, or null.
LEMMA FindByNameAndVersionFinds ==
  ASSUME NEW S, NEW v
  PROVE  \/ FindByNameAndVersion(S, v) = NoRow
         \/ /\ FindByNameAndVersion(S, v) \in S
            /\ FindByNameAndVersion(S, v).version = v
BY DEF FindByNameAndVersion

-----------------------------------------------------------------------------
(* Types                                                                   *)

CallerInv == CallerTypeOK /\ AtWork

TypeInv == TypeOK /\ AtWork

\* A call that ends leaves a well-typed thread.
LEMMA EndType ==
  ASSUME CallerInv, NEW c \in Callers,
         NEW how \in {"answered", "refused", "failed", "lost"},
         End(c, how)
  PROVE  CallerInv'
BY ManagerAssumption DEF CallerInv, CallerTypeOK, AtWork, End, Forget

\* So does an attempt that is lost, and its number stays below Retries.
LEMMA RetryType ==
  ASSUME CallerInv, NEW c \in Callers, pc[c] # "idle", Retry(c)
  PROVE  CallerInv'
<1>1. CASE attempt[c] + 1 < Retries
  BY <1>1, ManagerAssumption DEF CallerInv, CallerTypeOK, AtWork, Retry, Forget
<1>2. CASE ~(attempt[c] + 1 < Retries)
  BY <1>2, EndType DEF Retry
<1>3. QED BY <1>1, <1>2

\* And so does a transaction that has found what to insert and to return.
LEMMA StageType ==
  ASSUME CallerInv, NEW c \in Callers, pc[c] # "idle",
         NEW new \in SUBSET Row, NEW doc \in Row,
         NEW savedVersion \in Version \cup {NoVersion},
         Stage(c, new, doc, savedVersion)
  PROVE  CallerInv'
BY DEF CallerInv, CallerTypeOK, AtWork, Stage, Response

\* The rows a transaction works on, and the versions it generates.
LEMMA LookUpType ==
  ASSUME TypeInv, NEW c \in Callers
  PROVE  /\ LookingUp(c) => /\ seen[c] \in Row
                            /\ Previous(c) \in Row
                            /\ call[c] \in Call
                            /\ pc[c] # "idle"
         /\ Readings \subseteq Version
         /\ \A v \in Readings : /\ SecondReadings(v) \subseteq Version
                                /\ Generated(v) \in Nat
                                /\ \A w \in SecondReadings(v) : Generated(w) \in Nat
<1>1. ASSUME LookingUp(c)
      PROVE  /\ seen[c] \in Row /\ Previous(c) \in Row
             /\ call[c] \in Call /\ pc[c] # "idle"
  BY <1>1, FindByNameAndVersionFinds
     DEF TypeInv, TypeOK, CallerTypeOK, AtWork, LookingUp, Previous
<1>2. clock \in Nat
  BY DEF TypeInv, TypeOK
<1>3. Readings \subseteq Version
  BY <1>2, ManagerAssumption DEF Readings, Version, NoVersion
<1>4. ASSUME NEW v \in Readings
      PROVE  /\ SecondReadings(v) \subseteq Version
             /\ Generated(v) \in Nat
             /\ \A w \in SecondReadings(v) : Generated(w) \in Nat
  BY <1>2, <1>3, ManagerAssumption DEF SecondReadings, Generated, Version, NoVersion
<1>5. QED BY <1>1, <1>3, <1>4

\* A step of a saving thread keeps every variable well typed.
LEMMA SavesType ==
  ASSUME TypeInv, NEW c \in Callers, Saves(c)
  PROVE  TypeInv'
<1>1. CallerInv
  BY DEF TypeInv, TypeOK, CallerInv
<1>2. CASE StartCall(c)
  <2>1. PICK contents \in Inputs, description \in Descriptions, base \in GivenOut :
          call' = [call EXCEPT ![c] =
                     [contents |-> contents, description |-> description, base |-> base]]
    BY <1>2 DEF StartCall, BeginCall
  <2>2. GivenOut \subseteq Version \cup {NoVersion}
    BY DEF GivenOut, TypeInv, TypeOK, Row
  <2>3. [contents |-> contents, description |-> description, base |-> base] \in Call
    BY <2>2 DEF Call
  <2>4. CallerInv'
    BY <1>1, <1>2, <2>1, <2>3 DEF StartCall, BeginCall, CallerInv, CallerTypeOK, AtWork
  <2>5. calls' \in 0..MaxCalls
    BY <1>2, ManagerAssumption DEF StartCall, BeginCall, TypeInv, TypeOK
  <2>6. QED BY <1>2, <2>4, <2>5 DEF StartCall, BeginCall, TypeInv, TypeOK, CallerInv
<1>3. CASE FindHead(c)
  <2>1. Heads(rows) \subseteq Row
    BY DEF TypeInv, TypeOK, Heads
  <2>2. seen' \in [Callers -> Row \cup {NoRow}]
    BY <1>1, <1>3, <2>1 DEF FindHead, CallerInv, CallerTypeOK
  <2>3. CallerInv'
    BY <1>1, <1>3, <2>2 DEF FindHead, CallerInv, CallerTypeOK, AtWork
  <2>4. QED BY <1>3, <2>3 DEF FindHead, TypeInv, TypeOK, CallerInv, bounds
<1>4. CASE FindManyHeads(c)
  <2>1. CASE looks[c] + 1 < FindTries
    <3>1. CallerInv'
      BY <1>1, <1>4, <2>1, ManagerAssumption DEF FindManyHeads, CallerInv, CallerTypeOK, AtWork
    <3>2. QED BY <1>4, <3>1 DEF FindManyHeads, TypeInv, TypeOK, CallerInv, bounds
  <2>2. CASE ~(looks[c] + 1 < FindTries)
    <3>1. CallerInv'
      BY <1>1, <1>4, <2>2, RetryType DEF FindManyHeads
    <3>2. QED BY <1>4, <3>1 DEF FindManyHeads, TypeInv, TypeOK, CallerInv, bounds
  <2>3. QED BY <2>1, <2>2
<1>5. CASE RefuseStranger(c) \/ CallLost(c)
  <2>1. CallerInv'
    BY <1>1, <1>5, EndType DEF RefuseStranger, CallLost
  <2>2. faults' \in 0..MaxFaults
    BY <1>5, ManagerAssumption DEF RefuseStranger, CallLost, TypeInv, TypeOK, bounds
  <2>3. QED BY <1>5, <2>1, <2>2 DEF RefuseStranger, CallLost, TypeInv, TypeOK, CallerInv, bounds
<1>6. CASE PreviousNotFound(c) \/ MergerFails(c) \/ RollBack(c) \/ TransactionFails(c)
  <2>1. Retry(c) /\ pc[c] # "idle"
    BY <1>6 DEF PreviousNotFound, MergerFails, RollBack, TransactionFails, NewText, LookingUp
  <2>2. CallerInv'
    BY <1>1, <2>1, RetryType
  <2>3. faults' \in 0..MaxFaults
    BY <1>6, ManagerAssumption
       DEF PreviousNotFound, MergerFails, RollBack, TransactionFails, TypeInv, TypeOK, bounds
  <2>4. QED
    BY <1>6, <2>2, <2>3
       DEF PreviousNotFound, MergerFails, RollBack, TransactionFails, TypeInv, TypeOK, CallerInv, bounds
<1>7. CASE Create(c)
  <2>1. PICK v \in Readings :
          /\ clock' = Generated(v)
          /\ LET doc == [version |-> v, previousVersion |-> NoVersion,
                              mergedWith |-> NoVersion,
                              description |-> call[c].description,
                              contents |-> call[c].contents]
             IN  Stage(c, {doc}, doc, v)
    BY <1>7 DEF Create
  <2> DEFINE doc == [version |-> v, previousVersion |-> NoVersion,
                          mergedWith |-> NoVersion,
                          description |-> call[c].description,
                          contents |-> call[c].contents]
  <2>2. Stage(c, {doc}, doc, v)
    BY <2>1
  <2>3. v \in Version /\ clock' \in Nat
    BY <2>1, LookUpType
  <2>4. doc \in Row
    BY <1>7, <1>1, <2>3, LookUpType, ManagerAssumption
       DEF Create, Row, Call, CallerInv, AtWork, Version, NoVersion
  <2>5. pc[c] # "idle"
    BY <1>7 DEF Create
  <2> HIDE DEF doc
  <2>6. CallerInv'
    BY <1>1, <2>2, <2>3, <2>4, <2>5, StageType
  <2>7. QED BY <2>2, <2>3, <2>6 DEF Stage, TypeInv, TypeOK, CallerInv, bounds
<1>8. CASE ChangeDescription(c)
  <2>1. PICK v \in Readings :
          /\ clock' = Generated(v)
          /\ LET doc == [version |-> v, previousVersion |-> seen[c].version,
                              mergedWith |-> NoVersion,
                              description |-> call[c].description,
                              contents |-> seen[c].contents]
             IN  Stage(c, {doc}, doc, NoVersion)
    BY <1>8 DEF ChangeDescription
  <2> DEFINE doc == [version |-> v, previousVersion |-> seen[c].version,
                          mergedWith |-> NoVersion,
                          description |-> call[c].description,
                          contents |-> seen[c].contents]
  <2>2. Stage(c, {doc}, doc, NoVersion)
    BY <2>1
  <2>3. v \in Version /\ clock' \in Nat
    BY <2>1, LookUpType
  <2>4. doc \in Row
    BY <1>8, <1>1, <2>3, LookUpType, ManagerAssumption
       DEF ChangeDescription, LookingUp, Row, Call, CallerInv, AtWork, Version, NoVersion
  <2>5. pc[c] # "idle"
    BY <1>8 DEF ChangeDescription, LookingUp
  <2> HIDE DEF doc
  <2>6. CallerInv'
    BY <1>1, <2>2, <2>3, <2>4, <2>5, StageType
  <2>7. QED BY <2>2, <2>3, <2>6 DEF Stage, TypeInv, TypeOK, CallerInv, bounds
<1>9. CASE SaveOverHead(c)
  <2>1. PICK v \in Readings :
          /\ clock' = Generated(v)
          /\ LET doc == [version |-> v, previousVersion |-> seen[c].version,
                              mergedWith |-> NoVersion,
                              description |-> call[c].description,
                              contents |-> call[c].contents]
             IN  Stage(c, {doc}, doc, v)
    BY <1>9 DEF SaveOverHead
  <2> DEFINE doc == [version |-> v, previousVersion |-> seen[c].version,
                          mergedWith |-> NoVersion,
                          description |-> call[c].description,
                          contents |-> call[c].contents]
  <2>2. Stage(c, {doc}, doc, v)
    BY <2>1
  <2>3. v \in Version /\ clock' \in Nat
    BY <2>1, LookUpType
  <2>4. doc \in Row
    BY <1>9, <1>1, <2>3, LookUpType, ManagerAssumption
       DEF SaveOverHead, NewText, LookingUp, Row, Call, CallerInv, AtWork, Version, NoVersion
  <2>5. pc[c] # "idle"
    BY <1>9 DEF SaveOverHead, NewText, LookingUp
  <2> HIDE DEF doc
  <2>6. CallerInv'
    BY <1>1, <2>2, <2>3, <2>4, <2>5, StageType
  <2>7. QED BY <2>2, <2>3, <2>6 DEF Stage, TypeInv, TypeOK, CallerInv, bounds
<1>10. CASE SameAsHead(c) \/ Refresh(c)
  <2>1. PICK savedVersion \in {seen[c].version, NoVersion} :
          Stage(c, {}, seen[c], savedVersion) /\ UNCHANGED clock
    BY <1>10 DEF SameAsHead, Refresh
  <2>2. LookingUp(c)
    BY <1>10 DEF SameAsHead, Refresh, NewText
  <2>3. seen[c] \in Row /\ savedVersion \in Version \cup {NoVersion} /\ pc[c] # "idle"
    BY <2>1, <2>2, LookUpType DEF Row
  <2>4. CallerInv'
    BY <1>1, <2>1, <2>3, StageType
  <2>5. QED BY <2>1, <2>4 DEF Stage, TypeInv, TypeOK, CallerInv, bounds
<1>11. CASE MergeIntoHead(c)
  <2> DEFINE draft(v) == [version |-> v, previousVersion |-> v,
                          mergedWith |-> Previous(c).version,
                          description |-> call[c].description,
                          contents |-> call[c].contents]
             merged(v, w) == [version |-> w, previousVersion |-> seen[c].version,
                              mergedWith |-> v,
                              description |-> call[c].description,
                              contents |-> MergedText(Previous(c).contents, seen[c].contents,
                                                      call[c].contents)]
  <2>1. PICK v \in Readings, w \in Version :
          /\ w \in SecondReadings(v)
          /\ clock' = Generated(w)
          /\ Stage(c, {draft(v), merged(v, w)}, merged(v, w), v)
    BY <1>11, LookUpType DEF MergeIntoHead
  <2>2. LookingUp(c) /\ ~MergeThrows(seen[c].contents, call[c].contents)
    BY <1>11 DEF MergeIntoHead, NewText
  <2>3. v \in Version /\ w \in Version /\ clock' \in Nat
    BY <2>1, LookUpType
  <2>4. seen[c] \in Row /\ Previous(c) \in Row /\ call[c] \in Call /\ pc[c] # "idle"
    BY <2>2, LookUpType
  <2>5. MergedText(Previous(c).contents, seen[c].contents, call[c].contents) \in Text
    BY <2>2, <2>4, MergedTextType, ManagerAssumption DEF Row, Call
  <2>6. draft(v) \in Row /\ merged(v, w) \in Row
    BY <2>3, <2>4, <2>5, ManagerAssumption DEF Row, Call
  <2> HIDE DEF draft, merged
  <2>7. CallerInv'
    BY <1>1, <2>1, <2>3, <2>4, <2>6, StageType
  <2>8. QED BY <2>1, <2>3, <2>7 DEF Stage, TypeInv, TypeOK, CallerInv, bounds
<1>12. CASE Commit(c)
  <2>1. (rows \subseteq Row)'
    BY <1>1, <1>12 DEF Commit, TypeInv, TypeOK, CallerInv, CallerTypeOK
  <2>2. CallerInv'
    BY <1>1, <1>12 DEF Commit, CallerInv, CallerTypeOK, AtWork
  <2>3. QED BY <1>12, <2>1, <2>2 DEF Commit, TypeInv, TypeOK, CallerInv, bounds
<1>13. CASE Notify(c)
  <2>1. CallerInv'
    BY <1>1, <1>13, EndType DEF Notify
  <2>2. response[c].document.version \in Version
    BY <1>1, <1>13 DEF Notify, CallerInv, AtWork, Response, Row
  <2>3. QED BY <1>13, <2>1, <2>2 DEF Notify, TypeInv, TypeOK, CallerInv, bounds
<1>14. QED
  BY <1>2, <1>3, <1>4, <1>5, <1>6, <1>7, <1>8, <1>9, <1>10, <1>11, <1>12, <1>13
     DEF Saves, Works, Transacts

\* So does a step of a deleting thread.
LEMMA DeletesType ==
  ASSUME TypeInv, NEW d \in Deleters, Deletes(d)
  PROVE  TypeInv'
<1>1. CallerInv' /\ clock' \in Nat /\ (pushed \subseteq Version)' /\ calls' \in 0..MaxCalls
  BY DEF Deletes, DeleteFinds, DeleteCommits, DeleteFails, caller, bounds,
         TypeInv, TypeOK, CallerInv, CallerTypeOK, AtWork
<1>2. (rows \subseteq Row)' /\ doomed' \in [Deleters -> SUBSET Row]
  BY DEF Deletes, DeleteFinds, DeleteCommits, DeleteFails, TypeInv, TypeOK
<1>3. deletes' \in 0..MaxDeletes /\ faults' \in 0..MaxFaults
  BY ManagerAssumption
     DEF Deletes, DeleteFinds, DeleteCommits, DeleteFails, bounds, TypeInv, TypeOK
<1>4. QED BY <1>1, <1>2, <1>3 DEF TypeInv, TypeOK, CallerInv

LEMMA TypeInvariant == Spec => []TypeInv
<1>1. Init => TypeInv
  BY ManagerAssumption DEF Init, TypeInv, TypeOK, CallerTypeOK, AtWork
<1>2. TypeInv /\ [Next]_vars => TypeInv'
  <2>1. SUFFICES ASSUME TypeInv, [Next]_vars PROVE TypeInv'
    OBVIOUS
  <2>2. ASSUME NEW c \in Callers, Saves(c) PROVE TypeInv'
    BY <2>1, <2>2, SavesType
  <2>3. ASSUME NEW d \in Deleters, Deletes(d) PROVE TypeInv'
    BY <2>1, <2>3, DeletesType
  <2>4. CASE UNCHANGED vars
    BY <2>1, <2>4 DEF vars, caller, bounds, TypeInv, TypeOK, CallerTypeOK, AtWork
  <2>5. QED BY <2>1, <2>2, <2>3, <2>4 DEF Next, UpdateNext
<1>3. QED BY <1>1, <1>2, PTL DEF Spec

\* Every variable keeps its type, with and without deletions: the merger is
\* never asked for a text it cannot build, no loop runs past its limit.
THEOREM TypeCorrect == Spec => []TypeOK
<1>1. TypeInv => TypeOK
  BY DEF TypeInv
<1>2. QED BY <1>1, TypeInvariant, PTL

-----------------------------------------------------------------------------
(* One head                                                                *)

\* What the table alone says in OneHeadInv, and what the threads add.
TableInv  == UniqueKeys(rows) /\ PreviousIsKept /\ OneHead
ThreadInv == SeenIsKept /\ StagedIsHead

\* A thread that only forgets rows, over a table that only grows, remembers
\* nothing that is not there.
LEMMA ForgettingKeepsThreads ==
  ASSUME ThreadInv, rows \subseteq rows',
         \A c \in Callers : /\ seen'[c] \in {seen[c], NoRow}
                            /\ staged'[c] \in {staged[c], {}}
  PROVE  ThreadInv'
<1>1. SeenIsKept'
  BY DEF ThreadInv, SeenIsKept
<1>2. ASSUME NEW c \in Callers, staged'[c] # {}
      PROVE  \E new \in staged'[c] :
               /\ new.previousVersion \in Versions' \cup {NoVersion}
               /\ \A s \in staged'[c] : s # new => IsDraft(s)
  <2>1. staged'[c] = staged[c]
    BY <1>2
  <2>2. Versions \subseteq Versions'
    BY DEF Versions
  <2>3. QED BY <1>2, <2>1, <2>2 DEF ThreadInv, StagedIsHead
<1>3. StagedIsHead'
  BY <1>2 DEF StagedIsHead
<1>4. QED BY <1>1, <1>3 DEF ThreadInv

LEMMA EndForgets ==
  ASSUME TypeInv, NEW c \in Callers, NEW how, End(c, how) \/ Retry(c) \/ Forget(c)
  PROVE  \A x \in Callers : /\ seen'[x] \in {seen[x], NoRow}
                            /\ staged'[x] \in {staged[x], {}}
BY DEF TypeInv, TypeOK, CallerTypeOK, End, Retry, Forget

\* A transaction that stages one version on top of a row that is there, and
\* otherwise drafts, does what the invariant says of transactions.
LEMMA StagingKeepsThreads ==
  ASSUME TypeInv, ThreadInv, NEW c \in Callers,
         NEW new, NEW doc, NEW savedVersion,
         Stage(c, new, doc, savedVersion),
         new # {} => \E n \in new : /\ n.previousVersion \in Versions \cup {NoVersion}
                                    /\ \A s \in new : s # n => IsDraft(s)
  PROVE  ThreadInv'
<1>1. rows' = rows /\ seen' = seen /\ staged' = [staged EXCEPT ![c] = new]
  BY DEF Stage
<1>2. staged \in [Callers -> SUBSET Row]
  BY DEF TypeInv, TypeOK, CallerTypeOK
<1>3. SeenIsKept'
  BY <1>1 DEF ThreadInv, SeenIsKept
<1>4. ASSUME NEW x \in Callers, staged'[x] # {}
      PROVE  \E n \in staged'[x] :
               /\ n.previousVersion \in Versions' \cup {NoVersion}
               /\ \A s \in staged'[x] : s # n => IsDraft(s)
  <2>1. Versions' = Versions
    BY <1>1 DEF Versions
  <2>2. CASE x = c
    BY <1>1, <1>2, <1>4, <2>1, <2>2
  <2>3. CASE x # c
    BY <1>1, <1>2, <1>4, <2>1, <2>3 DEF ThreadInv, StagedIsHead
  <2>4. QED BY <2>2, <2>3
<1>5. StagedIsHead'
  BY <1>4 DEF StagedIsHead
<1>6. QED BY <1>3, <1>5 DEF ThreadInv

\* The commit of a transaction moves the head and keeps the rest of the table.
LEMMA CommitKeepsTable ==
  ASSUME TypeInv, TypeInv', TableInv, ThreadInv, NEW c \in Callers, Commit(c)
  PROVE  TableInv'
<1>1. Insertable(rows, staged[c]) /\ rows' = rows \cup staged[c]
  BY DEF Commit
<1>2. CASE staged[c] = {}
  <2>1. rows' = rows
    BY <1>1, <1>2
  <2>2. QED BY <2>1 DEF TableInv, PreviousIsKept, OneHead, UniqueKeys, Versions, Heads
<1>3. CASE staged[c] # {}
  <2>1. PICK new \in staged[c] : /\ new.previousVersion \in Versions \cup {NoVersion}
                                 /\ \A s \in staged[c] : s # new => IsDraft(s)
    BY <1>3 DEF ThreadInv, StagedIsHead
  <2>2. \A r \in rows' : r.version # NoVersion
    BY DEF TypeInv, TypeOK, Row, Version
  <2>3. Heads(rows') = {new}
    BY <1>1, <2>1, <2>2, InsertMovesHead DEF TableInv, PreviousIsKept, OneHead, Versions
  <2>4. UniqueKeys(rows')
    BY <1>1, InsertKeepsKeys DEF TableInv
  <2>5. \A r \in rows' : r.previousVersion \in Versions' \cup {NoVersion}
    <3>1. Versions \subseteq Versions'
      BY <1>1 DEF Versions
    <3>2. \A r \in rows : r.previousVersion \in Versions' \cup {NoVersion}
      BY <3>1 DEF TableInv, PreviousIsKept
    <3>3. \A s \in staged[c] : s # new => s.previousVersion \in Versions'
      BY <1>1, <2>1 DEF IsDraft, Versions
    <3>4. QED BY <1>1, <2>1, <3>1, <3>2, <3>3
  <2>6. \E r \in rows' : r.previousVersion = NoVersion
    <3>1. CASE rows = {}
      BY <1>1, <2>1, <3>1 DEF Versions
    <3>2. CASE rows # {}
      BY <1>1, <3>2 DEF TableInv, PreviousIsKept
    <3>3. QED BY <3>1, <3>2
  <2>7. new \in rows'
    BY <1>1
  <2>8. QED BY <2>3, <2>4, <2>5, <2>6, <2>7 DEF TableInv, PreviousIsKept, OneHead
<1>4. QED BY <1>2, <1>3

\* One step of a saving thread.
LEMMA SavesKeepHead ==
  ASSUME TypeInv, TypeInv', TableInv, ThreadInv, NEW c \in Callers, Saves(c)
  PROVE  TableInv' /\ ThreadInv'
<1>1. ASSUME rows' = rows PROVE TableInv'
  BY <1>1 DEF TableInv, PreviousIsKept, OneHead, UniqueKeys, Versions, Heads
<1>2. ASSUME LookingUp(c) PROVE seen[c].version \in Versions
  BY <1>2 DEF LookingUp, ThreadInv, SeenIsKept, Versions
<1>3. CASE StartCall(c)
  BY <1>1, <1>3, ForgettingKeepsThreads DEF StartCall, BeginCall
<1>4. CASE FindHead(c)
  <2>1. seen \in [Callers -> Row \cup {NoRow}]
    BY DEF TypeInv, TypeOK, CallerTypeOK
  <2>2. SeenIsKept'
    BY <1>4, <2>1 DEF FindHead, ThreadInv, SeenIsKept, Heads
  <2>3. StagedIsHead'
    BY <1>4 DEF FindHead, ThreadInv, StagedIsHead, Versions
  <2>4. QED BY <1>1, <1>4, <2>2, <2>3 DEF FindHead, ThreadInv
<1>5. CASE FindManyHeads(c) /\ looks[c] + 1 < FindTries
  BY <1>1, <1>5, ForgettingKeepsThreads DEF FindManyHeads
<1>6. CASE \/ FindManyHeads(c) /\ ~(looks[c] + 1 < FindTries)
           \/ RefuseStranger(c) \/ CallLost(c) \/ Notify(c)
           \/ PreviousNotFound(c) \/ MergerFails(c) \/ RollBack(c) \/ TransactionFails(c)
  <2>1. rows' = rows /\ (Retry(c) \/ \E how \in {"refused", "lost", "answered"} : End(c, how))
    BY <1>6 DEF FindManyHeads, RefuseStranger, CallLost, Notify, PreviousNotFound,
                MergerFails, RollBack, TransactionFails
  <2>2. \A x \in Callers : seen'[x] \in {seen[x], NoRow} /\ staged'[x] \in {staged[x], {}}
    BY <2>1, EndForgets
  <2>3. QED BY <1>1, <2>1, <2>2, ForgettingKeepsThreads
<1>7. CASE Create(c)
  <2>1. PICK doc, v : /\ doc.previousVersion = NoVersion
                           /\ Stage(c, {doc}, doc, v)
    BY <1>7 DEF Create
  <2>2. ThreadInv'
    BY <2>1, StagingKeepsThreads
  <2>3. QED BY <1>1, <2>1, <2>2 DEF Stage
<1>8. CASE ChangeDescription(c) \/ SaveOverHead(c)
  <2>1. LookingUp(c)
    BY <1>8 DEF ChangeDescription, SaveOverHead, NewText
  <2>2. PICK doc, v : /\ doc.previousVersion = seen[c].version
                           /\ Stage(c, {doc}, doc, v)
    BY <1>8 DEF ChangeDescription, SaveOverHead
  <2>3. ThreadInv'
    BY <1>2, <2>1, <2>2, StagingKeepsThreads
  <2>4. QED BY <1>1, <2>2, <2>3 DEF Stage
<1>9. CASE SameAsHead(c) \/ Refresh(c)
  <2>1. PICK savedVersion : Stage(c, {}, seen[c], savedVersion)
    BY <1>9 DEF SameAsHead, Refresh
  <2>2. ThreadInv'
    BY <2>1, StagingKeepsThreads
  <2>3. QED BY <1>1, <2>1, <2>2 DEF Stage
<1>10. CASE MergeIntoHead(c)
  <2>1. LookingUp(c)
    BY <1>10 DEF MergeIntoHead, NewText
  <2>2. PICK draft, merged, v : /\ IsDraft(draft)
                                /\ merged.previousVersion = seen[c].version
                                /\ Stage(c, {draft, merged}, merged, v)
    BY <1>10 DEF MergeIntoHead, IsDraft
  <2>3. ThreadInv'
    BY <1>2, <2>1, <2>2, StagingKeepsThreads
  <2>4. QED BY <1>1, <2>2, <2>3 DEF Stage
<1>11. CASE Commit(c)
  <2>1. TableInv'
    BY <1>11, CommitKeepsTable
  <2>2. ThreadInv'
    BY <1>11, ForgettingKeepsThreads DEF Commit
  <2>3. QED BY <2>1, <2>2
<1>12. QED
  BY <1>3, <1>4, <1>5, <1>6, <1>7, <1>8, <1>9, <1>10, <1>11 DEF Saves, Works, Transacts

LEMMA OneHeadFirst == Init => OneHeadInv
<1>1. SUFFICES ASSUME Init PROVE OneHeadInv
  OBVIOUS
<1>2. TypeOK /\ AtWork
  BY <1>1, ManagerAssumption DEF Init, TypeOK, CallerTypeOK, AtWork
<1>3. TableInv
  BY <1>1 DEF Init, TableInv, UniqueKeys, PreviousIsKept, OneHead
<1>4. ThreadInv
  BY <1>1 DEF Init, ThreadInv, SeenIsKept, StagedIsHead
<1>5. QED BY <1>2, <1>3, <1>4 DEF OneHeadInv, TableInv, ThreadInv

LEMMA OneHeadStep == OneHeadInv /\ [UpdateNext]_vars => OneHeadInv'
<1>1. SUFFICES ASSUME OneHeadInv, [UpdateNext]_vars PROVE OneHeadInv'
  OBVIOUS
<1>2. TypeInv /\ TableInv /\ ThreadInv
  BY <1>1 DEF OneHeadInv, TypeInv, TableInv, ThreadInv
<1>3. ASSUME NEW c \in Callers, Saves(c) PROVE OneHeadInv'
  <2>1. TypeInv'
    BY <1>2, <1>3, SavesType
  <2>2. TableInv' /\ ThreadInv'
    BY <1>2, <1>3, <2>1, SavesKeepHead
  <2>3. QED BY <2>1, <2>2 DEF OneHeadInv, TypeInv, TableInv, ThreadInv
<1>4. CASE UNCHANGED vars
  BY <1>1, <1>4 DEF vars, caller, bounds, OneHeadInv, TypeOK, CallerTypeOK, AtWork,
     UniqueKeys, PreviousIsKept, OneHead, SeenIsKept, StagedIsHead, Versions, Heads
<1>5. QED BY <1>1, <1>3, <1>4 DEF UpdateNext

\* The invariant of OneHeadInv is inductive while nothing is deleted.
THEOREM OneHeadInductive == UpdateSpec => []OneHeadInv
BY OneHeadFirst, OneHeadStep, PTL DEF UpdateSpec

\* README.txt:79: however many saves run at once, fail, are retried or die, and
\* however far the clocks are apart, a document has exactly one head.
THEOREM OneHeadAlways == UpdateSpec => []OneHead
<1>1. OneHeadInv => OneHead
  BY DEF OneHeadInv
<1>2. QED BY <1>1, OneHeadInductive, PTL

-----------------------------------------------------------------------------
(***************************************************************************)
(* What the saves of a document leave in its table: merges of the texts    *)
(* they name, answers that are committed, and, from one step to the next,  *)
(* the atomic saves of HeadHistory.                                        *)
(***************************************************************************)

(* What a transaction stages                                               *)

\* A row that is saved as it is: the first one, or one over the head h.
MadeFirst(new, doc) ==
  /\ new = {doc}
  /\ doc.previousVersion = NoVersion
  /\ doc.mergedWith = NoVersion

MadeOver(h, new, doc) ==
  /\ new = {doc}
  /\ doc.previousVersion = h.version
  /\ doc.mergedWith = NoVersion
  /\ doc.description = h.description \/ doc.contents = h.contents

\* A draft over base and its merge with the head h.
MadeByMerge(h, base, new, doc) ==
  /\ base # h
  /\ \E draft \in new :
       /\ new = {draft, doc}
       /\ IsDraft(draft)
       /\ draft.version < doc.version
       /\ draft.mergedWith = base.version
       /\ doc.previousVersion = h.version
       /\ doc.mergedWith = draft.version
       /\ doc.contents = MergedText(base.contents, h.contents, draft.contents)

\* What is staged and returned was made from the rows in S.
MadeFrom(S, new, doc) ==
  \/ new = {} /\ doc \in S
  \/ MadeFirst(new, doc)
  \/ \E h \in S : MadeOver(h, new, doc)
  \/ \E h, base \in S : MadeByMerge(h, base, new, doc)

\* Under the version that is reported as saved stands the caller's text.
KeepsText(c, new, doc, savedVersion) ==
  savedVersion # NoVersion =>
    \E r \in new \cup {doc} : /\ r.version = savedVersion
                                   /\ r.contents = call[c].contents

Stages(c) ==
  \/ Create(c) \/ ChangeDescription(c) \/ SameAsHead(c)
  \/ SaveOverHead(c) \/ Refresh(c) \/ MergeIntoHead(c)

Known(c) == {seen[c], Previous(c)} \ {NoRow}

\* The versions a staging transaction takes are its own, and older than one generated
\* before by less than the clocks are apart (DocumentControllerBean.java:83-96).
TakesVersions(new) ==
  /\ clock <= clock'
  /\ \A r \in new : r.version <= clock' /\ clock < r.version + ClockSkew

\* A reading is newer than the newest version, but for the difference of the clocks.
LEMMA ReadingsAreNew ==
  ASSUME TypeInv, NEW v \in Readings
  PROVE  /\ v \in Nat /\ v # NoVersion
         /\ clock <= Generated(v) /\ v <= Generated(v)
         /\ clock < v + ClockSkew
         /\ \A w \in SecondReadings(v) : /\ w \in Nat /\ w # NoVersion
                                         /\ v < w /\ clock <= Generated(w) /\ w <= Generated(w)
                                         /\ clock < w + ClockSkew
BY ManagerAssumption DEF Readings, SecondReadings, Generated, TypeInv, TypeOK, NoVersion

\* DocumentManagerBean.java:46-149: whichever branch a transaction takes, it
\* stages rows made from the two it has read, and the caller's text if it
\* reports it as saved.
LEMMA StagesMakeRows ==
  ASSUME TypeInv, NEW c \in Callers, Stages(c)
  PROVE  \E new, doc, savedVersion :
           /\ Stage(c, new, doc, savedVersion)
           /\ MadeFrom(Known(c), new, doc)
           /\ new = {} => doc = seen[c]
           /\ KeepsText(c, new, doc, savedVersion)
           /\ TakesVersions(new)
           /\ pc[c] = "lookUp"
<1>1. CASE Create(c)
  <2>1. PICK v \in Readings :
          /\ clock' = Generated(v)
          /\ LET doc == [version |-> v, previousVersion |-> NoVersion,
                              mergedWith |-> NoVersion,
                              description |-> call[c].description,
                              contents |-> call[c].contents]
             IN  Stage(c, {doc}, doc, v)
    BY <1>1 DEF Create
  <2> DEFINE doc == [version |-> v, previousVersion |-> NoVersion,
                          mergedWith |-> NoVersion,
                          description |-> call[c].description,
                          contents |-> call[c].contents]
  <2>2. Stage(c, {doc}, doc, v)
    BY <2>1
  <2>3. MadeFrom(Known(c), {doc}, doc)
    BY DEF MadeFrom, MadeFirst
  <2>4. KeepsText(c, {doc}, doc, v)
    BY DEF KeepsText
  <2>5. TakesVersions({doc})
    BY <2>1, ReadingsAreNew DEF TakesVersions
  <2> HIDE DEF doc
  <2>6. QED BY <1>1, <2>2, <2>3, <2>4, <2>5 DEF Create
<1>2. CASE ChangeDescription(c)
  <2>1. PICK v \in Readings :
          /\ clock' = Generated(v)
          /\ LET doc == [version |-> v, previousVersion |-> seen[c].version,
                              mergedWith |-> NoVersion,
                              description |-> call[c].description,
                              contents |-> seen[c].contents]
             IN  Stage(c, {doc}, doc, NoVersion)
    BY <1>2 DEF ChangeDescription
  <2> DEFINE doc == [version |-> v, previousVersion |-> seen[c].version,
                          mergedWith |-> NoVersion,
                          description |-> call[c].description,
                          contents |-> seen[c].contents]
  <2>2. Stage(c, {doc}, doc, NoVersion)
    BY <2>1
  <2>3. seen[c] \in Known(c) /\ pc[c] = "lookUp"
    BY <1>2 DEF ChangeDescription, LookingUp, Known
  <2>4. MadeFrom(Known(c), {doc}, doc)
    BY <2>3 DEF MadeFrom, MadeOver
  <2>5. KeepsText(c, {doc}, doc, NoVersion)
    BY DEF KeepsText
  <2>6. TakesVersions({doc})
    BY <2>1, ReadingsAreNew DEF TakesVersions
  <2> HIDE DEF doc
  <2>7. QED BY <2>2, <2>3, <2>4, <2>5, <2>6
<1>3. CASE SameAsHead(c) \/ Refresh(c)
  <2>1. PICK savedVersion \in {seen[c].version, NoVersion} :
          /\ Stage(c, {}, seen[c], savedVersion)
          /\ UNCHANGED clock
          /\ savedVersion # NoVersion => seen[c].contents = call[c].contents
    BY <1>3 DEF SameAsHead, Refresh
  <2>2. seen[c] \in Known(c) /\ pc[c] = "lookUp"
    BY <1>3 DEF SameAsHead, Refresh, NewText, LookingUp, Known
  <2>3. MadeFrom(Known(c), {}, seen[c])
    BY <2>2 DEF MadeFrom
  <2>4. KeepsText(c, {}, seen[c], savedVersion)
    BY <2>1 DEF KeepsText
  <2>5. TakesVersions({})
    BY <2>1 DEF TakesVersions, TypeInv, TypeOK
  <2>6. QED BY <2>1, <2>2, <2>3, <2>4, <2>5
<1>4. CASE SaveOverHead(c)
  <2>1. PICK v \in Readings :
          /\ clock' = Generated(v)
          /\ LET doc == [version |-> v, previousVersion |-> seen[c].version,
                              mergedWith |-> NoVersion,
                              description |-> call[c].description,
                              contents |-> call[c].contents]
             IN  Stage(c, {doc}, doc, v)
    BY <1>4 DEF SaveOverHead
  <2> DEFINE doc == [version |-> v, previousVersion |-> seen[c].version,
                          mergedWith |-> NoVersion,
                          description |-> call[c].description,
                          contents |-> call[c].contents]
  <2>2. Stage(c, {doc}, doc, v)
    BY <2>1
  <2>3. seen[c] \in Known(c) /\ pc[c] = "lookUp" /\ call[c].description = seen[c].description
    BY <1>4 DEF SaveOverHead, NewText, NewDescription, LookingUp, Known
  <2>4. MadeFrom(Known(c), {doc}, doc)
    BY <2>3 DEF MadeFrom, MadeOver
  <2>5. KeepsText(c, {doc}, doc, v)
    BY DEF KeepsText
  <2>6. TakesVersions({doc})
    BY <2>1, ReadingsAreNew DEF TakesVersions
  <2> HIDE DEF doc
  <2>7. QED BY <2>2, <2>3, <2>4, <2>5, <2>6
<1>5. CASE MergeIntoHead(c)
  <2> DEFINE draft(v) == [version |-> v, previousVersion |-> v,
                          mergedWith |-> Previous(c).version,
                          description |-> call[c].description,
                          contents |-> call[c].contents]
             merged(v, w) == [version |-> w, previousVersion |-> seen[c].version,
                              mergedWith |-> v,
                              description |-> call[c].description,
                              contents |-> MergedText(Previous(c).contents, seen[c].contents,
                                                      call[c].contents)]
  <2>1. PICK v \in Readings, w \in Version :
          /\ w \in SecondReadings(v)
          /\ clock' = Generated(w)
          /\ Stage(c, {draft(v), merged(v, w)}, merged(v, w), v)
    BY <1>5, LookUpType DEF MergeIntoHead
  <2>2. /\ seen[c] \in Known(c) /\ Previous(c) \in Known(c) /\ Previous(c) # seen[c]
        /\ pc[c] = "lookUp"
    BY <1>5 DEF MergeIntoHead, NewText, LookingUp, Known
  <2>3. /\ v \in Nat /\ w \in Nat /\ v < w /\ v <= clock' /\ w <= clock' /\ clock <= clock'
        /\ clock < v + ClockSkew /\ clock < w + ClockSkew
    BY <2>1, ReadingsAreNew DEF Generated, TypeInv, TypeOK
  <2>4. MadeByMerge(seen[c], Previous(c), {draft(v), merged(v, w)}, merged(v, w))
    BY <2>2, <2>3 DEF MadeByMerge, IsDraft
  <2>5. KeepsText(c, {draft(v), merged(v, w)}, merged(v, w), v)
    BY DEF KeepsText
  <2>6. TakesVersions({draft(v), merged(v, w)})
    BY <2>3 DEF TakesVersions
  <2> HIDE DEF draft, merged
  <2>7. QED BY <2>1, <2>2, <2>4, <2>5, <2>6 DEF MadeFrom
<1>6. QED BY <1>1, <1>2, <1>3, <1>4, <1>5 DEF Stages

-----------------------------------------------------------------------------
(* The steps of a saving thread                                            *)

\* A transaction is given up or has been announced: nothing of it stays.
Leaves(c) ==
  \/ FindManyHeads(c) \/ RefuseStranger(c) \/ CallLost(c) \/ Notify(c)
  \/ PreviousNotFound(c) \/ MergerFails(c) \/ RollBack(c) \/ TransactionFails(c)

\* Every step of a saving thread is one of these.
LEMMA SavesSteps ==
  ASSUME NEW c, Saves(c)
  PROVE  StartCall(c) \/ FindHead(c) \/ Stages(c) \/ Commit(c) \/ Leaves(c)
BY DEF Saves, Works, Transacts, Stages, Leaves

\* No other thread is touched by a step of c.
OthersStay(c) ==
  \A x \in Callers \ {c} : /\ pc'[x] = pc[x] /\ call'[x] = call[x]
                           /\ seen'[x] = seen[x] /\ staged'[x] = staged[x]
                           /\ response'[x] = response[x]

\* Such a step forgets what the thread has read and leaves the table alone.
LEMMA LeavesForgets ==
  ASSUME TypeInv, NEW c \in Callers, Leaves(c)
  PROVE  /\ rows' = rows /\ clock' = clock
         /\ Notify(c) \/ pushed' = pushed
         /\ OthersStay(c)
         /\ pc'[c] \in {"find", "idle"}
         /\ pc'[c] # "idle" => pc[c] # "idle" /\ call'[c] = call[c]
         /\ seen'[c] \in {seen[c], NoRow}
<1>1. CASE FindManyHeads(c) /\ looks[c] + 1 < FindTries
  BY <1>1 DEF FindManyHeads, OthersStay
<1>2. CASE ~(FindManyHeads(c) /\ looks[c] + 1 < FindTries)
  <2>1. /\ rows' = rows /\ clock' = clock
        /\ Notify(c) \/ pushed' = pushed
        /\ pc[c] # "idle"
        /\ Retry(c) \/ \E how \in {"refused", "lost", "answered"} : End(c, how)
    BY <1>2 DEF Leaves, FindManyHeads, RefuseStranger, CallLost, Notify, PreviousNotFound,
                MergerFails, RollBack, TransactionFails, NewText, LookingUp
  <2>2. Forget(c) /\ (\/ pc' = [pc EXCEPT ![c] = "find"] /\ call' = call
                      \/ \E how : End(c, how))
    BY <2>1 DEF Retry, End
  <2>3. pc \in [Callers -> {"idle", "find", "lookUp", "commit", "notify"}]
        /\ call \in [Callers -> Call \cup {NoCall}]
        /\ seen \in [Callers -> Row \cup {NoRow}]
        /\ staged \in [Callers -> SUBSET Row]
        /\ response \in [Callers -> Response \cup {NoResponse}]
    BY DEF TypeInv, TypeOK, CallerTypeOK
  <2>4. QED BY <2>1, <2>2, <2>3 DEF Forget, End, OthersStay
<1>3. QED BY <1>1, <1>2

\* Staging touches nothing but what the thread will insert and return.
LEMMA StageTouches ==
  ASSUME TypeInv, NEW c \in Callers, NEW new, NEW doc, NEW savedVersion,
         Stage(c, new, doc, savedVersion)
  PROVE  /\ rows' = rows /\ pushed' = pushed /\ seen' = seen /\ call' = call
         /\ OthersStay(c)
         /\ pc'[c] = "commit" /\ staged'[c] = new
         /\ response'[c] = [document |-> doc, savedVersion |-> savedVersion]
BY DEF Stage, OthersStay, TypeInv, TypeOK, CallerTypeOK

-----------------------------------------------------------------------------
(* Merges and answers                                                      *)

\* A head is not a draft, so what a thread has read as the head is not.
SeenIsPublished == \A c \in Callers : seen[c] # NoRow => ~IsDraft(seen[c])

\* Until it commits, a transaction's rows are made from rows of the table.
StagedIsMade ==
  \A c \in Callers : pc[c] = "commit" =>
    /\ MadeFrom(rows, staged[c], response[c].document)
    /\ staged[c] = {} => ~IsDraft(response[c].document)
    /\ KeepsText(c, staged[c], response[c].document, response[c].savedVersion)

WorkInv == SeenIsPublished /\ StagedIsMade

HistoryInv == OneHeadInv /\ WorkInv /\ MergesAreFaithful /\ AnswersAreCommitted

\* More rows to start from change nothing.
LEMMA MadeFromMore ==
  ASSUME NEW S, NEW T, S \subseteq T, NEW new, NEW doc, MadeFrom(S, new, doc)
  PROVE  MadeFrom(T, new, doc)
BY DEF MadeFrom

\* What a transaction has read is in the table.
LEMMA KnownIsKept ==
  ASSUME SeenIsKept, NEW c \in Callers
  PROVE  Known(c) \subseteq rows
BY FindByNameAndVersionFinds DEF SeenIsKept, Known, Previous

\* The rows a commit adds: one version, and the draft of a merge beside it.
LEMMA CommitAdds ==
  ASSUME OneHeadInv, WorkInv, NEW c \in Callers, Commit(c), staged[c] # {}
  PROVE  LET doc == response[c].document
         IN  /\ doc \in staged[c]
             /\ ~IsDraft(doc)
             /\ \A s \in staged[c] : s # doc => IsDraft(s)
             /\ \A s \in staged[c] : /\ s.version \notin Versions
                                     /\ s.version # NoVersion
             /\ Published(rows') = Published(rows) \cup {doc}
             /\ rows' \ Published(rows') =
                  (rows \ Published(rows)) \cup (staged[c] \ {doc})
<1> DEFINE doc == response[c].document
<1>1. /\ rows' = rows \cup staged[c] /\ Insertable(rows, staged[c])
      /\ MadeFrom(rows, staged[c], doc)
      /\ staged[c] \subseteq Row
  BY DEF Commit, WorkInv, StagedIsMade, OneHeadInv, TypeOK, CallerTypeOK
<1>2. /\ doc \in staged[c]
      /\ \A s \in staged[c] : s # doc => IsDraft(s)
      /\ doc.previousVersion \in Versions \cup {NoVersion}
  <2> HIDE DEF doc
  <2>1. CASE MadeFirst(staged[c], doc)
    BY <2>1 DEF MadeFirst
  <2>2. ASSUME NEW h \in rows, MadeOver(h, staged[c], doc) PROVE <1>2!:
    BY <2>2 DEF MadeOver, Versions
  <2>3. ASSUME NEW h \in rows, NEW base \in rows, MadeByMerge(h, base, staged[c], doc)
        PROVE <1>2!:
    BY <2>3 DEF MadeByMerge, Versions
  <2>4. QED BY <1>1, <2>1, <2>2, <2>3 DEF MadeFrom
<1>3. \A s \in staged[c] : s.version \notin Versions /\ s.version # NoVersion
  <2>1. \A s \in staged[c] : s.version # NoVersion
    BY <1>1 DEF Row, Version
  <2>2. \A s \in staged[c], r \in rows : s.version # r.version
    BY <1>1 DEF Insertable, SameKey
  <2>3. QED BY <2>1, <2>2 DEF Versions
<1>4. ~IsDraft(doc)
  BY <1>2, <1>3 DEF IsDraft
<1> HIDE DEF doc
<1>5. \A s \in staged[c] : s \notin rows
  BY <1>3 DEF Versions
<1>6. Published(rows') = Published(rows) \cup {doc}
  BY <1>1, <1>2, <1>4 DEF Published
<1>7. rows' \ Published(rows') = (rows \ Published(rows)) \cup (staged[c] \ {doc})
  BY <1>1, <1>2, <1>4, <1>5, <1>6 DEF Published
<1>8. QED BY <1>2, <1>3, <1>4, <1>6, <1>7 DEF doc

\* What a thread stages stays made from rows of the table until it commits.
LEMMA SavesKeepWork ==
  ASSUME OneHeadInv, WorkInv, NEW c \in Callers, Saves(c)
  PROVE  WorkInv'
<1> DEFINE Made(x) ==
      /\ MadeFrom(rows, staged[x], response[x].document)
      /\ staged[x] = {} => ~IsDraft(response[x].document)
      /\ KeepsText(x, staged[x], response[x].document, response[x].savedVersion)
<1>1. TypeInv /\ SeenIsKept /\ rows \subseteq rows'
  <2>1. TypeInv /\ SeenIsKept
    BY DEF OneHeadInv, TypeInv
  <2>2. CASE Stages(c)
    BY <2>1, <2>2, StagesMakeRows DEF Stage
  <2>3. CASE Leaves(c)
    BY <2>1, <2>3, LeavesForgets
  <2>4. CASE StartCall(c) \/ FindHead(c)
    BY <2>1, <2>4 DEF StartCall, BeginCall, FindHead
  <2>5. CASE Commit(c)
    BY <2>1, <2>5 DEF Commit
  <2>6. QED BY <2>1, <2>2, <2>3, <2>4, <2>5, SavesSteps
\* The other threads.
<1>2. OthersStay(c)
  <2>1. CASE Stages(c)
    BY <1>1, <2>1, StagesMakeRows, StageTouches
  <2>2. CASE StartCall(c) \/ FindHead(c) \/ Commit(c)
    BY <1>1, <2>2 DEF StartCall, BeginCall, FindHead, Commit, OthersStay,
       TypeInv, TypeOK, CallerTypeOK
  <2>3. CASE Leaves(c)
    BY <1>1, <2>3, LeavesForgets
  <2>4. QED BY <2>1, <2>2, <2>3, SavesSteps
<1>3. ASSUME NEW x \in Callers \ {c}, pc'[x] = "commit"
      PROVE  Made(x)'
  <2>1. Made(x)
    BY <1>2, <1>3 DEF OthersStay, WorkInv, StagedIsMade
  <2>2. MadeFrom(rows', staged[x], response[x].document)
    BY <1>1, <2>1, MadeFromMore
  <2>3. QED BY <1>2, <2>1, <2>2 DEF OthersStay, KeepsText
<1>4. ASSUME pc'[c] # "commit", seen'[c] # NoRow => ~IsDraft(seen'[c])
      PROVE  WorkInv'
  BY <1>2, <1>3, <1>4 DEF OthersStay, WorkInv, SeenIsPublished, StagedIsMade
\* The thread that takes the step.
<1>5. CASE StartCall(c)
  BY <1>1, <1>4, <1>5 DEF StartCall, BeginCall, TypeInv, TypeOK, CallerTypeOK,
     WorkInv, SeenIsPublished
<1>6. CASE FindHead(c)
  <2>1. pc'[c] = "lookUp" /\ (seen'[c] # NoRow => seen'[c] \in Heads(rows))
    BY <1>1, <1>6 DEF FindHead, TypeInv, TypeOK, CallerTypeOK
  <2>2. \A h \in Heads(rows) : ~IsDraft(h)
    BY DEF Heads, IsDraft
  <2>3. QED BY <1>4, <2>1, <2>2
<1>7. CASE Stages(c)
  <2>1. PICK new, doc, savedVersion :
          /\ Stage(c, new, doc, savedVersion)
          /\ MadeFrom(Known(c), new, doc)
          /\ new = {} => doc = seen[c]
          /\ KeepsText(c, new, doc, savedVersion)
    BY <1>1, <1>7, StagesMakeRows
  <2>2. /\ rows' = rows /\ seen' = seen /\ call' = call
        /\ staged'[c] = new
        /\ response'[c] = [document |-> doc, savedVersion |-> savedVersion]
    BY <1>1, <2>1, StageTouches
  <2>3. MadeFrom(rows, new, doc)
    BY <1>1, <2>1, KnownIsKept, MadeFromMore
  <2>4. new = {} => ~IsDraft(doc)
    BY <1>1, <2>1, KnownIsKept DEF MadeFrom, MadeFirst, MadeOver, MadeByMerge, Known,
       WorkInv, SeenIsPublished
  <2>5. KeepsText(c, new, doc, savedVersion)'
    BY <2>1, <2>2 DEF KeepsText
  <2>6. Made(c)'
    BY <2>2, <2>3, <2>4, <2>5 DEF KeepsText
  <2>7. QED BY <1>3, <2>2, <2>6 DEF WorkInv, SeenIsPublished, StagedIsMade
<1>8. CASE Commit(c)
  BY <1>1, <1>4, <1>8 DEF Commit, TypeInv, TypeOK, CallerTypeOK, WorkInv, SeenIsPublished
<1>9. CASE Leaves(c)
  BY <1>1, <1>4, <1>9, LeavesForgets DEF WorkInv, SeenIsPublished
<1>10. QED BY <1>5, <1>6, <1>7, <1>8, <1>9, SavesSteps

\* A commit keeps every merge faithful: the rows it was made from are still
\* there, and no earlier merge has taken the draft it adds.
LEMMA CommitKeepsMerges ==
  ASSUME OneHeadInv, WorkInv, MergesAreFaithful, NEW c \in Callers, Commit(c)
  PROVE  MergesAreFaithful'
<1>1. rows' = rows \cup staged[c] /\ \A r \in rows : r.version \in Versions /\ r.version # NoVersion
  BY DEF Commit, OneHeadInv, TypeOK, Row, Version, Versions
<1>2. CASE staged[c] = {}
  <2>1. rows' = rows
    BY <1>1, <1>2
  <2>2. QED BY <2>1 DEF MergesAreFaithful, Published
<1>3. CASE staged[c] # {}
  <2> DEFINE doc == response[c].document
             Faithful(S, m) ==
               \E draft, base, previous \in S :
                 /\ IsDraft(draft)
                 /\ draft.version = m.mergedWith
                 /\ base.version = draft.mergedWith
                 /\ previous.version = m.previousVersion
                 /\ m.contents = MergedText(base.contents, previous.contents, draft.contents)
             MergesOf(r) == {n \in Published(rows) : n.mergedWith = r.version}
             MergesOfAfter(r) == {n \in Published(rows') : n.mergedWith = r.version}
  <2>1. /\ doc \in staged[c]
        /\ ~IsDraft(doc)
        /\ \A s \in staged[c] : s # doc => IsDraft(s)
        /\ \A s \in staged[c] : s.version \notin Versions /\ s.version # NoVersion
        /\ Published(rows') = Published(rows) \cup {doc}
        /\ rows' \ Published(rows') = (rows \ Published(rows)) \cup (staged[c] \ {doc})
    BY <1>3, CommitAdds
  <2>2. MadeFrom(rows, staged[c], doc)
    BY DEF WorkInv, StagedIsMade, Commit
  <2>3. \A m \in Published(rows) : m.mergedWith # NoVersion => Faithful(rows, m)
    BY DEF MergesAreFaithful
  <2>4. \A r \in rows \ Published(rows) : \E m \in Published(rows) : MergesOf(r) = {m}
    BY DEF MergesAreFaithful
  <2> HIDE DEF doc
  <2>5. \A m \in Published(rows) : m.mergedWith \in Versions \cup {NoVersion}
    BY <1>1, <2>3
  <2>6. CASE doc.mergedWith = NoVersion /\ staged[c] = {doc}
    <3>1. \A m \in Published(rows') : m.mergedWith # NoVersion => Faithful(rows', m)
      BY <1>1, <2>1, <2>3, <2>6
    <3>2. ASSUME NEW r \in rows' \ Published(rows')
          PROVE  \E m \in Published(rows') : MergesOfAfter(r) = {m}
      <4>1. r \in rows \ Published(rows) /\ r.version # NoVersion
        BY <1>1, <2>1, <2>6, <3>2
      <4>2. MergesOfAfter(r) = MergesOf(r)
        BY <2>1, <2>6, <4>1
      <4>3. QED BY <2>1, <2>4, <4>1, <4>2
    <3>3. QED BY <3>1, <3>2 DEF MergesAreFaithful
  <2>7. ASSUME NEW h \in rows, NEW base \in rows, MadeByMerge(h, base, staged[c], doc)
        PROVE  MergesAreFaithful'
    <3>1. PICK draft \in staged[c] :
            /\ staged[c] = {draft, doc}
            /\ IsDraft(draft)
            /\ draft.mergedWith = base.version
            /\ doc.previousVersion = h.version
            /\ doc.mergedWith = draft.version
            /\ doc.contents = MergedText(base.contents, h.contents, draft.contents)
      BY <2>7 DEF MadeByMerge
    <3>2. Faithful(rows', doc)
      BY <1>1, <3>1
    <3>3. \A m \in Published(rows') : m.mergedWith # NoVersion => Faithful(rows', m)
      BY <1>1, <2>1, <2>3, <3>2
    <3>4. ASSUME NEW r \in rows' \ Published(rows')
          PROVE  \E m \in Published(rows') : MergesOfAfter(r) = {m}
      <4>1. CASE r \in rows \ Published(rows)
        <5>1. doc.mergedWith # r.version
          BY <1>1, <2>1, <3>1, <4>1
        <5>2. MergesOfAfter(r) = MergesOf(r)
          BY <2>1, <5>1
        <5>3. QED BY <2>1, <2>4, <4>1, <5>2
      <4>2. CASE r = draft
        <5>1. \A n \in Published(rows) : n.mergedWith # draft.version
          BY <2>1, <2>5
        <5>2. MergesOfAfter(r) = {doc}
          BY <2>1, <3>1, <4>2, <5>1
        <5>3. QED BY <2>1, <5>2
      <4>3. QED BY <2>1, <3>1, <3>4, <4>1, <4>2
    <3>5. QED BY <3>3, <3>4 DEF MergesAreFaithful
  <2>8. QED BY <1>3, <2>2, <2>6, <2>7 DEF MadeFrom, MadeFirst, MadeOver
<1>4. QED BY <1>2, <1>3

\* And what the committing thread will return is in the table.
LEMMA CommitKeepsAnswers ==
  ASSUME OneHeadInv, WorkInv, AnswersAreCommitted, NEW c \in Callers, Commit(c)
  PROVE  AnswersAreCommitted'
<1> DEFINE Answered(x) ==
      /\ response[x].document \in Published(rows)
      /\ response[x].savedVersion # NoVersion =>
           \E r \in rows : /\ r.version = response[x].savedVersion
                           /\ r.contents = call[x].contents
<1>1. /\ rows' = rows \cup staged[c] /\ call' = call /\ response' = response
      /\ Published(rows) \subseteq Published(rows')
      /\ \A x \in Callers : x # c => pc'[x] = pc[x]
  BY DEF Commit, Published, OneHeadInv, TypeOK, CallerTypeOK
<1>2. ASSUME NEW x \in Callers, x # c, pc'[x] = "notify"
      PROVE  Answered(x)'
  BY <1>1, <1>2 DEF AnswersAreCommitted
<1>3. Answered(c)'
  <2>1. /\ KeepsText(c, staged[c], response[c].document, response[c].savedVersion)
        /\ MadeFrom(rows, staged[c], response[c].document)
        /\ staged[c] = {} => ~IsDraft(response[c].document)
    BY DEF Commit, WorkInv, StagedIsMade
  <2>2. response[c].document \in Published(rows')
    <3>1. CASE staged[c] = {}
      BY <1>1, <2>1, <3>1 DEF MadeFrom, MadeFirst, MadeOver, MadeByMerge, Published
    <3>2. CASE staged[c] # {}
      BY <3>2, CommitAdds
    <3>3. QED BY <3>1, <3>2
  <2>3. staged[c] \cup {response[c].document} \subseteq rows'
    BY <1>1, <2>2 DEF Published
  <2>4. QED BY <1>1, <2>1, <2>2, <2>3 DEF KeepsText
<1>4. QED BY <1>2, <1>3 DEF AnswersAreCommitted

\* One step of a saving thread.
LEMMA SavesKeepHistory ==
  ASSUME HistoryInv, NEW c \in Callers, Saves(c)
  PROVE  WorkInv' /\ MergesAreFaithful' /\ AnswersAreCommitted'
<1>1. OneHeadInv /\ WorkInv /\ MergesAreFaithful /\ AnswersAreCommitted /\ TypeInv
  BY DEF HistoryInv, OneHeadInv, TypeInv
<1>2. ASSUME rows' = rows, OthersStay(c), pc'[c] # "notify"
      PROVE  WorkInv' /\ MergesAreFaithful' /\ AnswersAreCommitted'
  <2>1. MergesAreFaithful'
    BY <1>1, <1>2 DEF MergesAreFaithful, Published
  <2>2. AnswersAreCommitted'
    BY <1>1, <1>2 DEF AnswersAreCommitted, OthersStay, Published
  <2>3. QED BY <1>1, <2>1, <2>2, SavesKeepWork
<1>3. CASE StartCall(c) \/ FindHead(c)
  BY <1>1, <1>2, <1>3 DEF StartCall, BeginCall, FindHead, OthersStay, TypeInv, TypeOK, CallerTypeOK
<1>4. CASE Stages(c)
  BY <1>1, <1>2, <1>4, StagesMakeRows, StageTouches
<1>5. CASE Leaves(c)
  BY <1>1, <1>2, <1>5, LeavesForgets
<1>6. CASE Commit(c)
  BY <1>1, <1>6, SavesKeepWork, CommitKeepsMerges, CommitKeepsAnswers
<1>7. QED BY <1>1, <1>3, <1>4, <1>5, <1>6, SavesSteps

LEMMA HistoryFirst == Init => HistoryInv
BY OneHeadFirst
   DEF Init, HistoryInv, WorkInv, SeenIsPublished, StagedIsMade, MergesAreFaithful,
       AnswersAreCommitted, Published

LEMMA HistoryStep == HistoryInv /\ [UpdateNext]_vars => HistoryInv'
<1>1. SUFFICES ASSUME HistoryInv, [UpdateNext]_vars PROVE HistoryInv'
  OBVIOUS
<1>2. OneHeadInv'
  BY <1>1, OneHeadStep DEF HistoryInv
<1>3. ASSUME NEW c \in Callers, Saves(c) PROVE HistoryInv'
  BY <1>1, <1>2, <1>3, SavesKeepHistory DEF HistoryInv
<1>4. CASE UNCHANGED vars
  BY <1>1, <1>2, <1>4 DEF vars, caller, HistoryInv, WorkInv, SeenIsPublished, StagedIsMade,
     KeepsText, MergesAreFaithful, AnswersAreCommitted, Published
<1>5. QED BY <1>1, <1>3, <1>4 DEF UpdateNext

\* The invariant behind the two theorems that follow.
THEOREM HistoryInductive == UpdateSpec => []HistoryInv
BY HistoryFirst, HistoryStep, PTL DEF UpdateSpec

\* DocumentManagerBean.java:127-148: for any texts and any number of concurrent
\* saves, every merge in the table is the merge of the texts its row points at,
\* and every draft went into exactly one.
THEOREM MergesAlwaysFaithful == UpdateSpec => []MergesAreFaithful
<1>1. HistoryInv => MergesAreFaithful
  BY DEF HistoryInv
<1>2. QED BY <1>1, HistoryInductive, PTL

\* DocumentManagerBean.java:42-44: whatever a call is about to return is a
\* version of the history, and what it calls saved is the text it was sent.
THEOREM AnswersAlwaysCommitted == UpdateSpec => []AnswersAreCommitted
<1>1. HistoryInv => AnswersAreCommitted
  BY DEF HistoryInv
<1>2. QED BY <1>1, HistoryInductive, PTL

-----------------------------------------------------------------------------
(* The threads implement the atomic saves                                  *)

\* The operators of the table and of the merger are the ones HeadHistory uses.
LEMMA SameOperators ==
  /\ History!NoRow = NoRow /\ History!NoVersion = NoVersion
  /\ \A S : History!UniqueKeys(S) <=> UniqueKeys(S)
  /\ \A r : History!IsDraft(r) <=> IsDraft(r)
  /\ \A P, H, M : History!MergedText(P, H, M) = MergedText(P, H, M)
<1>1. /\ History!NoRow = NoRow /\ History!NoVersion = NoVersion
      /\ \A S : History!UniqueKeys(S) <=> UniqueKeys(S)
      /\ \A r : History!IsDraft(r) <=> IsDraft(r)
  BY DEF History!NoRow, NoRow, History!NoVersion, NoVersion, History!UniqueKeys, UniqueKeys,
         History!SameKey, SameKey, History!IsDraft, IsDraft
<1>2. ASSUME NEW t PROVE History!SplitLines(t) = SplitLines(t)
  BY DEF History!SplitLines, SplitLines, History!Cardinality, Cardinality
<1>3. ASSUME NEW P, NEW H, NEW M PROVE History!MergeLines(P, H, M) = MergeLines(P, H, M)
  BY DEF History!MergeLines, MergeLines, History!Shared, Shared, History!Longer, Longer
<1>4. ASSUME NEW P, NEW H, NEW M PROVE History!MergedText(P, H, M) = MergedText(P, H, M)
  BY <1>2, <1>3 DEF History!MergedText, MergedText
<1>5. QED BY <1>1, <1>4

\* The head, where there is one.
LEMMA CurrentHeadIsHead ==
  ASSUME OneHead, \A r \in rows : r.version # NoVersion
  PROVE  /\ rows = {} => CurrentHead = NoRow
         /\ rows # {} => /\ CurrentHead \in rows /\ Heads(rows) = {CurrentHead}
                         /\ CurrentHead # NoRow
BY DEF OneHead, CurrentHead, NoRow

\* A commit that adds rows replaces the head of that moment, whatever the
\* transaction read before: had another been saved over what it read, the
\* constraint on the previous version would forbid its rows.
LEMMA CommitReplacesHead ==
  ASSUME OneHeadInv, OneHeadInv', WorkInv, NEW c \in Callers, Commit(c), staged[c] # {}
  PROVE  /\ CurrentHead' = response[c].document
         /\ MadeFirst(staged[c], response[c].document) => rows = {}
         /\ \A h \in rows : response[c].document.previousVersion = h.version => h = CurrentHead
<1> DEFINE doc == response[c].document
<1>1. /\ rows' = rows \cup staged[c] /\ Insertable(rows, staged[c])
      /\ doc \in staged[c] /\ ~IsDraft(doc)
      /\ \A s \in staged[c] : s # doc => IsDraft(s)
      /\ \A s \in staged[c] : s.version \notin Versions
  BY CommitAdds DEF Commit
<1>2. \A r \in rows \cup rows' : r.version # NoVersion
  BY DEF OneHeadInv, TypeOK, Row, Version
<1> HIDE DEF doc
<1>3. \A r \in rows : r.previousVersion # doc.previousVersion
  BY <1>1 DEF Insertable, SameKey, Versions
<1>4. doc \in Heads(rows')
  <2>1. \A r \in rows : r.previousVersion # doc.version
    BY <1>1, <1>2 DEF OneHeadInv, PreviousIsKept
  <2>2. \A s \in staged[c] : s.previousVersion # doc.version
    BY <1>1 DEF Insertable, SameKey, IsDraft
  <2>3. QED BY <1>1, <2>1, <2>2 DEF Heads
<1>5. CurrentHead' = doc
  <2>1. rows' # {} /\ OneHead'
    BY <1>1 DEF OneHeadInv
  <2>2. PICK h \in rows' : Heads(rows') = {h}
    BY <2>1 DEF OneHead
  <2>3. CurrentHead' \in Heads(rows')
    BY <2>1, <2>2 DEF CurrentHead
  <2>4. QED BY <1>4, <2>2, <2>3
<1>6. ASSUME MadeFirst(staged[c], doc) PROVE rows = {}
  BY <1>3, <1>6 DEF MadeFirst, OneHeadInv, PreviousIsKept
<1>7. ASSUME NEW h \in rows, doc.previousVersion = h.version PROVE h = CurrentHead
  <2>1. h \in Heads(rows)
    BY <1>3, <1>7 DEF Heads
  <2>2. QED BY <1>2, <2>1, CurrentHeadIsHead DEF OneHeadInv
<1>8. QED BY <1>5, <1>6, <1>7 DEF doc

\* A commit is one of the steps of HeadHistory, or none.
LEMMA CommitIsAtomic ==
  ASSUME OneHeadInv, OneHeadInv', WorkInv, NEW c \in Callers, Commit(c)
  PROVE  [History!HNext]_(History!hvars)
<1> DEFINE doc == response[c].document
<1>1. CASE staged[c] = {}
  <2>1. rows' = rows
    BY <1>1 DEF Commit
  <2>2. QED BY <2>1 DEF History!hvars, CurrentHead, Heads
<1>2. CASE staged[c] # {}
  <2>1. /\ rows' = rows \cup staged[c]
        /\ doc \in staged[c]
        /\ \A s \in staged[c] : s.version \notin Versions
        /\ MadeFrom(rows, staged[c], doc)
    BY <1>2, CommitAdds DEF Commit, WorkInv, StagedIsMade
  <2>2. /\ CurrentHead' = doc
        /\ MadeFirst(staged[c], doc) => rows = {}
        /\ \A h \in rows : doc.previousVersion = h.version => h = CurrentHead
    BY <1>2, CommitReplacesHead
  <2>3. \A r \in rows \cup rows' : r.version # NoVersion
    BY DEF OneHeadInv, TypeOK, Row, Version
  <2>4. doc # NoRow /\ staged[c] \cap rows = {}
    BY <2>1, <2>3 DEF NoRow, Versions
  <2>5. /\ rows = {} => CurrentHead = NoRow
        /\ rows # {} => CurrentHead \in rows /\ CurrentHead # NoRow
    BY <2>3, CurrentHeadIsHead DEF OneHeadInv
  <2>6. History!Fresh(staged[c])
    BY <2>1, <2>4, SameOperators DEF History!Fresh, OneHeadInv
  <2> HIDE DEF doc
  <2>7. CASE MadeFirst(staged[c], doc)
    <3>1. History!Begin
      BY <2>2, <2>4, <2>5, <2>6, <2>7, SameOperators DEF History!Begin, MadeFirst
    <3>2. QED BY <3>1 DEF History!HNext
  <2>8. ASSUME NEW h \in rows, MadeOver(h, staged[c], doc) PROVE History!HNext
    <3>1. History!Continue
      BY <2>2, <2>4, <2>5, <2>6, <2>8, SameOperators DEF History!Continue, MadeOver
    <3>2. QED BY <3>1 DEF History!HNext
  <2>9. ASSUME NEW h \in rows, NEW base \in rows, MadeByMerge(h, base, staged[c], doc)
        PROVE  History!HNext
    <3>1. PICK draft \in staged[c] :
            /\ staged[c] = {draft, doc}
            /\ IsDraft(draft)
            /\ draft.mergedWith = base.version
            /\ doc.previousVersion = h.version
            /\ doc.mergedWith = draft.version
            /\ doc.contents = MergedText(base.contents, h.contents, draft.contents)
      BY <2>9 DEF MadeByMerge
    <3>2. h = CurrentHead /\ base # h
      BY <2>2, <2>9, <3>1 DEF MadeByMerge
    <3>3. draft \in rows' \ rows
      BY <2>1, <2>4
    <3>4. History!Combine
      BY <2>2, <2>5, <2>6, <3>1, <3>2, <3>3, SameOperators DEF History!Combine
    <3>5. QED BY <3>4 DEF History!HNext
  <2>10. QED BY <1>2, <2>1, <2>7, <2>8, <2>9 DEF MadeFrom
<1>3. QED BY <1>1, <1>2

\* DocumentManagerBean.java:38-149 under DocumentServiceImpl.java:67-95: a save
\* takes effect in one step, on the head of that moment, or not at all, however
\* many threads save, fail, are retried or die, and whatever their clocks say.
THEOREM SavesAlwaysAtomic == UpdateSpec => SavesAreAtomic
<1>1. Init => History!HInit
  BY SameOperators DEF Init, History!HInit, CurrentHead
<1>2. HistoryInv /\ HistoryInv' /\ [UpdateNext]_vars => [History!HNext]_(History!hvars)
  <2>1. SUFFICES ASSUME HistoryInv, HistoryInv', [UpdateNext]_vars
                 PROVE  [History!HNext]_(History!hvars)
    OBVIOUS
  <2>2. OneHeadInv /\ OneHeadInv' /\ WorkInv /\ TypeInv
    BY <2>1 DEF HistoryInv, OneHeadInv, TypeInv
  <2>3. ASSUME rows' = rows PROVE UNCHANGED History!hvars
    BY <2>3 DEF History!hvars, CurrentHead, Heads
  <2>4. ASSUME NEW c \in Callers, Saves(c) PROVE [History!HNext]_(History!hvars)
    <3>1. CASE Commit(c)
      BY <2>2, <3>1, CommitIsAtomic
    <3>2. CASE StartCall(c) \/ FindHead(c)
      BY <2>3, <3>2 DEF StartCall, BeginCall, FindHead
    <3>3. CASE Stages(c)
      BY <2>2, <2>3, <3>3, StagesMakeRows DEF Stage
    <3>4. CASE Leaves(c)
      BY <2>2, <2>3, <3>4, LeavesForgets
    <3>5. QED BY <2>4, <3>1, <3>2, <3>3, <3>4, SavesSteps
  <2>5. CASE UNCHANGED vars
    BY <2>3, <2>5 DEF vars
  <2>6. QED BY <2>1, <2>4, <2>5 DEF UpdateNext
<1>3. QED BY <1>1, <1>2, HistoryInductive, PTL DEF UpdateSpec, SavesAreAtomic, History!HSpec

-----------------------------------------------------------------------------
(* Pushes                                                                  *)

\* v is older than no other of these rows by as much as the clocks are apart.
HardlyOlder(v, others) == \A r \in others : r.version < v + ClockSkew

\* Versions are as old as the clock says; the head is hardly older than another one, and
\* so is a version that is about to be inserted over it.
VersionsAreOrdered ==
  /\ \A r \in rows : r.version <= clock
  /\ \A c \in Callers : pc[c] = "commit" /\ staged[c] # {} =>
       /\ \A s \in staged[c] : s.version <= clock
       /\ \A h \in Heads(rows) :
            response[c].document.previousVersion = h.version
            => HardlyOlder(response[c].document.version, Published(rows))
  /\ \A h \in Heads(rows) : HardlyOlder(h.version, Published(rows) \ {h})

\* A caller's version is one of the table, and so is every pushed one.
KnownVersions ==
  /\ \A c \in Callers : pc[c] # "idle" => call[c].base \in Versions \cup {NoVersion}
  /\ pushed \subseteq {r.version : r \in Published(rows)}

\* While nothing fails, the head has been pushed, or the thread that has saved
\* it is about to push it.
HeadIsAnnounced ==
  faults = 0 =>
    \A h \in Heads(rows) :
      \/ h.version \in pushed
      \/ \E c \in Callers : /\ pc[c] = "notify"
                            /\ response[c].document.version = h.version
                            /\ call[c].base # h.version

\* The versions of a table and of its transactions are natural numbers.
LEMMA VersionsAreNumbers ==
  ASSUME OneHeadInv
  PROVE  /\ clock \in Nat
         /\ \A r \in rows : r.version \in Nat /\ r.previousVersion \in Nat
         /\ \A c \in Callers : \A s \in staged[c] : s.version \in Nat /\ s.previousVersion \in Nat
BY DEF OneHeadInv, TypeOK, CallerTypeOK, Row, Version, NoVersion

\* A new head is read off a clock after the head that it replaces.
LEMMA SavesKeepOrder ==
  ASSUME HistoryInv, HistoryInv', VersionsAreOrdered, NEW c \in Callers, Saves(c)
  PROVE  VersionsAreOrdered'
<1> DEFINE Ordered(x) ==
      /\ \A s \in staged[x] : s.version <= clock
      /\ \A h \in Heads(rows) :
           response[x].document.previousVersion = h.version
           => HardlyOlder(response[x].document.version, Published(rows))
<1>1. OneHeadInv /\ WorkInv /\ OneHeadInv' /\ TypeInv
  BY DEF HistoryInv, OneHeadInv, TypeInv
<1>2. ASSUME rows' = rows, clock' \in Nat, clock <= clock', OthersStay(c),
             pc'[c] = "commit" /\ staged'[c] # {} => Ordered(c)'
      PROVE  VersionsAreOrdered'
  <2>1. \A r \in rows : r.version <= clock'
    BY <1>1, <1>2, VersionsAreNumbers DEF VersionsAreOrdered
  <2>2. ASSUME NEW x \in Callers \ {c}, pc'[x] = "commit", staged'[x] # {}
        PROVE  Ordered(x)'
    <3>1. Ordered(x) /\ staged'[x] = staged[x] /\ response'[x] = response[x]
      BY <1>2, <2>2 DEF VersionsAreOrdered, OthersStay
    <3>2. \A s \in staged'[x] : s.version <= clock'
      BY <1>1, <1>2, <3>1, VersionsAreNumbers
    <3>3. QED BY <1>2, <3>1, <3>2 DEF Heads, Published, HardlyOlder
  <2>3. \A h \in Heads(rows') : HardlyOlder(h.version, Published(rows') \ {h})
    BY <1>2 DEF VersionsAreOrdered
  <2>4. QED BY <1>2, <2>1, <2>2, <2>3 DEF VersionsAreOrdered
<1>3. CASE StartCall(c) \/ FindHead(c)
  BY <1>1, <1>2, <1>3, VersionsAreNumbers
     DEF StartCall, BeginCall, FindHead, OthersStay, TypeInv, TypeOK, CallerTypeOK
<1>4. CASE Leaves(c)
  BY <1>1, <1>2, <1>4, LeavesForgets, VersionsAreNumbers
<1>5. CASE Stages(c)
  <2>1. PICK new, doc, savedVersion :
          /\ Stage(c, new, doc, savedVersion)
          /\ MadeFrom(Known(c), new, doc)
          /\ TakesVersions(new)
    BY <1>1, <1>5, StagesMakeRows
  <2>2. /\ rows' = rows /\ OthersStay(c) /\ staged'[c] = new
        /\ response'[c] = [document |-> doc, savedVersion |-> savedVersion]
    BY <1>1, <2>1, StageTouches
  <2>3. /\ clock \in Nat /\ clock' \in Nat /\ ClockSkew \in Nat
        /\ \A s \in new : s.version \in Nat
        /\ \A r \in rows : r.version \in Nat /\ r.version <= clock
    BY <1>1, <2>2, VersionsAreNumbers, ManagerAssumption
       DEF VersionsAreOrdered, OneHeadInv, TypeOK, CallerTypeOK, Row, Version
  <2>4. /\ clock <= clock'
        /\ \A s \in new : clock < s.version + ClockSkew /\ s.version <= clock'
    BY <2>1 DEF TakesVersions
  <2>5. new # {} => doc \in new
    BY <2>1 DEF MadeFrom, MadeFirst, MadeOver, MadeByMerge
  <2>6. new # {} => HardlyOlder(doc.version, Published(rows))
    BY <2>3, <2>4, <2>5 DEF HardlyOlder, Published
  <2>7. pc'[c] = "commit" /\ staged'[c] # {} => Ordered(c)'
    BY <2>2, <2>4, <2>6
  <2>8. QED BY <1>2, <2>2, <2>3, <2>4, <2>7
<1>6. CASE Commit(c)
  <2>1. /\ rows' = rows \cup staged[c] /\ clock' = clock /\ response' = response
        /\ staged' = staged /\ pc'[c] # "commit" /\ pc[c] = "commit"
        /\ \A x \in Callers \ {c} : pc'[x] = pc[x]
    BY <1>1, <1>6 DEF Commit, TypeInv, TypeOK, CallerTypeOK
  <2>2. CASE staged[c] = {}
    BY <2>1, <2>2 DEF VersionsAreOrdered, Heads, Published
  <2>3. CASE staged[c] # {}
    <3> DEFINE doc == response[c].document
    <3>1. /\ doc \in staged[c]
          /\ Published(rows') = Published(rows) \cup {doc}
          /\ \A s \in staged[c] : s.version \notin Versions
          /\ MadeFrom(rows, staged[c], doc)
      BY <1>1, <1>6, <2>3, CommitAdds DEF WorkInv, StagedIsMade, Commit
    <3>2. /\ CurrentHead' = doc
          /\ MadeFirst(staged[c], doc) => rows = {}
          /\ \A h \in rows : doc.previousVersion = h.version => h = CurrentHead
      BY <1>1, <1>6, <2>3, CommitReplacesHead
    <3>3. /\ rows # {} => CurrentHead \in rows /\ Heads(rows) = {CurrentHead}
          /\ Heads(rows') = {doc}
      BY <1>1, <3>1, <3>2, <2>1, CurrentHeadIsHead DEF OneHeadInv, OneHead, CurrentHead, TypeOK, Row, Version
    <3>4. Ordered(c)
      BY <2>1, <2>3 DEF VersionsAreOrdered
    <3>5. doc.version # NoVersion
      BY <1>1, <2>1, <3>1 DEF OneHeadInv, TypeOK, Row, Version
    <3> HIDE DEF doc
    <3>6. rows # {} => doc.previousVersion = CurrentHead.version
      BY <3>1, <3>2 DEF MadeFrom, MadeOver, MadeByMerge
    <3>7. HardlyOlder(doc.version, Published(rows))
      <4>1. CASE rows = {}
        BY <4>1 DEF HardlyOlder, Published
      <4>2. CASE rows # {}
        BY <3>3, <3>4, <3>6, <4>2 DEF doc
      <4>3. QED BY <4>1, <4>2
    <3>8. \A h \in Heads(rows') : HardlyOlder(h.version, Published(rows') \ {h})
      BY <3>1, <3>3, <3>7 DEF HardlyOlder
    <3>9. \A r \in rows' : r.version <= clock'
      BY <2>1, <3>4 DEF VersionsAreOrdered
    <3>10. ASSUME NEW x \in Callers, pc'[x] = "commit", staged'[x] # {}
           PROVE  Ordered(x)'
      <4>1. x # c /\ pc[x] = "commit" /\ staged[x] # {}
        BY <2>1, <3>10
      <4>2. \A s \in staged'[x] : s.version <= clock'
        BY <2>1, <4>1 DEF VersionsAreOrdered
      <4>3. /\ response[x].document \in staged[x]
            /\ response[x].document.previousVersion \in Versions \cup {NoVersion}
        <5>1. SeenIsKept /\ MadeFrom(rows, staged[x], response[x].document)
          BY <1>1, <4>1 DEF WorkInv, StagedIsMade, OneHeadInv
        <5>2. QED BY <4>1, <5>1 DEF MadeFrom, MadeFirst, MadeOver, MadeByMerge, Versions
      <4>4. response[x].document.previousVersion # doc.version
        BY <3>1, <3>5, <4>3
      <4>5. QED BY <2>1, <3>3, <4>2, <4>4
    <3>11. QED BY <3>8, <3>9, <3>10 DEF VersionsAreOrdered
  <2>4. QED BY <2>2, <2>3
<1>7. QED BY <1>3, <1>4, <1>5, <1>6, SavesSteps

\* What a caller bases its text on, and what is pushed, stays in the table.
LEMMA SavesKeepKnown ==
  ASSUME HistoryInv, HistoryInv', KnownVersions, NEW c \in Callers, Saves(c)
  PROVE  KnownVersions'
<1>1. OneHeadInv /\ WorkInv /\ AnswersAreCommitted /\ TypeInv
  BY DEF HistoryInv, OneHeadInv, TypeInv
<1>2. Published(rows) \subseteq rows /\ \A r \in rows : r.version \in Versions
  BY DEF Published, Versions
<1>3. ASSUME rows' = rows, OthersStay(c),
             pc'[c] # "idle" => call'[c].base \in Versions \cup {NoVersion},
             pushed' \subseteq {r.version : r \in Published(rows)}
      PROVE  KnownVersions'
  BY <1>3 DEF KnownVersions, OthersStay, Versions, Published
<1>4. CASE StartCall(c)
  <2>1. PICK contents \in Inputs, description \in Descriptions, base \in GivenOut :
          call' = [call EXCEPT ![c] =
                     [contents |-> contents, description |-> description, base |-> base]]
    BY <1>4 DEF StartCall, BeginCall
  <2>2. base \in Versions \cup {NoVersion}
    BY <1>2 DEF GivenOut, KnownVersions, Versions
  <2>3. call'[c].base = base /\ rows' = rows /\ pushed' = pushed /\ OthersStay(c)
    BY <1>1, <1>4, <2>1 DEF StartCall, BeginCall, OthersStay, TypeInv, TypeOK, CallerTypeOK
  <2>4. QED BY <1>3, <2>2, <2>3 DEF KnownVersions
<1>5. CASE FindHead(c)
  BY <1>1, <1>3, <1>5 DEF FindHead, OthersStay, KnownVersions, TypeInv, TypeOK, CallerTypeOK
<1>6. CASE Stages(c)
  <2>1. /\ rows' = rows /\ OthersStay(c) /\ call' = call /\ pushed' = pushed
        /\ pc[c] = "lookUp"
    BY <1>1, <1>6, StagesMakeRows, StageTouches
  <2>2. QED BY <1>3, <2>1 DEF KnownVersions
<1>7. CASE Leaves(c)
  <2>1. pushed' \subseteq {r.version : r \in Published(rows)}
    <3>1. CASE Notify(c)
      BY <1>1, <3>1 DEF Notify, AnswersAreCommitted, KnownVersions
    <3>2. CASE pushed' = pushed
      BY <3>2 DEF KnownVersions
    <3>3. QED BY <1>1, <1>7, <3>1, <3>2, LeavesForgets
  <2>2. /\ rows' = rows /\ OthersStay(c)
        /\ pc'[c] # "idle" => pc[c] # "idle" /\ call'[c] = call[c]
    BY <1>1, <1>7, LeavesForgets
  <2>3. QED BY <1>3, <2>1, <2>2 DEF KnownVersions
<1>8. CASE Commit(c)
  <2>1. rows \subseteq rows' /\ call' = call /\ pushed' = pushed /\ \A x \in Callers : pc'[x] # "idle" => pc[x] # "idle"
    BY <1>1, <1>8 DEF Commit, TypeInv, TypeOK, CallerTypeOK
  <2>2. Published(rows) \subseteq Published(rows') /\ Versions \subseteq Versions'
    BY <2>1 DEF Published, Versions
  <2>3. QED BY <2>1, <2>2 DEF KnownVersions
<1>9. QED BY <1>4, <1>5, <1>6, <1>7, <1>8, SavesSteps

\* A head that is not pushed yet keeps the thread that will push it: the
\* caller cannot have its version already.
LEMMA SavesKeepAnnounced ==
  ASSUME HistoryInv, HistoryInv', KnownVersions, HeadIsAnnounced,
         NEW c \in Callers, Saves(c)
  PROVE  HeadIsAnnounced'
<1> DEFINE Announces(x, h) == /\ pc[x] = "notify"
                              /\ response[x].document.version = h.version
                              /\ call[x].base # h.version
<1>1. OneHeadInv /\ OneHeadInv' /\ WorkInv /\ TypeInv /\ faults \in Nat
  BY DEF HistoryInv, OneHeadInv, TypeInv, TypeOK
<1>2. SUFFICES ASSUME faults' = 0, NEW h \in Heads(rows')
               PROVE  h.version \in pushed' \/ \E x \in Callers : Announces(x, h)'
  BY DEF HeadIsAnnounced
<1>3. faults = 0 /\ ~TransactionFails(c) /\ ~CallLost(c)
  <2>1. ~TransactionFails(c) /\ ~CallLost(c)
    BY <1>1, <1>2 DEF TransactionFails, CallLost
  <2>2. faults' = faults
    BY <2>1 DEF Saves, Works, Transacts, StartCall, BeginCall, FindHead, RefuseStranger,
       FindManyHeads, Create, PreviousNotFound, ChangeDescription, SameAsHead, SaveOverHead,
       Refresh, MergeIntoHead, MergerFails, Commit, RollBack, Notify, Stage, bounds
  <2>3. QED BY <1>2, <2>1, <2>2
<1>4. ASSUME rows' = rows, OthersStay(c), pushed \subseteq pushed',
             Announces(c, h) => h.version \in pushed'
      PROVE  h.version \in pushed' \/ \E x \in Callers : Announces(x, h)'
  <2>1. h.version \in pushed \/ \E x \in Callers : Announces(x, h)
    BY <1>2, <1>3, <1>4 DEF HeadIsAnnounced
  <2>2. QED BY <1>4, <2>1 DEF OthersStay
<1>5. CASE StartCall(c) \/ FindHead(c)
  <2>1. rows' = rows /\ pushed' = pushed /\ OthersStay(c) /\ pc[c] # "notify"
    BY <1>1, <1>5 DEF StartCall, BeginCall, FindHead, OthersStay, TypeInv, TypeOK, CallerTypeOK
  <2>2. QED BY <1>4, <2>1
<1>6. CASE Stages(c)
  <2>1. rows' = rows /\ OthersStay(c) /\ pushed' = pushed /\ pc[c] # "notify"
    BY <1>1, <1>6, StagesMakeRows, StageTouches
  <2>2. QED BY <1>4, <2>1
<1>7. CASE Leaves(c)
  <2>1. rows' = rows /\ OthersStay(c) /\ (Notify(c) \/ pushed' = pushed)
    BY <1>1, <1>7, LeavesForgets
  <2>2. CASE Notify(c)
    <3>1. pushed \subseteq pushed' /\ (Announces(c, h) => h.version \in pushed')
      BY <2>2 DEF Notify
    <3>2. QED BY <1>4, <2>1, <3>1
  <2>3. CASE ~Notify(c)
    <3>1. pc[c] # "notify"
      BY <1>3, <1>7, <2>3 DEF Leaves, FindManyHeads, RefuseStranger, PreviousNotFound,
         MergerFails, RollBack, NewText, LookingUp
    <3>2. QED BY <1>4, <2>1, <2>3, <3>1
  <2>4. QED BY <2>2, <2>3
<1>8. CASE Commit(c)
  <2>1. /\ rows' = rows \cup staged[c] /\ pushed' = pushed /\ call' = call /\ response' = response
        /\ pc[c] = "commit" /\ pc'[c] = "notify"
        /\ \A x \in Callers \ {c} : pc'[x] = pc[x]
    BY <1>1, <1>8 DEF Commit, TypeInv, TypeOK, CallerTypeOK
  <2>2. CASE staged[c] = {}
    <3>1. h.version \in pushed \/ \E x \in Callers : Announces(x, h)
      BY <1>2, <1>3, <2>1, <2>2 DEF HeadIsAnnounced
    <3>2. QED BY <2>1, <3>1
  <2>3. CASE staged[c] # {}
    <3> DEFINE doc == response[c].document
    <3>1. doc \in staged[c] /\ doc.version \notin Versions /\ doc.version # NoVersion
      BY <1>1, <1>8, <2>3, CommitAdds
    <3>2. Heads(rows') = {doc}
      <4>1. CurrentHead' = doc
        BY <1>1, <1>8, <2>3, CommitReplacesHead
      <4>2. rows' # {} /\ \A r \in rows' : r.version # NoVersion
        BY <1>1, <2>1, <2>3 DEF OneHeadInv, TypeOK, Row, Version
      <4>3. Heads(rows') = {CurrentHead'}
        BY <1>1, <4>2 DEF OneHeadInv, OneHead, CurrentHead
      <4>4. QED BY <4>1, <4>3
    <3>3. call[c].base # doc.version
      BY <2>1, <3>1 DEF KnownVersions
    <3> HIDE DEF doc
    <3>4. h = doc
      BY <1>2, <3>2
    <3>5. Announces(c, h)'
      BY <2>1, <3>3, <3>4 DEF doc
    <3>6. QED BY <3>5
  <2>4. QED BY <2>2, <2>3
<1>9. QED BY <1>5, <1>6, <1>7, <1>8, SavesSteps

\* DocumentServiceImpl.java:76-79: however far the clocks are apart, while
\* nothing fails the head has been pushed, or its saver is about to push it.
THEOREM HeadAlwaysAnnounced == UpdateSpec => [](KnownVersions /\ HeadIsAnnounced)
<1>1. Init => KnownVersions /\ HeadIsAnnounced
  BY DEF Init, KnownVersions, HeadIsAnnounced, Heads
<1>2. /\ HistoryInv /\ HistoryInv' /\ KnownVersions /\ HeadIsAnnounced
      /\ [UpdateNext]_vars
      => (KnownVersions /\ HeadIsAnnounced)'
  <2>1. SUFFICES ASSUME HistoryInv, HistoryInv', KnownVersions, HeadIsAnnounced,
                        [UpdateNext]_vars
                 PROVE  (KnownVersions /\ HeadIsAnnounced)'
    OBVIOUS
  <2>2. ASSUME NEW c \in Callers, Saves(c) PROVE (KnownVersions /\ HeadIsAnnounced)'
    BY <2>1, <2>2, SavesKeepKnown, SavesKeepAnnounced
  <2>3. CASE UNCHANGED vars
    BY <2>1, <2>3 DEF vars, caller, bounds, KnownVersions, HeadIsAnnounced, Versions,
       Heads, Published
  <2>4. QED BY <2>1, <2>2, <2>3 DEF UpdateNext
<1>3. QED BY <1>1, <1>2, HistoryInductive, PTL DEF UpdateSpec

\* DocumentServiceImpl.java:76-79: however far the clocks are apart, as soon as no call
\* is running the head has been pushed, and no other pushed version is newer by that much.
THEOREM NewestPushAlwaysHead == UpdateSpec => []NewestPushIsHead
<1>1. Init => VersionsAreOrdered
  BY DEF Init, VersionsAreOrdered, Heads
<1>2. HistoryInv /\ HistoryInv' /\ VersionsAreOrdered /\ [UpdateNext]_vars
      => VersionsAreOrdered'
  <2>1. SUFFICES ASSUME HistoryInv, HistoryInv', VersionsAreOrdered, [UpdateNext]_vars
                 PROVE  VersionsAreOrdered'
    OBVIOUS
  <2>2. ASSUME NEW c \in Callers, Saves(c) PROVE VersionsAreOrdered'
    BY <2>1, <2>2, SavesKeepOrder
  <2>3. CASE UNCHANGED vars
    BY <2>1, <2>3 DEF vars, caller, VersionsAreOrdered, Heads, Published
  <2>4. QED BY <2>1, <2>2, <2>3 DEF UpdateNext
<1>3. VersionsAreOrdered /\ KnownVersions /\ HeadIsAnnounced => NewestPushIsHead
  <2>1. SUFFICES ASSUME VersionsAreOrdered, KnownVersions, HeadIsAnnounced,
                        faults = 0, \A c \in Callers : pc[c] = "idle",
                        NEW h \in Heads(rows)
                 PROVE  /\ h.version \in pushed
                        /\ \A v \in pushed \ {h.version} : v < h.version + ClockSkew
    BY DEF NewestPushIsHead
  <2>2. h.version \in pushed
    BY <2>1 DEF HeadIsAnnounced
  <2>3. ASSUME NEW v \in pushed \ {h.version} PROVE v < h.version + ClockSkew
    <3>1. PICK r \in Published(rows) : r.version = v
      BY <2>1 DEF KnownVersions
    <3>2. QED BY <2>1, <2>3, <3>1 DEF VersionsAreOrdered, HardlyOlder
  <2>4. QED BY <2>2, <2>3
<1>4. QED BY <1>1, <1>2, <1>3, HistoryInductive, HeadAlwaysAnnounced, PTL DEF UpdateSpec

-----------------------------------------------------------------------------
(***************************************************************************)
(* What deletions leave of a document, for any number of saving and        *)
(* deleting threads: no half of a merge, and where the clocks agree a head *)
(* wherever there is a row.                                                *)
(***************************************************************************)

\* The two rows are in the table together, or to be removed together.
Together(r, s) == \A d \in Deleters : r \in doomed[d] <=> s \in doomed[d]

\* The other half of a merge.
HalfOf(r, s) == r # s /\ (Halves(r, s) \/ Halves(s, r))

\* Halves of merges are inserted, found and removed together, whatever their versions are.
HalvesInv ==
  /\ \A d \in Deleters : doomed[d] \subseteq rows
  /\ \A r \in rows : r.mergedWith # NoVersion => \E s \in rows : HalfOf(r, s) /\ Together(r, s)
  /\ \A c \in Callers : pc[c] = "commit" =>
       \A r \in staged[c] : r.mergedWith # NoVersion => \E s \in staged[c] : HalfOf(r, s)

\* Only transactions that merge have rows that tell of a merge.
LEMMA StagesKeepHalves ==
  ASSUME TypeInv, TypeInv', HalvesInv, NEW c \in Callers, Stages(c)
  PROVE  HalvesInv'
<1>1. PICK new, doc, savedVersion :
        /\ Stage(c, new, doc, savedVersion)
        /\ MadeFrom(Known(c), new, doc)
  BY StagesMakeRows
<1>2. /\ rows' = rows /\ doomed' = doomed /\ OthersStay(c) /\ staged'[c] = new
  BY <1>1, StageTouches DEF Stage
<1>3. \A r \in new : r.mergedWith # NoVersion => \E s \in new : HalfOf(r, s)
  <2>1. CASE \A r \in new : r.mergedWith = NoVersion
    BY <2>1
  <2>2. ASSUME NEW draft \in new, new = {draft, doc}, IsDraft(draft),
               draft.version < doc.version, doc.mergedWith = draft.version
        PROVE  \A r \in new : \E s \in new : HalfOf(r, s)
    <3>1. draft.version \in Nat /\ doc \in new
      BY <1>2, <2>2 DEF TypeInv, TypeOK, CallerTypeOK, Row, Version
    <3>2. draft # doc /\ Halves(draft, doc)
      BY <2>2, <3>1 DEF Halves
    <3>3. QED BY <2>2, <3>1, <3>2 DEF HalfOf
  <2>3. QED BY <1>1, <2>1, <2>2 DEF MadeFrom, MadeFirst, MadeOver, MadeByMerge
<1>4. QED BY <1>2, <1>3 DEF HalvesInv, OthersStay, Together

\* No deletion has read the rows that a commit adds.
LEMMA CommitKeepsHalves ==
  ASSUME TypeInv, HalvesInv, NEW c \in Callers, Commit(c)
  PROVE  HalvesInv'
<1>1. /\ rows' = rows \cup staged[c] /\ Insertable(rows, staged[c])
      /\ UNCHANGED << staged, doomed >>
      /\ pc[c] = "commit" /\ \A x \in Callers : pc'[x] = "commit" => pc[x] = "commit"
  BY DEF Commit, TypeInv, TypeOK, CallerTypeOK
<1>2. \A s \in staged[c] : s \notin rows
  BY <1>1 DEF Insertable, SameKey
<1>3. \A s \in staged[c], d \in Deleters : s \notin doomed'[d]
  BY <1>1, <1>2 DEF HalvesInv
<1>4. ASSUME NEW r \in rows', r.mergedWith # NoVersion
      PROVE  \E s \in rows' : HalfOf(r, s) /\ Together(r, s)'
  <2>1. CASE r \in rows
    BY <1>1, <1>4, <2>1 DEF HalvesInv, Together
  <2>2. CASE r \in staged[c]
    <3>1. PICK s \in staged[c] : HalfOf(r, s)
      BY <1>1, <1>4, <2>2 DEF HalvesInv
    <3>2. QED BY <1>1, <1>3, <2>2, <3>1 DEF Together
  <2>3. QED BY <1>1, <2>1, <2>2
<1>5. QED BY <1>1, <1>4 DEF HalvesInv

\* A deletion finds and removes both halves, or none.
LEMMA DeletesKeepHalves ==
  ASSUME TypeInv, HalvesInv, NEW d \in Deleters, Deletes(d)
  PROVE  HalvesInv'
<1>1. doomed \in [Deleters -> SUBSET Row] /\ UNCHANGED << pc, staged >>
  BY DEF TypeInv, TypeOK, Deletes, DeleteFinds, DeleteCommits, DeleteFails, caller
<1>2. CASE DeleteFinds(d) \/ DeleteFails(d)
  <2>1. rows' = rows /\ \A e \in Deleters : doomed'[e] \in {doomed[e], {}, rows}
    BY <1>1, <1>2 DEF DeleteFinds, DeleteFails
  <2>2. ASSUME NEW r \in rows, NEW s \in rows, Together(r, s) PROVE Together(r, s)'
    BY <2>1, <2>2 DEF Together
  <2>3. QED BY <1>1, <2>1, <2>2 DEF HalvesInv
<1>3. CASE DeleteCommits(d)
  <2>1. /\ rows' = rows \ doomed[d]
        /\ \A e \in Deleters : doomed'[e] = doomed[e] \ doomed[d]
    BY <1>3 DEF DeleteCommits
  <2>2. ASSUME NEW r \in rows', NEW s \in rows, Together(r, s)
        PROVE  s \in rows' /\ Together(r, s)'
    BY <2>1, <2>2 DEF Together
  <2>3. QED BY <1>1, <2>1, <2>2 DEF HalvesInv
<1>4. QED BY <1>2, <1>3 DEF Deletes

\* Halves stay together, however far the clocks are apart.
LEMMA HalvesInductive == Spec => []HalvesInv
<1>1. Init => HalvesInv
  BY DEF Init, HalvesInv
<1>2. TypeInv /\ TypeInv' /\ HalvesInv /\ [Next]_vars => HalvesInv'
  <2>1. SUFFICES ASSUME TypeInv, TypeInv', HalvesInv, [Next]_vars PROVE HalvesInv'
    OBVIOUS
  <2>2. ASSUME NEW c \in Callers, rows' = rows, doomed' = doomed, OthersStay(c), pc'[c] # "commit"
        PROVE  HalvesInv'
    BY <2>1, <2>2 DEF HalvesInv, OthersStay, Together
  <2>3. ASSUME NEW c \in Callers, Saves(c) PROVE HalvesInv'
    <3>1. CASE StartCall(c) \/ FindHead(c)
      <4>1. rows' = rows /\ doomed' = doomed /\ OthersStay(c) /\ pc'[c] # "commit"
        BY <2>1, <3>1 DEF StartCall, BeginCall, FindHead, OthersStay, TypeInv, TypeOK, CallerTypeOK
      <4>2. QED BY <2>2, <4>1
    <3>2. CASE Stages(c)
      BY <2>1, <3>2, StagesKeepHalves
    <3>3. CASE Commit(c)
      BY <2>1, <3>3, CommitKeepsHalves
    <3>4. CASE Leaves(c)
      <4>1. doomed' = doomed
        BY <3>4 DEF Leaves, FindManyHeads, RefuseStranger, CallLost, Notify,
           PreviousNotFound, MergerFails, RollBack, TransactionFails
      <4>2. QED BY <2>1, <2>2, <3>4, <4>1, LeavesForgets
    <3>5. QED BY <2>3, <3>1, <3>2, <3>3, <3>4, SavesSteps
  <2>4. ASSUME NEW d \in Deleters, Deletes(d) PROVE HalvesInv'
    BY <2>1, <2>4, DeletesKeepHalves
  <2>5. CASE UNCHANGED vars
    BY <2>1, <2>5 DEF vars, caller, HalvesInv, Together
  <2>6. QED BY <2>1, <2>3, <2>4, <2>5 DEF Next, UpdateNext
<1>3. QED BY <1>1, <1>2, TypeInvariant, PTL DEF Spec

\* A row of a transaction is not in the table, in no other transaction, and in
\* no deletion: its version was newer than all of theirs.
RowsAreFresh ==
  /\ \A r \in rows : r.version <= clock
  /\ \A d \in Deleters : \A r \in doomed[d] : r.version <= clock
  /\ \A c \in Callers : seen[c] # NoRow => seen[c].version <= clock
  /\ \A c \in Callers : pc[c] = "commit" =>
       \A s \in staged[c] :
         /\ s.version <= clock
         /\ s \notin rows
         /\ \A d \in Deleters : s \notin doomed[d]
         /\ \A x \in Callers \ {c} : pc[x] = "commit" => s \notin staged[x]

\* A version is newer than the one it was saved over, and a draft is inserted
\* with its merge.
StagedIsWhole ==
  \A c \in Callers : pc[c] = "commit" =>
    \A s \in staged[c] :
      /\ ~IsDraft(s) => s.previousVersion < s.version
      /\ IsDraft(s) => \E m \in staged[c] : ~IsDraft(m) /\ m.mergedWith = s.version

\* So are the rows, and no deletion takes a merge without its draft.
RowsAreWhole ==
  \A r \in rows :
    /\ ~IsDraft(r) => r.previousVersion < r.version
    /\ IsDraft(r) => \E m \in Published(rows) :
                       /\ m.mergedWith = r.version
                       /\ \A d \in Deleters : m \in doomed[d] => r \in doomed[d]

DeletionInv == TypeInv /\ UniqueKeys(rows) /\ RowsAreFresh /\ StagedIsWhole /\ RowsAreWhole

\* Of finitely many versions one is the newest.
LEMMA NewestExists ==
  ASSUME NEW S, S # {}, NEW n \in Nat,
         \A r \in S : r.version \in Nat /\ r.version <= n
  PROVE  \E m \in S : \A r \in S : r.version <= m.version
<1> DEFINE Ages == {n - r.version : r \in S}
<1>1. Ages \subseteq Nat /\ Ages # {}
  OBVIOUS
<1> DEFINE Less == OpToRel(<, Nat)
<1>2. IsWellFoundedOn(Less, Nat)
  BY NatLessThanWellFounded
<1>3. \A i, j \in Nat : i < j => << i, j >> \in Less
  BY DEF OpToRel
<1> HIDE DEF Ages, Less
<1>4. PICK age \in Ages : \A other \in Ages : ~ (<< other, age >> \in Less)
  BY <1>1, <1>2, WFMin
<1>5. ASSUME NEW other \in Ages PROVE age <= other
  <2>1. age \in Nat /\ other \in Nat
    BY <1>1
  <2>2. ~ (other < age)
    BY <1>3, <1>4, <2>1
  <2>3. QED BY <2>1, <2>2
<1>6. PICK m \in S : age = n - m.version
  BY DEF Ages
<1>7. ASSUME NEW r \in S PROVE r.version <= m.version
  <2>1. age <= n - r.version
    BY <1>5 DEF Ages
  <2>2. QED BY <1>6, <2>1
<1>8. QED BY <1>7

\* The newest version is a head: nothing can have been saved over it.
LEMMA WholeRowsAreReadable ==
  ASSUME DeletionInv
  PROVE  /\ \A r \in rows \ Published(rows) : \E m \in Published(rows) : Halves(r, m)
         /\ rows # {} => Heads(rows) # {}
<1>1. /\ \A r \in rows : r.version \in Nat /\ r.previousVersion \in Nat /\ r.version <= clock
      /\ clock \in Nat
      /\ UniqueKeys(rows) /\ RowsAreWhole
  BY DEF DeletionInv, TypeInv, TypeOK, Row, Version, NoVersion, RowsAreFresh
<1>2. \A r \in rows \ Published(rows) : \E m \in Published(rows) : Halves(r, m)
  BY <1>1 DEF RowsAreWhole, Published, Halves
<1>3. ASSUME rows # {} PROVE Heads(rows) # {}
  <2>1. Published(rows) # {} /\ Published(rows) \subseteq rows
    BY <1>2, <1>3 DEF Published
  <2>2. PICK newest \in Published(rows) : \A r \in Published(rows) : r.version <= newest.version
    BY <1>1, <2>1, NewestExists
  <2>3. ASSUME NEW next \in rows, next.previousVersion = newest.version PROVE FALSE
    <3>1. CASE IsDraft(next)
      BY <1>1, <2>1, <2>3, <3>1 DEF IsDraft, UniqueKeys, SameKey, Published
    <3>2. CASE ~IsDraft(next)
      <4>1. newest.version < next.version
        BY <1>1, <2>3, <3>2 DEF RowsAreWhole
      <4>2. next.version <= newest.version
        BY <2>2, <2>3, <3>2 DEF Published
      <4>3. QED BY <1>1, <2>1, <4>1, <4>2
    <3>3. QED BY <3>1, <3>2
  <2>4. QED BY <2>1, <2>3 DEF Heads
<1>4. QED BY <1>2, <1>3

\* Steps of a saving thread that insert no row.
LEMMA SavesKeepWhole ==
  ASSUME DeletionInv, TypeInv', NEW c \in Callers, rows' = rows, doomed' = doomed,
         clock <= clock', OthersStay(c),
         seen'[c] # NoRow => seen'[c] = seen[c] \/ seen'[c] \in rows,
         pc'[c] # "commit"
  PROVE  DeletionInv'
<1>1. /\ clock \in Nat /\ clock' \in Nat
      /\ \A r \in rows : r.version \in Nat
      /\ \A d \in Deleters : \A r \in doomed[d] : r.version \in Nat
      /\ \A x \in Callers : \A r \in staged[x] : r.version \in Nat
      /\ \A x \in Callers : seen[x] # NoRow => seen[x].version \in Nat
  BY DEF DeletionInv, TypeInv, TypeOK, CallerTypeOK, Row, Version, NoVersion
<1>2. /\ \A r \in rows : r.version <= clock'
      /\ \A d \in Deleters : \A r \in doomed[d] : r.version <= clock'
  BY <1>1 DEF DeletionInv, RowsAreFresh
<1>3. ASSUME NEW x \in Callers, seen'[x] # NoRow PROVE seen'[x].version <= clock'
  BY <1>1, <1>2, <1>3 DEF DeletionInv, RowsAreFresh, OthersStay
<1>4. ASSUME NEW x \in Callers, pc'[x] = "commit", NEW s \in staged'[x]
      PROVE  /\ s.version <= clock'
             /\ s \notin rows
             /\ \A d \in Deleters : s \notin doomed[d]
             /\ \A y \in Callers \ {x} : pc'[y] = "commit" => s \notin staged'[y]
  BY <1>1, <1>4 DEF DeletionInv, RowsAreFresh, OthersStay
<1>5. RowsAreFresh'
  BY <1>2, <1>3, <1>4 DEF RowsAreFresh
<1>6. StagedIsWhole'
  BY DEF DeletionInv, StagedIsWhole, OthersStay
<1>7. RowsAreWhole'
  BY DEF DeletionInv, RowsAreWhole, Published
<1>8. QED BY <1>5, <1>6, <1>7 DEF DeletionInv, UniqueKeys

\* A transaction that stages rows: they are newer than all there is.
LEMMA StagesKeepWhole ==
  ASSUME ClockSkew = 0, DeletionInv, TypeInv', NEW c \in Callers, Stages(c)
  PROVE  DeletionInv'
<1> DEFINE Whole(s) ==
      /\ ~IsDraft(s) => s.previousVersion < s.version
      /\ IsDraft(s) => \E m \in staged'[c] : ~IsDraft(m) /\ m.mergedWith = s.version
<1>1. /\ clock \in Nat /\ clock' \in Nat
      /\ \A r \in rows : r.version \in Nat
      /\ \A d \in Deleters : \A r \in doomed[d] : r.version \in Nat
      /\ \A x \in Callers : \A r \in staged[x] \cup staged'[x] : r.version \in Nat
      /\ \A x \in Callers : seen[x] # NoRow => seen[x].version \in Nat
  BY DEF DeletionInv, TypeInv, TypeOK, CallerTypeOK, Row, Version, NoVersion
<1>2. PICK new, doc, savedVersion :
        /\ Stage(c, new, doc, savedVersion)
        /\ MadeFrom(Known(c), new, doc)
        /\ TakesVersions(new)
  BY StagesMakeRows DEF DeletionInv
<1>3. /\ rows' = rows /\ doomed' = doomed /\ seen' = seen /\ OthersStay(c)
      /\ pc'[c] = "commit" /\ staged'[c] = new
  BY <1>2, StageTouches DEF DeletionInv, Stage
<1>4. /\ clock <= clock'
      /\ \A s \in new : s.version \in Nat /\ clock < s.version /\ s.version <= clock'
  BY <1>1, <1>2, <1>3 DEF TakesVersions
<1>5. \A h \in Known(c) : h.version \in Nat /\ h.version <= clock
  BY <1>1, FindByNameAndVersionFinds DEF Known, Previous, DeletionInv, RowsAreFresh
<1>6. ASSUME NEW s \in new
      PROVE  Whole(s)
  <2>1. CASE MadeFirst(new, doc)
    BY <1>1, <1>3, <1>4, <2>1 DEF MadeFirst, IsDraft, NoVersion
  <2>2. ASSUME NEW h \in Known(c), MadeOver(h, new, doc) PROVE Whole(s)
    BY <1>1, <1>3, <1>4, <1>5, <2>2 DEF MadeOver, IsDraft
  <2>3. ASSUME NEW h \in Known(c), NEW base \in Known(c), MadeByMerge(h, base, new, doc)
        PROVE  Whole(s)
    BY <1>1, <1>3, <1>4, <1>5, <2>3 DEF MadeByMerge, IsDraft
  <2>4. QED BY <1>2, <2>1, <2>2, <2>3 DEF MadeFrom
<1>7. StagedIsWhole'
  BY <1>3, <1>6 DEF DeletionInv, StagedIsWhole, OthersStay
<1>8. RowsAreWhole'
  BY <1>3 DEF DeletionInv, RowsAreWhole, Published
<1>9. ASSUME NEW x \in Callers, pc'[x] = "commit", NEW s \in staged'[x]
      PROVE  /\ s.version <= clock'
             /\ s \notin rows
             /\ \A d \in Deleters : s \notin doomed[d]
             /\ \A y \in Callers \ {x} : pc'[y] = "commit" => s \notin staged'[y]
  <2>1. CASE x = c
    <3>1. \A r \in rows : r.version <= clock
      BY DEF DeletionInv, RowsAreFresh
    <3>2. \A d \in Deleters : \A r \in doomed[d] : r.version <= clock
      BY DEF DeletionInv, RowsAreFresh
    <3>3. \A y \in Callers \ {c} : pc'[y] = "commit" => \A r \in staged'[y] : r.version <= clock
      BY <1>3 DEF DeletionInv, RowsAreFresh, OthersStay
    <3>4. s.version \in Nat /\ clock < s.version /\ s.version <= clock'
      BY <1>3, <1>4, <1>9, <2>1
    <3>5. \A r : r.version <= clock => r # s
      BY <1>1, <3>4
    <3>6. QED BY <2>1, <3>1, <3>2, <3>3, <3>4, <3>5
  <2>2. CASE x # c
    <3>1. pc[x] = "commit" /\ s \in staged[x] /\ s.version <= clock
      BY <1>3, <1>9, <2>2 DEF DeletionInv, RowsAreFresh, OthersStay
    <3>2. s.version <= clock' /\ s \notin new
      BY <1>1, <1>4, <3>1
    <3>3. QED BY <1>3, <2>2, <3>1, <3>2 DEF DeletionInv, RowsAreFresh, OthersStay
  <2>3. QED BY <2>1, <2>2
<1>10. /\ \A r \in rows : r.version <= clock'
       /\ \A d \in Deleters : \A r \in doomed[d] : r.version <= clock'
       /\ \A x \in Callers : seen[x] # NoRow => seen[x].version <= clock'
  BY <1>1, <1>4 DEF DeletionInv, RowsAreFresh
<1>11. RowsAreFresh'
  BY <1>3, <1>9, <1>10 DEF RowsAreFresh
<1>12. QED BY <1>3, <1>7, <1>8, <1>11 DEF DeletionInv, UniqueKeys

\* A commit adds a whole merge, none of it about to be deleted.
LEMMA CommitKeepsWhole ==
  ASSUME DeletionInv, TypeInv', NEW c \in Callers, Commit(c)
  PROVE  DeletionInv'
<1>1. /\ rows' = rows \cup staged[c] /\ Insertable(rows, staged[c])
      /\ UNCHANGED << clock, seen, staged, doomed >>
      /\ pc[c] = "commit" /\ pc'[c] # "commit"
      /\ \A x \in Callers \ {c} : pc'[x] = pc[x]
  BY DEF Commit, DeletionInv, TypeInv, TypeOK, CallerTypeOK
<1>2. UniqueKeys(rows')
  BY <1>1, InsertKeepsKeys DEF DeletionInv
<1>3. RowsAreFresh'
  BY <1>1 DEF DeletionInv, RowsAreFresh
<1>4. StagedIsWhole'
  BY <1>1 DEF DeletionInv, StagedIsWhole
<1>5. ASSUME NEW r \in rows'
      PROVE  /\ ~IsDraft(r) => r.previousVersion < r.version
             /\ IsDraft(r) => \E m \in Published(rows') :
                                /\ m.mergedWith = r.version
                                /\ \A d \in Deleters : m \in doomed[d] => r \in doomed[d]
  <2>1. CASE r \in rows
    BY <1>1, <2>1 DEF DeletionInv, RowsAreWhole, Published
  <2>2. CASE r \in staged[c]
    BY <1>1, <2>2 DEF DeletionInv, StagedIsWhole, RowsAreFresh, Published
  <2>3. QED BY <1>1, <1>5, <2>1, <2>2
<1>6. RowsAreWhole'
  BY <1>1, <1>5 DEF RowsAreWhole
<1>7. QED BY <1>2, <1>3, <1>4, <1>6 DEF DeletionInv

\* A deletion takes the rows it has read, and they are whole.
LEMMA DeletesKeepWhole ==
  ASSUME DeletionInv, TypeInv', NEW d \in Deleters, Deletes(d)
  PROVE  DeletionInv'
<1>1. doomed \in [Deleters -> SUBSET Row] /\ UNCHANGED << clock, pc, seen, staged >>
  BY DEF DeletionInv, TypeInv, TypeOK, Deletes, DeleteFinds, DeleteCommits, DeleteFails, caller
<1>2. /\ rows' \subseteq rows
      /\ rows' = rows \/ rows' = rows \ doomed[d]
      /\ \/ doomed' = [doomed EXCEPT ![d] = rows] /\ rows' = rows
         \/ doomed' = [doomed EXCEPT ![d] = {}]
         \/ doomed' = [e \in Deleters |-> doomed[e] \ doomed[d]] /\ rows' = rows \ doomed[d]
  BY DEF Deletes, DeleteFinds, DeleteCommits, DeleteFails
<1>3. \A e \in Deleters : doomed'[e] \subseteq doomed[e] \cup rows
  BY <1>1, <1>2
<1>4. RowsAreFresh'
  BY <1>1, <1>2, <1>3 DEF DeletionInv, RowsAreFresh
<1>5. StagedIsWhole'
  BY <1>1 DEF DeletionInv, StagedIsWhole
<1>6. ASSUME NEW r \in rows', IsDraft(r)
      PROVE  \E m \in Published(rows') :
               /\ m.mergedWith = r.version
               /\ \A e \in Deleters : m \in doomed'[e] => r \in doomed'[e]
  <2>1. PICK m \in Published(rows) :
          /\ m.mergedWith = r.version
          /\ \A e \in Deleters : m \in doomed[e] => r \in doomed[e]
    BY <1>2, <1>6 DEF DeletionInv, RowsAreWhole
  <2>2. m \in rows /\ r \in rows /\ ~IsDraft(m)
    BY <1>2, <2>1 DEF Published
  <2>3. m \in rows'
    BY <1>2, <1>6, <2>1, <2>2
  <2>4. \A e \in Deleters : m \in doomed'[e] => r \in doomed'[e]
    BY <1>1, <1>2, <2>1, <2>2
  <2>5. QED BY <2>1, <2>2, <2>3, <2>4 DEF Published
<1>7. RowsAreWhole'
  BY <1>2, <1>6 DEF DeletionInv, RowsAreWhole
<1>8. UniqueKeys(rows')
  BY <1>2 DEF DeletionInv, UniqueKeys
<1>9. QED BY <1>4, <1>5, <1>7, <1>8 DEF DeletionInv

\* The rows stay whole where the clocks agree.
LEMMA DeletionInductive ==
  ASSUME ClockSkew = 0
  PROVE  Spec => []DeletionInv
<1>1. Init => DeletionInv
  <2>1. SUFFICES ASSUME Init PROVE DeletionInv
    OBVIOUS
  <2>2. TypeInv
    BY <2>1, ManagerAssumption DEF Init, TypeInv, TypeOK, CallerTypeOK, AtWork
  <2>3. QED
    BY <2>1, <2>2 DEF Init, DeletionInv, UniqueKeys, RowsAreFresh, StagedIsWhole, RowsAreWhole
<1>2. TypeInv' /\ DeletionInv /\ [Next]_vars => DeletionInv'
  <2>1. SUFFICES ASSUME TypeInv', DeletionInv, [Next]_vars PROVE DeletionInv'
    OBVIOUS
  <2>2. clock \in Nat /\ TypeInv
    BY <2>1 DEF DeletionInv, TypeInv, TypeOK
  <2>3. ASSUME NEW c \in Callers, Saves(c) PROVE DeletionInv'
    <3>1. CASE StartCall(c) \/ FindHead(c)
      <4>1. /\ rows' = rows /\ clock' = clock /\ doomed' = doomed /\ OthersStay(c)
            /\ pc'[c] # "commit"
            /\ seen'[c] # NoRow => seen'[c] = seen[c] \/ seen'[c] \in rows
        BY <2>2, <3>1 DEF StartCall, BeginCall, FindHead, OthersStay, Heads,
           TypeInv, TypeOK, CallerTypeOK
      <4>2. QED BY <2>1, <2>2, <4>1, SavesKeepWhole
    <3>2. CASE Stages(c)
      BY <2>1, <3>2, StagesKeepWhole
    <3>3. CASE Commit(c)
      BY <2>1, <3>3, CommitKeepsWhole
    <3>4. CASE Leaves(c)
      <4>1. doomed' = doomed
        BY <3>4 DEF Leaves, FindManyHeads, RefuseStranger, CallLost, Notify,
           PreviousNotFound, MergerFails, RollBack, TransactionFails
      <4>2. QED BY <2>1, <2>2, <3>4, <4>1, LeavesForgets, SavesKeepWhole
    <3>5. QED BY <2>3, <3>1, <3>2, <3>3, <3>4, SavesSteps
  <2>4. ASSUME NEW d \in Deleters, Deletes(d) PROVE DeletionInv'
    BY <2>1, <2>4, DeletesKeepWhole
  <2>5. CASE UNCHANGED vars
    BY <2>1, <2>5 DEF vars, caller, DeletionInv, UniqueKeys, RowsAreFresh, StagedIsWhole,
       RowsAreWhole, Published
  <2>6. QED BY <2>1, <2>3, <2>4, <2>5 DEF Next, UpdateNext
<1>3. QED BY <1>1, <1>2, TypeInvariant, PTL DEF Spec

\* Document.java:35-42 with DocumentControllerBean.java:135-141: however deletions run
\* against saves and however far the clocks are apart, no half of a merge is left; and where
\* the clocks agree every draft has its published version, and rows that are left have a head.
THEOREM AlwaysReadable == Spec => []RemainsReadable
<1>1. HalvesInv => \A r \in rows : r.mergedWith # NoVersion =>
                     \E s \in rows \ {r} : Halves(r, s) \/ Halves(s, r)
  BY DEF HalvesInv, HalfOf
<1>2. CASE ClockSkew = 0
  <2>1. HalvesInv /\ DeletionInv => RemainsReadable
    BY <1>1, WholeRowsAreReadable DEF RemainsReadable
  <2>2. QED BY <1>2, <2>1, HalvesInductive, DeletionInductive, PTL
<1>3. CASE ClockSkew # 0
  <2>1. HalvesInv => RemainsReadable
    BY <1>1, <1>3 DEF RemainsReadable
  <2>2. QED BY <2>1, HalvesInductive, PTL
<1>4. QED BY <1>2, <1>3

-----------------------------------------------------------------------------
(* The clients of the acceptance test                                      *)

\* The client's line when all that it has typed is in it.
Grown(c) == Start[OwnLine[c]] + letters[c]

\* The text with a client's line as it is after so many letters.
WithLine(text, c, n) == [text EXCEPT ![OwnLine[c]] = Start[OwnLine[c]] + n]

\* A text that at most these numbers of letters have made from the first one.
Fits(text, number) ==
  /\ text \in Text
  /\ DOMAIN text = DOMAIN Start
  /\ \A c \in Typists : text[OwnLine[c]] \in Start[OwnLine[c]]..(Start[OwnLine[c]] + number[c])
  /\ \A i \in DOMAIN Start : (\A c \in Typists : OwnLine[c] # i) => text[i] = Start[i]

\* All versions are such texts, under one description.
TableFits ==
  \A r \in Published(rows) :
    /\ Fits(r.contents, letters)
    /\ \A s \in Published(rows) : s.description = r.description

\* No version has letters that the head has not.
HeadIsAhead ==
  \A h \in Heads(rows), r \in Published(rows), c \in Typists :
    r.contents[OwnLine[c]] <= h.contents[OwnLine[c]]

\* What a transaction of a client will save and return: the head it has read,
\* with the client's letters.
Replaces(c) ==
  LET new == response[c].document
  IN  /\ new.contents = WithLine(seen[c].contents, c, letters[c])
      /\ new.description = seen[c].description
      /\ \/ staged[c] = {} /\ new = seen[c]
         \/ new \in staged[c] /\ new.previousVersion = seen[c].version

\* A client has a version of the document once the tester was answered; between its
\* calls, that and the head have all of its letters; during a call, the call has.
ClientFits(c) ==
  /\ document[c] = NoRow => pc[c] = "idle" /\ outcome[c] = "none" /\ letters[c] = 0
  /\ document[c] # NoRow => outcome[Tester] = "answered" /\ document[c] \in Published(rows)
  /\ (pc[c] = "idle" /\ outcome[c] # "failed") =>
       /\ \A h \in Heads(rows) : h.contents[OwnLine[c]] = Grown(c)
       /\ document[c] # NoRow => document[c].contents[OwnLine[c]] = Grown(c)
  /\ pc[c] # "idle" =>
       /\ call[c] = [contents    |-> WithLine(document[c].contents, c, letters[c]),
                     description |-> document[c].description,
                     base        |-> document[c].version]
       /\ document[c].contents[OwnLine[c]] # Grown(c)
  /\ pc[c] \in {"lookUp", "commit"} => seen[c] \in Published(rows)
  /\ pc[c] = "commit" => Replaces(c)
  /\ pc[c] = "notify" => response[c].document.contents[OwnLine[c]] = Grown(c)

\* The tester creates the document, and does nothing else.
TesterFits ==
  /\ pc[Tester] # "idle" =>
       /\ outcome[Tester] = "none"
       /\ call[Tester].contents = Start
       /\ call[Tester].base = NoVersion
  /\ pc[Tester] = "commit" =>
       LET new == response[Tester].document
       IN  /\ staged[Tester] = {new}
           /\ new.contents = Start
           /\ new.previousVersion = NoVersion

ClientsTypeOK ==
  /\ document \in [Typists -> Row \cup {NoRow}]
  /\ letters \in [Typists -> 0..Letters]

LettersInv ==
  ClientsTypeOK /\ TableFits /\ HeadIsAhead /\ TesterFits /\ \A c \in Typists : ClientFits(c)

TypistsInv == HistoryInv /\ LettersInv

-----------------------------------------------------------------------------
(* Texts                                                                   *)

Numbers == [Typists -> 0..Letters]

LEMMA StartType ==
  /\ Start \in Text /\ Start \in Seq(Line) /\ Len(Start) \in Nat /\ Len(Start) >= 1
  /\ DOMAIN Start = 1..Len(Start) /\ Len(Start) \in DOMAIN Start
  /\ Blank = 0 /\ Start[Len(Start)] # Blank
  /\ \A i \in DOMAIN Start : Start[i] \in Nat
  /\ \A c \in Typists : OwnLine[c] \in DOMAIN Start /\ Start[OwnLine[c]] \in Nat
<1>1. Start \in Text /\ Start \in Seq(Line) /\ Start # << >> /\ Start[Len(Start)] # Blank
  BY TypistsAssumption DEF Text
<1>2. Len(Start) \in Nat /\ Len(Start) >= 1 /\ DOMAIN Start = 1..Len(Start)
  BY <1>1
<1>3. Blank = 0
  BY TypistsAssumption, LineAssumption
<1>4. \A i \in DOMAIN Start : Start[i] \in Nat
  <2>1. Line \subseteq Nat
    BY TypistsAssumption
  <2>2. \A i \in 1..Len(Start) : Start[i] \in Line
    BY <1>1
  <2>3. QED BY <1>2, <2>1, <2>2
<1>5. \A c \in Typists : OwnLine[c] \in DOMAIN Start
  BY TypistsAssumption
<1>6. Len(Start) \in DOMAIN Start
  BY <1>2
<1>7. \A c \in Typists : Start[OwnLine[c]] \in Nat
  BY <1>4, <1>5
<1>8. QED BY <1>1, <1>2, <1>3, <1>4, <1>5, <1>6, <1>7

\* The line of a client in the text with everybody's letters, and any other line.
LEMMA WithLettersIs ==
  ASSUME NEW number \in Numbers
  PROVE  /\ \A c \in Typists : WithLetters(number)[OwnLine[c]] = Start[OwnLine[c]] + number[c]
         /\ \A i \in DOMAIN Start :
              (\A c \in Typists : OwnLine[c] # i) => WithLetters(number)[i] = Start[i]
         /\ WithLetters(number) \in Inputs /\ WithLetters(number) \in Text
         /\ DOMAIN WithLetters(number) = DOMAIN Start
<1>1. ASSUME NEW c \in Typists
      PROVE  WithLetters(number)[OwnLine[c]] = Start[OwnLine[c]] + number[c]
  <2>1. (CHOOSE d \in Typists : OwnLine[d] = OwnLine[c]) = c
    BY TypistsAssumption
  <2>2. QED BY <2>1, StartType DEF WithLetters
<1>2. \A i \in DOMAIN Start :
        (\A c \in Typists : OwnLine[c] # i) => WithLetters(number)[i] = Start[i]
  BY DEF WithLetters
<1>3. WithLetters(number) \in Inputs
  BY TypistsAssumption DEF Numbers
<1>4. WithLetters(number) \in Text
  BY <1>3, ManagerAssumption
<1>5. DOMAIN WithLetters(number) = DOMAIN Start
  BY DEF WithLetters
<1>6. QED BY <1>1, <1>2, <1>3, <1>4, <1>5

\* Every text that fits is one that the clients send, and no line of it is split off.
LEMMA FittingTexts ==
  ASSUME NEW number \in Numbers, NEW text, Fits(text, number)
  PROVE  /\ text \in Inputs
         /\ SplitLines(text) = text
         /\ text \in Seq(Line) /\ Len(text) = Len(Start)
         /\ \A c \in Typists : text[OwnLine[c]] \in Nat
<1>1. text \in Seq(Line) /\ text \in Text /\ Len(text) = Len(Start) /\ DOMAIN text = DOMAIN Start
  BY StartType DEF Fits, Text
<1>2. ASSUME NEW c \in Typists
      PROVE  /\ text[OwnLine[c]] \in Nat /\ text[OwnLine[c]] >= Start[OwnLine[c]]
             /\ text[OwnLine[c]] - Start[OwnLine[c]] \in 0..Letters
  BY StartType, TypistsAssumption DEF Fits, Numbers
<1>3. text[Len(text)] # Blank
  <2>1. CASE \E c \in Typists : OwnLine[c] = Len(Start)
    BY <1>1, <1>2, <2>1, StartType
  <2>2. CASE \A c \in Typists : OwnLine[c] # Len(Start)
    BY <1>1, <2>2, StartType DEF Fits
  <2>3. QED BY <2>1, <2>2
<1> DEFINE own == [c \in Typists |-> text[OwnLine[c]] - Start[OwnLine[c]]]
<1>4. own \in Numbers
  BY <1>2 DEF Numbers
<1>5. \A c \in Typists : own[c] = text[OwnLine[c]] - Start[OwnLine[c]]
  OBVIOUS
<1> HIDE DEF own
<1>6. ASSUME NEW i \in DOMAIN Start PROVE WithLetters(own)[i] = text[i]
  <2>1. CASE \A c \in Typists : OwnLine[c] # i
    BY <1>4, <2>1, WithLettersIs DEF Fits
  <2>2. ASSUME NEW c \in Typists, OwnLine[c] = i PROVE WithLetters(own)[i] = text[i]
    BY <1>2, <1>4, <1>5, <2>2, WithLettersIs, StartType
  <2>3. QED BY <2>1, <2>2
<1>7. WithLetters(own) = text
  <2>1. WithLetters(own) \in Seq(Line) /\ DOMAIN WithLetters(own) = DOMAIN Start
        /\ WithLetters(own) \in Inputs
    BY <1>4, WithLettersIs DEF Text
  <2>2. Len(WithLetters(own)) = Len(text)
    BY <1>1, <2>1, StartType
  <2>3. QED BY <1>1, <1>6, <2>1, <2>2
<1>8. QED BY <1>1, <1>2, <1>3, <1>4, <1>7, WithLettersIs, VisibleTextsStayWhole

\* With more letters it still fits.
LEMMA FitsMore ==
  ASSUME NEW number \in Numbers, NEW more \in Numbers, \A c \in Typists : number[c] <= more[c],
         NEW text, Fits(text, number)
  PROVE  Fits(text, more)
<1>1. ASSUME NEW c \in Typists
      PROVE  text[OwnLine[c]] \in Start[OwnLine[c]]..(Start[OwnLine[c]] + more[c])
  BY StartType DEF Fits, Numbers
<1>2. QED BY <1>1 DEF Fits

LEMMA WithLineFits ==
  ASSUME NEW number \in Numbers, NEW text, Fits(text, number), NEW c \in Typists
  PROVE  /\ Fits(WithLine(text, c, number[c]), number)
         /\ WithLine(text, c, number[c])[OwnLine[c]] = Start[OwnLine[c]] + number[c]
         /\ \A i \in DOMAIN Start : i # OwnLine[c] => WithLine(text, c, number[c])[i] = text[i]
<1> DEFINE line == WithLine(text, c, number[c])
<1>1. text \in Seq(Line) /\ DOMAIN text = DOMAIN Start /\ OwnLine[c] \in DOMAIN Start
  BY FittingTexts, StartType DEF Fits
<1>2. Start[OwnLine[c]] + number[c] \in Line
  <2>1. WithLetters(number) \in Seq(Line) /\ DOMAIN WithLetters(number) = DOMAIN Start
    BY WithLettersIs DEF Text
  <2>2. WithLetters(number)[OwnLine[c]] = Start[OwnLine[c]] + number[c]
    BY WithLettersIs
  <2>3. QED BY <1>1, <2>1, <2>2
<1>3. /\ line[OwnLine[c]] = Start[OwnLine[c]] + number[c]
      /\ \A i \in DOMAIN Start : i # OwnLine[c] => line[i] = text[i]
      /\ line \in Seq(Line) /\ DOMAIN line = DOMAIN Start
  BY <1>1, <1>2 DEF WithLine
<1> HIDE DEF line
<1>4. line \in Text
  <2>1. line # << >>
    BY <1>3, StartType
  <2>2. QED BY <1>3, <2>1 DEF Text
<1>5. ASSUME NEW d \in Typists
      PROVE  line[OwnLine[d]] \in Start[OwnLine[d]]..(Start[OwnLine[d]] + number[d])
  <2>1. CASE d = c
    BY <1>3, <2>1, StartType DEF Numbers
  <2>2. CASE d # c
    <3>1. OwnLine[d] \in DOMAIN Start /\ OwnLine[d] # OwnLine[c]
      BY <2>2, StartType, TypistsAssumption
    <3>2. QED BY <1>3, <3>1 DEF Fits
  <2>3. QED BY <2>1, <2>2
<1>6. \A i \in DOMAIN Start : (\A d \in Typists : OwnLine[d] # i) => line[i] = Start[i]
  BY <1>3 DEF Fits
<1>7. Fits(line, number)
  BY <1>3, <1>4, <1>5, <1>6 DEF Fits
<1>8. QED BY <1>3, <1>7 DEF line

\* A merge brings a client's letters into the head and changes nothing else.
LEMMA MergeAddsLetters ==
  ASSUME NEW number \in Numbers, NEW c \in Typists,
         NEW previous, Fits(previous, number), NEW head, Fits(head, number),
         previous[OwnLine[c]] # Start[OwnLine[c]] + number[c]
  PROVE  MergedText(previous, head, WithLine(previous, c, number[c])) = WithLine(head, c, number[c])
<1> DEFINE mine == WithLine(previous, c, number[c])
           after == WithLine(head, c, number[c])
<1>1. /\ Fits(mine, number) /\ mine[OwnLine[c]] = Start[OwnLine[c]] + number[c]
      /\ \A i \in DOMAIN Start : i # OwnLine[c] => mine[i] = previous[i]
  BY WithLineFits
<1>2. /\ Fits(after, number) /\ after[OwnLine[c]] = Start[OwnLine[c]] + number[c]
      /\ \A i \in DOMAIN Start : i # OwnLine[c] => after[i] = head[i]
  BY WithLineFits
<1> HIDE DEF mine, after
<1>3. /\ SplitLines(previous) = previous /\ SplitLines(head) = head /\ SplitLines(mine) = mine
      /\ Len(previous) = Len(Start) /\ Len(head) = Len(Start) /\ Len(mine) = Len(Start)
      /\ after \in Seq(Line) /\ Len(after) = Len(Start)
  BY <1>1, <1>2, FittingTexts
<1>4. MergedText(previous, head, mine) =
        [i \in 1..Len(Start) |-> IF previous[i] # mine[i] THEN mine[i] ELSE head[i]]
  BY <1>3, StartType DEF MergedText, MergeLines, Longer, Shared
<1>5. ASSUME NEW i \in 1..Len(Start)
      PROVE  (IF previous[i] # mine[i] THEN mine[i] ELSE head[i]) = after[i]
  BY <1>1, <1>2, StartType
<1>6. after = [i \in 1..Len(Start) |-> after[i]]
  BY <1>3
<1>7. MergedText(previous, head, mine) = after
  BY <1>4, <1>5, <1>6
<1>8. QED BY <1>7 DEF mine, after

-----------------------------------------------------------------------------
(* Steps                                                                   *)

\* What all rows and versions have in common.
LEMMA LettersInvFacts ==
  ASSUME TypistsInv
  PROVE  /\ TypeInv /\ OneHeadInv /\ WorkInv /\ AnswersAreCommitted
         /\ letters \in Numbers
         /\ Tester \in Callers /\ Tester \notin Typists /\ Typists \subseteq Callers
         /\ Heads(rows) \subseteq Published(rows) /\ Published(rows) \subseteq rows
         /\ rows \subseteq Row
         /\ \A r \in rows : r # NoRow /\ r.version # NoVersion
         /\ rows # {} => \E h \in rows : Heads(rows) = {h}
<1>1. TypeInv /\ OneHeadInv /\ WorkInv /\ AnswersAreCommitted /\ letters \in Numbers
  BY DEF TypistsInv, HistoryInv, OneHeadInv, TypeInv, LettersInv, ClientsTypeOK, Numbers
<1>2. Tester \in Callers /\ Tester \notin Typists /\ Typists \subseteq Callers
  BY TypistsAssumption DEF Typists
<1>3. Heads(rows) \subseteq Published(rows) /\ Published(rows) \subseteq rows
  BY DEF Heads, Published, IsDraft
<1>4. rows \subseteq Row /\ \A r \in rows : r # NoRow /\ r.version # NoVersion
  BY <1>1 DEF TypeInv, TypeOK, Row, Version, NoRow
<1>5. rows # {} => \E h \in rows : Heads(rows) = {h}
  BY <1>1 DEF OneHeadInv, OneHead
<1>6. QED BY <1>1, <1>2, <1>3, <1>4, <1>5

\* No client has typed before the tester was answered.
LEMMA NothingIsTypedYet ==
  ASSUME TypistsInv, outcome[Tester] # "answered", NEW c \in Typists
  PROVE  document[c] = NoRow /\ pc[c] = "idle" /\ outcome[c] = "none" /\ letters[c] = 0
BY DEF TypistsInv, LettersInv, ClientFits

\* What a thread has is as it was.
Same(c) ==
  /\ pc'[c] = pc[c] /\ call'[c] = call[c] /\ seen'[c] = seen[c]
  /\ staged'[c] = staged[c] /\ response'[c] = response[c] /\ outcome'[c] = outcome[c]

\* What must not change for a client that does nothing.
LEMMA ClientStays ==
  ASSUME NEW c \in Typists, ClientFits(c), Same(c),
         document'[c] = document[c], letters'[c] = letters[c],
         Published(rows) \subseteq Published(rows'),
         document[c] # NoRow => outcome'[Tester] = outcome[Tester],
         (\A h \in Heads(rows) : h.contents[OwnLine[c]] = Grown(c)) =>
           \A h \in Heads(rows') : h.contents[OwnLine[c]] = Grown(c)
  PROVE  ClientFits(c)'
<1>1. Grown(c)' = Grown(c)
  BY DEF Grown
<1>2. Replaces(c)' <=> Replaces(c)
  BY DEF Replaces, Same
<1>3. QED BY <1>1, <1>2 DEF ClientFits, Same

\* A step that leaves the table and the letters alone.
LEMMA TableStays ==
  ASSUME TypistsInv, rows' = rows, letters' = letters
  PROVE  TableFits' /\ HeadIsAhead'
BY DEF TypistsInv, LettersInv, TableFits, HeadIsAhead

\* A step of one thread over the same table, which is not the tester's once it
\* was answered.
LEMMA OneThreadSteps ==
  ASSUME TypistsInv, rows' = rows, letters' = letters, NEW t \in Callers,
         document' \in [Typists -> Row \cup {NoRow}],
         \A c \in Typists \ {t} : document'[c] = document[c],
         \A x \in Callers \ {t} : Same(x),
         t = Tester => TesterFits' /\ outcome[Tester] # "answered",
         t # Tester => ClientFits(t)'
  PROVE  LettersInv'
<1>1. ClientsTypeOK'
  BY DEF TypistsInv, LettersInv, ClientsTypeOK
<1>2. TesterFits'
  BY LettersInvFacts DEF TypistsInv, LettersInv, TesterFits, Same
<1>3. ASSUME NEW c \in Typists, c # t PROVE ClientFits(c)'
  <2>1. Same(c) /\ ClientFits(c) /\ document'[c] = document[c] /\ letters'[c] = letters[c]
    BY <1>3, LettersInvFacts DEF TypistsInv, LettersInv
  <2>2. document[c] # NoRow => outcome'[Tester] = outcome[Tester]
    <3>1. CASE t = Tester
      BY <3>1, NothingIsTypedYet
    <3>2. CASE t # Tester
      BY <3>2, LettersInvFacts DEF Same
    <3>3. QED BY <3>1, <3>2
  <2>3. QED BY <2>1, <2>2, ClientStays
<1>4. t \in Typists \/ t = Tester
  BY DEF Typists
<1>5. QED BY <1>1, <1>2, <1>3, <1>4, TableStays, LettersInvFacts DEF LettersInv

\* TestDocumentServiceClient.java:149-156.
LEMMA CreateDocumentFits ==
  ASSUME TypistsInv, CreateDocument
  PROVE  LettersInv' /\ StartCall(Tester)
<1>1. PICK description \in Descriptions :
        BeginCall(Tester, [contents |-> Start, description |-> description, base |-> NoVersion])
  BY DEF CreateDocument
<1>2. StartCall(Tester)
  <2>1. Start \in Inputs
    <3>1. [c \in Typists |-> 0] \in Numbers
      BY TypistsAssumption DEF Numbers
    <3>2. Fits(Start, [c \in Typists |-> 0])
      BY StartType DEF Fits
    <3>3. QED BY <3>1, <3>2, FittingTexts
  <2>2. QED BY <1>1, <2>1 DEF StartCall, GivenOut
<1>3. /\ \A x \in Callers \ {Tester} : Same(x)
      /\ pc'[Tester] = "find" /\ outcome'[Tester] = "none"
      /\ call'[Tester].contents = Start /\ call'[Tester].base = NoVersion
  BY <1>1, LettersInvFacts DEF BeginCall, Same, TypeInv, TypeOK, CallerTypeOK
<1>4. TesterFits'
  BY <1>3 DEF TesterFits
<1>5. /\ rows' = rows /\ letters' = letters /\ document' = document
      /\ outcome[Tester] # "answered"
  BY <1>1 DEF CreateDocument, BeginCall
<1>6. document \in [Typists -> Row \cup {NoRow}]
  BY DEF TypistsInv, LettersInv, ClientsTypeOK
<1>7. LettersInv'
  BY <1>3, <1>4, <1>5, <1>6, LettersInvFacts, OneThreadSteps
<1>8. QED BY <1>2, <1>7

\* TestDocumentServiceClient.java:186.
LEMMA FindDocumentFits ==
  ASSUME TypistsInv, NEW c \in Typists, FindDocument(c)
  PROVE  LettersInv'
<1>1. PICK head \in Heads(rows) : document' = [document EXCEPT ![c] = head]
  BY DEF FindDocument
<1>2. /\ UNCHANGED << vars, letters >> /\ outcome[Tester] = "answered" /\ document[c] = NoRow
      /\ document \in [Typists -> Row \cup {NoRow}] /\ ClientFits(c)
  BY DEF FindDocument, TypistsInv, LettersInv, ClientsTypeOK
<1>3. head \in Published(rows) /\ head \in Row /\ head # NoRow
  BY LettersInvFacts
<1>4. /\ document' \in [Typists -> Row \cup {NoRow}] /\ document'[c] = head
      /\ \A d \in Typists \ {c} : document'[d] = document[d]
  BY <1>1, <1>2, <1>3
<1>5. /\ rows' = rows /\ letters' = letters
      /\ \A x \in Callers : Same(x)
      /\ pc' = pc /\ outcome' = outcome
  BY <1>2 DEF vars, caller, Same
<1>6. pc[c] = "idle" /\ outcome[c] = "none" /\ letters[c] = 0
      /\ \A h \in Heads(rows) : h.contents[OwnLine[c]] = Grown(c)
  BY <1>2 DEF ClientFits
<1>7. ClientFits(c)'
  BY <1>2, <1>3, <1>4, <1>5, <1>6 DEF ClientFits, Grown
<1>8. QED BY <1>4, <1>5, <1>7, LettersInvFacts, OneThreadSteps

\* TestDocumentServiceClient.java:187-198.
LEMMA TypeLetterFits ==
  ASSUME TypistsInv, NEW c \in Typists, TypeLetter(c)
  PROVE  LettersInv' /\ StartCall(c)
<1> DEFINE own == OwnLine[c]
           sent == [document[c].contents EXCEPT ![own] = @ + 1]
<1>1. /\ document[c] # NoRow /\ outcome[c] \in {"none", "answered"} /\ letters[c] < Letters
      /\ letters' = [letters EXCEPT ![c] = @ + 1] /\ document' = document
      /\ BeginCall(c, [contents |-> sent, description |-> document[c].description,
                       base |-> document[c].version])
  BY DEF TypeLetter
<1>2. /\ ClientFits(c) /\ ClientsTypeOK /\ letters \in Numbers /\ TableFits
      /\ pc[c] = "idle" /\ c \in Callers /\ c # Tester
  BY <1>1, LettersInvFacts DEF TypistsInv, LettersInv, BeginCall
<1>3. /\ letters' \in Numbers /\ letters'[c] = letters[c] + 1
      /\ \A d \in Typists : letters[d] <= letters'[d]
      /\ \A d \in Typists \ {c} : letters'[d] = letters[d]
  BY <1>1, <1>2, TypistsAssumption DEF Numbers
<1>4. /\ document[c] \in Published(rows) /\ outcome[Tester] = "answered"
      /\ document[c].contents[own] = Start[own] + letters[c]
      /\ Fits(document[c].contents, letters)
  BY <1>1, <1>2 DEF ClientFits, TableFits, Grown
<1>5. Fits(document[c].contents, letters')
  BY <1>2, <1>3, <1>4, FitsMore
<1>6. sent = WithLine(document[c].contents, c, letters'[c])
  <2>1. /\ document[c].contents[own] + 1 = Start[own] + letters'[c]
        /\ own \in DOMAIN document[c].contents
    <3>1. letters[c] \in Nat /\ Start[own] \in Nat /\ own \in DOMAIN Start
      BY <1>2, StartType DEF Numbers
    <3>2. QED BY <1>3, <1>4, <3>1 DEF Fits
  <2>2. QED BY <2>1 DEF WithLine
<1>7. Fits(sent, letters')
  BY <1>3, <1>5, <1>6, WithLineFits
<1> HIDE DEF sent
<1>8. StartCall(c)
  <2>1. sent \in Inputs
    BY <1>3, <1>7, FittingTexts
  <2>2. document[c] \in rows /\ document[c] \in Row
    BY <1>4, LettersInvFacts
  <2>3. document[c].description \in Descriptions /\ document[c].version \in GivenOut
    BY <2>2 DEF Row, GivenOut
  <2>4. QED BY <1>1, <2>1, <2>3 DEF StartCall
<1>9. /\ rows' = rows
      /\ \A x \in Callers \ {c} : Same(x)
      /\ pc'[c] = "find" /\ outcome'[c] = "none"
      /\ call'[c] = [contents |-> sent, description |-> document[c].description,
                     base |-> document[c].version]
  BY <1>1, <1>2, LettersInvFacts DEF BeginCall, Same, TypeInv, TypeOK, CallerTypeOK
<1>10. ClientsTypeOK'
  BY <1>1, <1>2, <1>3 DEF ClientsTypeOK, Numbers
<1>11. TableFits'
  <2>1. ASSUME NEW r \in Published(rows) PROVE Fits(r.contents, letters')
    BY <1>2, <1>3, <2>1, FitsMore DEF TableFits
  <2>2. QED BY <1>2, <1>9, <2>1 DEF TableFits
<1>12. HeadIsAhead'
  BY <1>9 DEF HeadIsAhead, TypistsInv, LettersInv
<1>13. TesterFits' /\ outcome'[Tester] = outcome[Tester]
  BY <1>2, <1>9, LettersInvFacts DEF TypistsInv, LettersInv, TesterFits, Same
<1>14. ClientFits(c)'
  <2>1. document'[c].contents[own] # Grown(c)'
    BY <1>1, <1>2, <1>3, <1>4, StartType DEF Grown, Numbers
  <2>2. QED BY <1>1, <1>4, <1>6, <1>9, <1>13, <2>1 DEF ClientFits
<1>15. ASSUME NEW d \in Typists, d # c PROVE ClientFits(d)'
  <2>1. Same(d) /\ ClientFits(d) /\ letters'[d] = letters[d]
    BY <1>3, <1>9, <1>15, LettersInvFacts DEF TypistsInv, LettersInv
  <2>2. QED BY <1>1, <1>9, <1>13, <2>1, ClientStays
<1>16. QED BY <1>8, <1>10, <1>11, <1>12, <1>13, <1>14, <1>15 DEF LettersInv

\* A thread that forgets its transaction and goes on with its call, or gives it up.
Forgets(c) ==
  /\ rows' = rows
  /\ \A x \in Callers \ {c} : Same(x)
  /\ \/ pc'[c] = pc[c] /\ Same(c)
     \/ pc'[c] = "find" /\ call'[c] = call[c] /\ outcome'[c] = outcome[c]
     \/ pc'[c] = "idle" /\ outcome'[c] = "failed"

LEMMA RetryForgets ==
  ASSUME TypeInv, NEW c \in Callers, Retry(c), rows' = rows
  PROVE  Forgets(c)
<1>1. CASE attempt[c] + 1 < Retries
  BY <1>1 DEF Retry, Forget, Forgets, Same, TypeInv, TypeOK, CallerTypeOK
<1>2. CASE ~(attempt[c] + 1 < Retries)
  BY <1>2 DEF Retry, End, Forget, Forgets, Same, TypeInv, TypeOK, CallerTypeOK
<1>3. QED BY <1>1, <1>2

\* DocumentServiceImpl.java:71-93: an attempt that is lost keeps the call as it was.
LEMMA ForgettingFits ==
  ASSUME TypistsInv, NEW c \in Callers, pc[c] # "idle", Forgets(c), UNCHANGED << document, letters >>
  PROVE  LettersInv'
<1>1. /\ rows' = rows /\ letters' = letters /\ document' = document
      /\ document' \in [Typists -> Row \cup {NoRow}]
      /\ \A x \in Callers \ {c} : Same(x)
  BY DEF Forgets, TypistsInv, LettersInv, ClientsTypeOK
<1>2. CASE c = Tester
  <2>1. outcome[Tester] = "none"
    BY <1>2 DEF TypistsInv, LettersInv, TesterFits
  <2>2. TesterFits'
    BY <1>2 DEF TypistsInv, LettersInv, TesterFits, Forgets, Same
  <2>3. QED BY <1>1, <1>2, <2>1, <2>2, OneThreadSteps
<1>3. CASE c # Tester
  <2>1. c \in Typists /\ ClientFits(c)
    BY <1>3 DEF Typists, TypistsInv, LettersInv
  <2>2. document[c] # NoRow /\ document[c] \in Published(rows) /\ outcome[Tester] = "answered"
        /\ outcome'[Tester] = outcome[Tester]
    BY <1>1, <1>3, <2>1, LettersInvFacts DEF ClientFits, Same
  <2>3. Grown(c)' = Grown(c) /\ Published(rows)' = Published(rows)
    BY <1>1 DEF Grown
  <2>4. ASSUME Same(c)
        PROVE  ClientFits(c)'
    BY <1>1, <2>1, <2>2, <2>4, ClientStays
  <2>5. ASSUME pc'[c] = "find" /\ call'[c] = call[c] /\ outcome'[c] = outcome[c]
        PROVE  ClientFits(c)'
    BY <1>1, <2>1, <2>2, <2>3, <2>5 DEF ClientFits
  <2>6. ASSUME pc'[c] = "idle" /\ outcome'[c] = "failed"
        PROVE  ClientFits(c)'
    BY <1>1, <2>1, <2>2, <2>3, <2>6 DEF ClientFits
  <2>7. ClientFits(c)'
    BY <2>4, <2>5, <2>6 DEF Forgets
  <2>8. QED BY <1>1, <1>3, <2>7, OneThreadSteps
<1>4. QED BY <1>2, <1>3

\* TestDocumentServiceClient.java:197: the client is given its letters back.
LEMMA GetDocumentFits ==
  ASSUME TypistsInv, NEW c \in Callers, GetDocument(c)
  PROVE  LettersInv'
<1>1. /\ rows' = rows /\ letters' = letters /\ pc[c] = "notify"
      /\ \A x \in Callers \ {c} : Same(x)
      /\ pc'[c] = "idle" /\ outcome'[c] = "answered"
  BY LettersInvFacts DEF GetDocument, Notify, End, Forget, Same, TypeInv, TypeOK, CallerTypeOK
<1>2. ClientsTypeOK /\ HeadIsAhead /\ TableFits
  BY DEF TypistsInv, LettersInv
<1>3. CASE c = Tester
  <2>1. outcome[Tester] = "none"
    BY <1>1, <1>3 DEF TypistsInv, LettersInv, TesterFits
  <2>2. document' = document /\ TesterFits'
    BY <1>1, <1>3 DEF GetDocument, TesterFits
  <2>3. QED BY <1>1, <1>2, <1>3, <2>1, <2>2, OneThreadSteps DEF ClientsTypeOK
<1>4. CASE c # Tester
  <2> DEFINE given == response[c].document
             own == OwnLine[c]
  <2>1. c \in Typists /\ ClientFits(c)
    BY <1>4 DEF Typists, TypistsInv, LettersInv
  <2>2. given \in Published(rows)
    BY <1>1, LettersInvFacts DEF AnswersAreCommitted
  <2>3. given \in Row /\ given # NoRow /\ given.contents[own] = Grown(c)
    BY <1>1, <2>1, <2>2, LettersInvFacts DEF ClientFits
  <2> HIDE DEF given
  <2>4. /\ document' \in [Typists -> Row \cup {NoRow}] /\ document'[c] = given
        /\ \A d \in Typists \ {c} : document'[d] = document[d]
    BY <1>2, <1>4, <2>1, <2>3 DEF GetDocument, ClientsTypeOK, given
  <2>5. ASSUME NEW h \in Heads(rows) PROVE h.contents[own] = Grown(c)
    <3>1. h.contents[own] \in Start[own]..Grown(c) /\ given.contents[own] <= h.contents[own]
      BY <1>2, <2>1, <2>2, <2>5, LettersInvFacts DEF TableFits, HeadIsAhead, Fits, Grown
    <3>2. Start[own] \in Nat /\ Grown(c) \in Nat
      BY <2>1, StartType, LettersInvFacts DEF Numbers, Grown
    <3>3. QED BY <2>3, <3>1, <3>2
  <2>6. outcome[Tester] = "answered" /\ outcome'[Tester] = outcome[Tester]
    BY <1>1, <1>4, <2>1, LettersInvFacts DEF ClientFits, Same
  <2>7. ClientFits(c)'
    BY <1>1, <2>2, <2>3, <2>4, <2>5, <2>6 DEF ClientFits, Grown
  <2>8. QED BY <1>1, <1>4, <2>4, <2>7, OneThreadSteps
<1>5. QED BY <1>3, <1>4

\* DocumentManagerBean.java:46: there is one head to find, or the tester finds none.
LEMMA FindHeadFits ==
  ASSUME TypistsInv, NEW c \in Callers, FindHead(c), UNCHANGED << document, letters >>
  PROVE  LettersInv'
<1>1. /\ rows' = rows /\ letters' = letters /\ document' = document
      /\ document' \in [Typists -> Row \cup {NoRow}]
      /\ \A x \in Callers \ {c} : Same(x)
      /\ pc[c] = "find" /\ pc'[c] = "lookUp" /\ call'[c] = call[c] /\ outcome'[c] = outcome[c]
      /\ seen'[c] \in Heads(rows) \/ Heads(rows) = {}
  BY LettersInvFacts DEF FindHead, Same, TypeInv, TypeOK, CallerTypeOK,
     TypistsInv, LettersInv, ClientsTypeOK
<1>2. CASE c = Tester
  <2>1. outcome[Tester] = "none" /\ TesterFits'
    BY <1>1, <1>2 DEF TypistsInv, LettersInv, TesterFits
  <2>2. QED BY <1>1, <1>2, <2>1, OneThreadSteps
<1>3. CASE c # Tester
  <2>1. c \in Typists /\ ClientFits(c)
    BY <1>3 DEF Typists, TypistsInv, LettersInv
  <2>2. document[c] # NoRow /\ document[c] \in Published(rows) /\ outcome[Tester] = "answered"
        /\ outcome'[Tester] = outcome[Tester]
    BY <1>1, <1>3, <2>1, LettersInvFacts DEF ClientFits, Same
  <2>3. seen'[c] \in Published(rows)
    BY <1>1, <2>2, LettersInvFacts
  <2>4. ClientFits(c)'
    BY <1>1, <2>1, <2>2, <2>3 DEF ClientFits, Grown
  <2>5. QED BY <1>1, <1>3, <2>4, OneThreadSteps
<1>4. QED BY <1>2, <1>3

\* What the tester's transaction stages is the first version.
LEMMA TesterStages ==
  ASSUME TypistsInv, Stages(Tester), UNCHANGED << document, letters >>
  PROVE  LettersInv'
<1>1. outcome[Tester] = "none" /\ call[Tester].base = NoVersion /\ call[Tester].contents = Start
  <2>1. pc[Tester] # "idle"
    BY LettersInvFacts, StagesMakeRows
  <2>2. QED BY <2>1 DEF TypistsInv, LettersInv, TesterFits
<1>2. ~LookingUp(Tester)
  <2>1. ASSUME LookingUp(Tester) PROVE FALSE
    <3>1. seen[Tester] \in rows
      BY <2>1, LettersInvFacts DEF LookingUp, OneHeadInv, SeenIsKept
    <3>2. Previous(Tester) \in rows /\ Previous(Tester).version = NoVersion
      BY <1>1, <2>1, <3>1, LettersInvFacts, FindByNameAndVersionFinds DEF Previous, LookingUp
    <3>3. QED BY <3>2, LettersInvFacts
  <2>2. QED BY <2>1
<1>3. PICK first, savedVersion :
        /\ Stage(Tester, {first}, first, savedVersion)
        /\ first.contents = Start /\ first.previousVersion = NoVersion
  <2>1. Create(Tester)
    BY <1>2 DEF Stages, ChangeDescription, SameAsHead, SaveOverHead, Refresh, MergeIntoHead, NewText
  <2>2. QED BY <1>1, <2>1 DEF Create
<1>4. /\ rows' = rows /\ letters' = letters /\ document' = document
      /\ document' \in [Typists -> Row \cup {NoRow}]
      /\ \A x \in Callers \ {Tester} : Same(x)
      /\ pc'[Tester] = "commit" /\ call'[Tester] = call[Tester] /\ outcome'[Tester] = "none"
      /\ staged'[Tester] = {first} /\ response'[Tester].document = first
  BY <1>1, <1>3, LettersInvFacts DEF Stage, Same, TypeInv, TypeOK, CallerTypeOK,
     TypistsInv, LettersInv, ClientsTypeOK
<1>5. TesterFits'
  BY <1>1, <1>3, <1>4 DEF TesterFits
<1>6. QED BY <1>1, <1>4, <1>5, OneThreadSteps, LettersInvFacts

\* What a client's transaction stages is the head it has read with the client's
\* letters, be it saved over this head, merged into it, or there already.
LEMMA ClientStages ==
  ASSUME TypistsInv, NEW c \in Typists, Stages(c), UNCHANGED << document, letters >>
  PROVE  LettersInv'
<1> DEFINE own  == OwnLine[c]
           sent == WithLine(document[c].contents, c, letters[c])
           made == WithLine(seen[c].contents, c, letters[c])
<1>1. c \in Callers /\ c # Tester /\ ClientFits(c) /\ TableFits /\ letters \in Numbers
  BY LettersInvFacts DEF TypistsInv, LettersInv
<1>2. pc[c] = "lookUp"
  BY <1>1, LettersInvFacts, StagesMakeRows
<1>3. /\ document[c] # NoRow /\ outcome[Tester] = "answered"
      /\ document[c] \in Published(rows) /\ seen[c] \in Published(rows)
      /\ call[c].contents = sent /\ call[c].base = document[c].version
      /\ call[c].description = document[c].description
      /\ document[c].contents[own] # Start[own] + letters[c]
  BY <1>1, <1>2 DEF ClientFits, Grown
<1>4. seen[c] # NoRow /\ Previous(c) = document[c]
  <2>1. \A r \in rows : r.version = document[c].version => r = document[c]
    BY <1>3, LettersInvFacts DEF OneHeadInv, UniqueKeys, SameKey
  <2>2. document[c] \in rows /\ seen[c] \in rows /\ seen[c] # NoRow
    BY <1>3, LettersInvFacts
  <2>3. FindByNameAndVersion(rows, document[c].version) = document[c]
    BY <2>1, <2>2 DEF FindByNameAndVersion
  <2>4. QED BY <1>3, <2>1, <2>2, <2>3 DEF Previous
<1>5. ~NewDescription(c)
  BY <1>3, <1>4 DEF NewDescription
<1>6. /\ Fits(document[c].contents, letters) /\ Fits(seen[c].contents, letters)
      /\ seen[c].description = document[c].description
  BY <1>1, <1>3 DEF TableFits
<1>7. /\ sent[own] = Start[own] + letters[c]
      /\ document[c].contents # sent
  <2>1. sent[own] = Start[own] + letters[c]
    BY <1>1, <1>6, WithLineFits
  <2>2. QED BY <1>3, <2>1
<1>8. MergedText(document[c].contents, seen[c].contents, sent) = made
  BY <1>1, <1>3, <1>6, MergeAddsLetters
<1>9. seen[c].contents = sent => seen[c].contents = made
  <2>1. ASSUME seen[c].contents = sent PROVE seen[c].contents = made
    <3>1. /\ made \in Seq(Line) /\ Len(made) = Len(Start) /\ sent \in Seq(Line) /\ Len(sent) = Len(Start)
          /\ made[own] = sent[own] /\ \A i \in DOMAIN Start : i # own => made[i] = sent[i]
      <4>1. /\ Fits(made, letters) /\ made[own] = Start[own] + letters[c]
            /\ \A i \in DOMAIN Start : i # own => made[i] = seen[c].contents[i]
        BY <1>1, <1>6, WithLineFits
      <4>2. Fits(sent, letters)
        BY <1>1, <1>6, WithLineFits
      <4> HIDE DEF made, sent
      <4>3. QED BY <1>1, <1>7, <2>1, <4>1, <4>2, FittingTexts
    <3> HIDE DEF made, sent
    <3>2. QED BY <2>1, <3>1, StartType
  <2>2. QED BY <2>1
<1> HIDE DEF made, sent
<1>10. PICK new, changed, savedVersion :
         /\ Stage(c, changed, new, savedVersion)
         /\ new.contents = made /\ new.description = seen[c].description
         /\ \/ changed = {} /\ new = seen[c]
            \/ new \in changed /\ new.previousVersion = seen[c].version
  <2>1. ~Create(c)
    BY <1>4 DEF Create
  <2>2. ~ChangeDescription(c)
    BY <1>5 DEF ChangeDescription
  <2>3. ~Refresh(c)
    BY <1>3, <1>4, <1>7 DEF Refresh
  <2>4. CASE SameAsHead(c)
    <3>1. Stage(c, {}, seen[c], seen[c].version) /\ seen[c].contents = sent
      BY <1>3, <2>4 DEF SameAsHead
    <3>2. QED BY <1>9, <3>1
  <2>5. CASE SaveOverHead(c)
    <3>1. PICK v \in Readings :
            LET saved == [version |-> v, previousVersion |-> seen[c].version,
                          mergedWith |-> NoVersion,
                          description |-> call[c].description,
                          contents |-> call[c].contents]
            IN  Stage(c, {saved}, saved, v)
      BY <2>5 DEF SaveOverHead
    <3>2. document[c] = seen[c]
      BY <1>4, <2>5 DEF SaveOverHead
    <3>3. sent = made
      BY <3>2 DEF sent, made
    <3> DEFINE saved == [version |-> v, previousVersion |-> seen[c].version,
                         mergedWith |-> NoVersion,
                         description |-> call[c].description,
                         contents |-> call[c].contents]
    <3>4. /\ Stage(c, {saved}, saved, v)
          /\ saved.contents = made /\ saved.description = seen[c].description
          /\ saved.previousVersion = seen[c].version
      BY <1>3, <1>6, <3>1, <3>3
    <3> HIDE DEF saved
    <3>5. QED BY <3>4
  <2>6. CASE MergeIntoHead(c)
    <3> DEFINE draft(v) == [version |-> v, previousVersion |-> v,
                            mergedWith |-> Previous(c).version,
                            description |-> call[c].description,
                            contents |-> call[c].contents]
               merged(v, w) == [version |-> w, previousVersion |-> seen[c].version,
                                mergedWith |-> v,
                                description |-> call[c].description,
                                contents |-> MergedText(Previous(c).contents, seen[c].contents,
                                                        call[c].contents)]
    <3>1. PICK v \in Readings : \E w \in SecondReadings(v) :
            Stage(c, {draft(v), merged(v, w)}, merged(v, w), v)
      BY <2>6 DEF MergeIntoHead
    <3>2. PICK w : Stage(c, {draft(v), merged(v, w)}, merged(v, w), v)
      BY <3>1
    <3>3. /\ merged(v, w).contents = made /\ merged(v, w).description = seen[c].description
          /\ merged(v, w).previousVersion = seen[c].version
      BY <1>3, <1>4, <1>6, <1>8
    <3> HIDE DEF draft, merged
    <3>4. QED BY <3>2, <3>3
  <2>7. QED BY <2>1, <2>2, <2>3, <2>4, <2>5, <2>6 DEF Stages
<1>11. /\ rows' = rows /\ letters' = letters /\ document' = document
       /\ document' \in [Typists -> Row \cup {NoRow}]
       /\ \A x \in Callers \ {c} : Same(x)
       /\ pc'[c] = "commit" /\ call'[c] = call[c] /\ outcome'[c] = outcome[c] /\ seen'[c] = seen[c]
       /\ staged'[c] = changed /\ response'[c].document = new
       /\ outcome' = outcome
  BY <1>1, <1>10, LettersInvFacts DEF Stage, Same, TypeInv, TypeOK, CallerTypeOK,
     TypistsInv, LettersInv, ClientsTypeOK
<1>12. Replaces(c)'
  BY <1>10, <1>11 DEF Replaces, made
<1>13. ClientFits(c)'
  BY <1>1, <1>2, <1>3, <1>11, <1>12 DEF ClientFits, Grown
<1>14. QED BY <1>1, <1>11, <1>13, OneThreadSteps

\* DocumentControllerBean.java:112-141: a commit that adds rows replaces the head
\* that the client has read by one with the client's letters.
LEMMA CommitFits ==
  ASSUME TypistsInv, OneHeadInv', NEW c \in Callers, Commit(c), UNCHANGED << document, letters >>
  PROVE  LettersInv'
<1> DEFINE new == response[c].document
<1>1. /\ letters' = letters /\ document' = document
      /\ document' \in [Typists -> Row \cup {NoRow}]
      /\ \A x \in Callers \ {c} : Same(x)
      /\ pc[c] = "commit" /\ pc'[c] = "notify" /\ call'[c] = call[c] /\ outcome' = outcome
      /\ response' = response
      /\ rows' = rows \cup staged[c] /\ Insertable(rows, staged[c])
  BY LettersInvFacts DEF Commit, Same, TypeInv, TypeOK, CallerTypeOK,
     TypistsInv, LettersInv, ClientsTypeOK
<1>2. TableFits /\ HeadIsAhead /\ TesterFits /\ ClientsTypeOK /\ letters \in Numbers
  BY LettersInvFacts DEF TypistsInv, LettersInv
<1>3. TesterFits'
  BY <1>1, <1>2, LettersInvFacts DEF TesterFits, Same
<1>4. ASSUME c # Tester
      PROVE  /\ c \in Typists /\ ClientFits(c)
             /\ document[c] # NoRow /\ document[c] \in Published(rows) /\ outcome[Tester] = "answered"
             /\ seen[c] \in Published(rows) /\ Replaces(c)
             /\ Fits(seen[c].contents, letters)
             /\ Fits(new.contents, letters)
             /\ new.contents[OwnLine[c]] = Grown(c)
             /\ \A i \in DOMAIN Start : i # OwnLine[c] => new.contents[i] = seen[c].contents[i]
  <2>1. c \in Typists /\ ClientFits(c)
    BY <1>4 DEF Typists, TypistsInv, LettersInv
  <2>2. /\ document[c] # NoRow /\ document[c] \in Published(rows) /\ outcome[Tester] = "answered"
        /\ seen[c] \in Published(rows) /\ Replaces(c)
    BY <1>1, <2>1 DEF ClientFits
  <2>3. Fits(seen[c].contents, letters) /\ new.contents = WithLine(seen[c].contents, c, letters[c])
    BY <1>2, <2>2 DEF TableFits, Replaces
  <2>4. QED BY <1>2, <2>1, <2>2, <2>3, WithLineFits DEF Grown
<1> HIDE DEF new
<1>5. ASSUME c # Tester, Published(rows) \subseteq Published(rows')
      PROVE  ClientFits(c)'
  BY <1>1, <1>4, <1>5 DEF ClientFits, Grown, new
<1>6. CASE staged[c] = {}
  <2>1. c # Tester
    BY <1>1, <1>2, <1>6 DEF TesterFits
  <2>2. rows' = rows
    BY <1>1, <1>6
  <2>3. ClientFits(c)'
    BY <1>5, <2>1, <2>2
  <2>4. QED BY <1>1, <2>1, <2>2, <2>3, OneThreadSteps
<1>7. CASE staged[c] # {}
  <2>1. /\ new \in staged[c]
        /\ Published(rows') = Published(rows) \cup {new}
        /\ CurrentHead' = new
        /\ \A h \in rows : new.previousVersion = h.version => h = CurrentHead
    BY <1>7, CommitAdds, CommitReplacesHead, LettersInvFacts DEF new
  <2>2. Heads(rows') = {new}
    <3>1. PICK h \in rows' : Heads(rows') = {h}
      BY <1>1, <2>1 DEF OneHeadInv, OneHead
    <3>2. CurrentHead' = h
      BY <3>1 DEF CurrentHead
    <3>3. QED BY <2>1, <3>1, <3>2
  <2>3. CASE c = Tester
    <3>1. new.contents = Start /\ new.previousVersion = NoVersion
      BY <1>1, <1>2, <2>3 DEF TesterFits, new
    <3>2. rows = {}
      <4>1. \A r \in rows : r.previousVersion # NoVersion
        <5>1. \A r \in rows : ~SameKey(new, r)
          BY <1>1, <2>1 DEF Insertable
        <5>2. QED BY <3>1, <5>1 DEF SameKey
      <4>2. QED BY <4>1, LettersInvFacts DEF OneHeadInv, PreviousIsKept
    <3>3. Published(rows') = {new}
      BY <2>1, <3>2 DEF Published
    <3>4. \A d \in Typists : letters[d] = 0 /\ document[d] = NoRow /\ pc[d] = "idle" /\ outcome[d] = "none"
      BY <1>1, <1>2, <2>3, NothingIsTypedYet DEF TesterFits
    <3>5. Fits(Start, letters)
      BY <3>4, StartType DEF Fits
    <3>6. TableFits'
      BY <1>1, <3>1, <3>3, <3>5 DEF TableFits
    <3>7. HeadIsAhead'
      BY <2>2, <3>1, <3>3, StartType DEF HeadIsAhead
    <3>8. ASSUME NEW d \in Typists PROVE ClientFits(d)'
      <4>1. pc'[d] = "idle" /\ outcome'[d] = "none" /\ letters'[d] = 0 /\ document'[d] = NoRow
        BY <1>1, <2>3, <3>4, LettersInvFacts DEF Same
      <4>2. Grown(d)' = Start[OwnLine[d]]
        BY <4>1, StartType DEF Grown
      <4>3. \A h \in Heads(rows') : h.contents[OwnLine[d]] = Grown(d)'
        BY <2>2, <3>1, <4>2
      <4>4. QED BY <4>1, <4>3 DEF ClientFits
    <3>9. QED BY <1>1, <1>2, <1>3, <3>6, <3>7, <3>8 DEF LettersInv, ClientsTypeOK
  <2>4. CASE c # Tester
    <3>1. /\ seen[c] \in rows /\ new.previousVersion = seen[c].version
          /\ new.description = seen[c].description
      BY <1>4, <1>7, <2>4, LettersInvFacts DEF Replaces, new
    <3>2. Heads(rows) = {seen[c]}
      <4>1. rows # {} /\ OneHead /\ \A r \in rows : r.version # NoVersion
        BY <3>1, LettersInvFacts DEF OneHeadInv
      <4>2. QED BY <2>1, <3>1, <4>1, CurrentHeadIsHead
    <3>3. \A d \in Typists : d # c => /\ OwnLine[d] \in DOMAIN Start
                                      /\ new.contents[OwnLine[d]] = seen[c].contents[OwnLine[d]]
      BY <1>4, <2>4, StartType, TypistsAssumption
    <3>4. TableFits'
      BY <1>1, <1>2, <1>4, <2>1, <2>4, <3>1 DEF TableFits
    <3>5. HeadIsAhead'
      <4>1. ASSUME NEW r \in Published(rows'), NEW d \in Typists
            PROVE  r.contents[OwnLine[d]] <= new.contents[OwnLine[d]]
        <5>1. new.contents[OwnLine[d]] \in Nat
          BY <1>2, <1>4, <2>4, FittingTexts
        <5>2. CASE r = new
          BY <5>1, <5>2
        <5>3. CASE r \in Published(rows) /\ d = c
          <6>1. Fits(r.contents, letters)
            BY <1>2, <5>3 DEF TableFits
          <6>2. r.contents[OwnLine[c]] \in Start[OwnLine[c]]..Grown(c)
            BY <1>4, <2>4, <6>1 DEF Fits, Grown
          <6>3. r.contents[OwnLine[c]] <= Grown(c)
            BY <6>2
          <6>4. QED BY <1>4, <2>4, <5>3, <6>3
        <5>4. CASE r \in Published(rows) /\ d # c
          <6>1. r.contents[OwnLine[d]] <= seen[c].contents[OwnLine[d]]
            BY <1>2, <3>2, <5>4 DEF HeadIsAhead
          <6>2. QED BY <3>3, <5>4, <6>1
        <5>5. QED BY <2>1, <5>2, <5>3, <5>4
      <4>2. QED BY <2>2, <4>1 DEF HeadIsAhead
    <3>6. ClientFits(c)'
      BY <1>5, <2>1, <2>4
    <3>7. ASSUME NEW d \in Typists, d # c PROVE ClientFits(d)'
      <4>1. /\ ClientFits(d) /\ Same(d) /\ letters'[d] = letters[d] /\ document'[d] = document[d]
            /\ outcome'[Tester] = outcome[Tester] /\ Published(rows) \subseteq Published(rows')
        BY <1>1, <2>1, <3>7, LettersInvFacts DEF TypistsInv, LettersInv
      <4>2. (\A h \in Heads(rows) : h.contents[OwnLine[d]] = Grown(d)) =>
              \A h \in Heads(rows') : h.contents[OwnLine[d]] = Grown(d)
        BY <2>2, <3>2, <3>3, <3>7
      <4>3. QED BY <4>1, <4>2, ClientStays
    <3>8. QED BY <1>1, <1>2, <1>3, <3>4, <3>5, <3>6, <3>7 DEF LettersInv, ClientsTypeOK
  <2>5. QED BY <2>3, <2>4
<1>8. QED BY <1>6, <1>7

\* The service at work, one action at a time.
LEMMA ServiceStepFits ==
  ASSUME TypistsInv, OneHeadInv', NEW c \in Callers, ServiceStep(c)
  PROVE  LettersInv'
<1>1. UNCHANGED << document, letters >>
  BY DEF ServiceStep
<1>2. CASE FindHead(c)
  BY <1>1, <1>2, FindHeadFits
<1>3. CASE Stages(c)
  <2>1. c = Tester \/ c \in Typists
    BY DEF Typists
  <2>2. QED BY <1>1, <1>3, <2>1, TesterStages, ClientStages
<1>4. CASE Commit(c)
  BY <1>1, <1>4, CommitFits
<1>5. ~RefuseStranger(c)
  <2>1. Strangers = {}
    BY TypistsAssumption
  <2>2. QED BY <2>1 DEF RefuseStranger
<1>6. CASE FindManyHeads(c) \/ PreviousNotFound(c) \/ MergerFails(c) \/ RollBack(c) \/ TransactionFails(c)
  <2>1. /\ pc[c] # "idle" /\ rows' = rows
        /\ \/ Retry(c)
           \/ UNCHANGED << pc, call, attempt, seen, staged, response, outcome >>
    BY <1>6 DEF FindManyHeads, PreviousNotFound, MergerFails, RollBack, TransactionFails,
       NewText, LookingUp
  <2>2. Forgets(c)
    <3>1. CASE Retry(c)
      BY <2>1, <3>1, RetryForgets, LettersInvFacts
    <3>2. CASE UNCHANGED << pc, call, attempt, seen, staged, response, outcome >>
      BY <2>1, <3>2 DEF Forgets, Same
    <3>3. QED BY <2>1, <3>1, <3>2
  <2>3. QED BY <1>1, <2>1, <2>2, ForgettingFits
<1>7. QED BY <1>2, <1>3, <1>4, <1>5, <1>6 DEF ServiceStep, Transacts, Stages

\* What the clients and the service do are steps of the service for any callers.
LEMMA TypistsStepSaves ==
  ASSUME TypistsInv, [TypistsNext]_tvars
  PROVE  [UpdateNext]_vars
<1>1. CASE CreateDocument
  BY <1>1, CreateDocumentFits, LettersInvFacts DEF UpdateNext, Saves
<1>2. ASSUME NEW c \in Typists, FindDocument(c) PROVE [UpdateNext]_vars
  BY <1>2 DEF FindDocument
<1>3. ASSUME NEW c \in Typists, TypeLetter(c) PROVE [UpdateNext]_vars
  BY <1>3, TypeLetterFits, LettersInvFacts DEF UpdateNext, Saves
<1>4. ASSUME NEW c \in Callers, GetDocument(c) \/ ServiceStep(c) PROVE [UpdateNext]_vars
  BY <1>4 DEF GetDocument, ServiceStep, UpdateNext, Saves, Works
<1>5. CASE UNCHANGED tvars
  BY <1>5 DEF tvars
<1>6. QED BY <1>1, <1>2, <1>3, <1>4, <1>5 DEF TypistsNext

\* The invariant is inductive.
LEMMA TypistsStepInv ==
  ASSUME TypistsInv, [TypistsNext]_tvars
  PROVE  TypistsInv'
<1>1. HistoryInv' /\ OneHeadInv'
  BY TypistsStepSaves, HistoryStep DEF TypistsInv, HistoryInv
<1>2. LettersInv'
  <2>1. ASSUME NEW c \in Typists, FindDocument(c) \/ TypeLetter(c) PROVE LettersInv'
    BY <2>1, FindDocumentFits, TypeLetterFits
  <2>2. ASSUME NEW c \in Callers, GetDocument(c) \/ ServiceStep(c) PROVE LettersInv'
    BY <1>1, <2>2, GetDocumentFits, ServiceStepFits
  <2>3. CASE UNCHANGED tvars
    BY <2>3 DEF tvars, vars, caller, TypistsInv, LettersInv, ClientsTypeOK, TableFits, HeadIsAhead,
       TesterFits, ClientFits, Replaces, Grown
  <2>4. QED BY <2>1, <2>2, <2>3, CreateDocumentFits DEF TypistsNext
<1>3. QED BY <1>1, <1>2 DEF TypistsInv

LEMMA TypistsInvAlways == TypistsSpec => []TypistsInv
<1>1. TypistsInit => TypistsInv
  <2>1. SUFFICES ASSUME TypistsInit PROVE TypistsInv
    OBVIOUS
  <2>2. Letters \in Nat /\ Tester \in Callers /\ Typists \subseteq Callers
    BY TypistsAssumption DEF Typists
  <2>3. ClientsTypeOK /\ TableFits /\ HeadIsAhead /\ TesterFits
    BY <2>1, <2>2 DEF TypistsInit, Init, ClientsTypeOK, TableFits, HeadIsAhead, TesterFits, Published, Heads
  <2>4. ASSUME NEW c \in Typists PROVE ClientFits(c)
    BY <2>1, <2>2 DEF TypistsInit, Init, ClientFits, Heads
  <2>5. HistoryInv
    BY <2>1, HistoryFirst DEF TypistsInit
  <2>6. QED BY <2>3, <2>4, <2>5 DEF TypistsInv, LettersInv
<1>2. TypistsInv /\ [TypistsNext]_tvars => TypistsInv'
  BY TypistsStepInv
<1>3. QED BY <1>1, <1>2, PTL DEF TypistsSpec

-----------------------------------------------------------------------------
(* The theorems                                                            *)

\* TestDocumentServiceClient.java:133-204: the test is one of the uses of the service
\* that the theorems on what saves leave are about.
THEOREM TypistsUseTheService == TypistsSpec => UpdateSpec
<1>1. TypistsInit => Init
  BY DEF TypistsInit
<1>2. TypistsInv /\ [TypistsNext]_tvars => [UpdateNext]_vars
  BY TypistsStepSaves
<1>3. QED BY <1>1, <1>2, TypistsInvAlways, PTL DEF TypistsSpec, UpdateSpec

\* TestDocumentServiceClient.java:176-180: for any number of clients with words of
\* any length, however their calls interleave, conflict, fail and are tried again:
\* once they are answered the head has every letter in its place and nothing else.
THEOREM LettersAlwaysArrive == TypistsSpec => []LettersArrive
<1>1. TypistsInv => LettersArrive
  <2>1. SUFFICES ASSUME TypistsInv, NEW head \in Heads(rows),
                        \A c \in Typists : pc[c] = "idle" /\ outcome[c] # "failed"
                 PROVE  head.contents = Typed
    BY DEF LettersArrive
  <2>2. letters \in Numbers /\ head \in Published(rows)
    BY <2>1, LettersInvFacts
  <2>3. Fits(head.contents, letters)
    BY <2>1, <2>2 DEF TypistsInv, LettersInv, TableFits
  <2>4. \A c \in Typists : head.contents[OwnLine[c]] = Start[OwnLine[c]] + letters[c]
    BY <2>1 DEF TypistsInv, LettersInv, ClientFits, Grown
  <2>5. head.contents \in Seq(Line) /\ Typed \in Seq(Line)
        /\ DOMAIN head.contents = DOMAIN Start /\ DOMAIN Typed = DOMAIN Start
    BY <2>2, <2>3, FittingTexts, WithLettersIs DEF Fits, Typed, Text
  <2>6. ASSUME NEW i \in DOMAIN Start PROVE head.contents[i] = Typed[i]
    <3>1. CASE \A c \in Typists : OwnLine[c] # i
      BY <2>2, <2>3, <3>1, WithLettersIs DEF Fits, Typed
    <3>2. ASSUME NEW c \in Typists, OwnLine[c] = i PROVE head.contents[i] = Typed[i]
      BY <2>2, <2>4, <3>2, WithLettersIs DEF Typed
    <3>3. QED BY <3>1, <3>2
  <2>7. QED BY <2>5, <2>6
<1>2. QED BY <1>1, TypistsInvAlways, PTL
-----------------------------------------------------------------------------
(* Pages whose document is gone                                            *)

\* What a call that knows no version is about to return.
OwnFirst(c) ==
  /\ staged[c] = {response[c].document}
  /\ response[c].document.previousVersion = NoVersion
  /\ response[c].document.contents = call[c].contents
  /\ response[c].savedVersion = response[c].document.version

\* The threads' variables have a value for each of them.
ForCallers ==
  /\ DOMAIN pc = Callers /\ DOMAIN call = Callers /\ DOMAIN seen = Callers
  /\ DOMAIN staged = Callers /\ DOMAIN response = Callers

\* As long as a call has seen no row with its version, the head it has read is none
\* either, and it has nothing but a first version to insert.
OrphanKnowsNobody(c) ==
  orphan[c] => /\ \A r \in rows : r.version # call[c].base
               /\ seen[c] # NoRow => seen[c].version # call[c].base
               /\ pc[c] \in {"commit", "notify"} => OwnFirst(c)

OrphanInv ==
  /\ ForCallers
  /\ \A c \in Callers : pc[c] = "idle" => seen[c] = NoRow
  /\ \A c \in Callers : OrphanKnowsNobody(c)

\* What a step may do to the thread that takes it: end the call, begin one, or go on
\* with it.
EndsCall(c)   == call'[c] = NoCall /\ seen'[c] = NoRow
BeginsCall(c) == pc[c] = "idle" /\ pc'[c] = "find" /\ seen' = seen
GoesOn(c) ==
  /\ pc[c] # "idle" /\ pc'[c] # "idle"
  /\ call'[c] = call[c]
  /\ seen'[c] \in {seen[c], NoRow} \cup rows
  /\ (orphan[c] /\ pc'[c] \in {"commit", "notify"}) => OwnFirst(c)'

ThreadStep(c) ==
  /\ ForCallers'
  /\ \A t \in Callers \ {c} : /\ pc'[t] = pc[t] /\ call'[t] = call[t] /\ seen'[t] = seen[t]
                              /\ staged'[t] = staged[t] /\ response'[t] = response[t]
  /\ EndsCall(c) \/ BeginsCall(c) \/ GoesOn(c)

LEMMA EndSteps ==
  ASSUME OrphanInv, NEW c \in Callers, NEW how, End(c, how)
  PROVE  ThreadStep(c)
BY DEF OrphanInv, ForCallers, End, Forget, ThreadStep, EndsCall

LEMMA RetrySteps ==
  ASSUME OrphanInv, NEW c \in Callers, pc[c] # "idle", Retry(c)
  PROVE  ThreadStep(c)
<1>1. CASE attempt[c] + 1 < Retries
  <2>1. /\ Forget(c) /\ pc' = [pc EXCEPT ![c] = "find"] /\ call' = call
    BY <1>1 DEF Retry
  <2>2. QED BY <2>1 DEF OrphanInv, ForCallers, Forget, ThreadStep, GoesOn
<1>2. CASE ~(attempt[c] + 1 < Retries)
  BY <1>2, EndSteps DEF Retry
<1>3. QED BY <1>1, <1>2

\* A transaction has done its work.
LEMMA StageSteps ==
  ASSUME OrphanInv, NEW c \in Callers, pc[c] = "lookUp",
         NEW new, NEW result, NEW savedVersion, Stage(c, new, result, savedVersion),
         orphan[c] => /\ new = {result}
                      /\ result.previousVersion = NoVersion
                      /\ result.contents = call[c].contents
                      /\ savedVersion = result.version
  PROVE  ThreadStep(c)
<1>1. /\ staged' = [staged EXCEPT ![c] = new]
      /\ response' = [response EXCEPT ![c] = [document |-> result,
                                              savedVersion |-> savedVersion]]
      /\ pc' = [pc EXCEPT ![c] = "commit"]
      /\ call' = call /\ seen' = seen
  BY DEF Stage
<1>2. staged'[c] = new /\ response'[c].document = result
      /\ response'[c].savedVersion = savedVersion
  BY <1>1 DEF OrphanInv, ForCallers
<1>3. orphan[c] => OwnFirst(c)'
  BY <1>1, <1>2 DEF OwnFirst
<1>4. ForCallers' /\ GoesOn(c)
  BY <1>1, <1>3 DEF OrphanInv, ForCallers, GoesOn
<1>5. QED BY <1>1, <1>4 DEF ThreadStep, OrphanInv, ForCallers

\* A call that knows no version finds none.
LEMMA OrphanFindsNothing ==
  ASSUME OrphanInv, NEW c \in Callers, LookingUp(c)
  PROVE  ~orphan[c]
<1>1. SUFFICES ASSUME orphan[c] PROVE FALSE
  OBVIOUS
<1>2. /\ \A r \in rows : r.version # call[c].base
      /\ seen[c].version # call[c].base
  BY <1>1 DEF OrphanInv, OrphanKnowsNobody, LookingUp
<1>3. QED BY <1>2 DEF LookingUp, Previous, FindByNameAndVersion

LEMMA TransactsSteps ==
  ASSUME OrphanInv, NEW c \in Callers, Transacts(c)
  PROVE  ThreadStep(c)
<1>1. ASSUME FindHead(c) PROVE ThreadStep(c)
  <2>1. /\ pc[c] = "find" /\ pc' = [pc EXCEPT ![c] = "lookUp"]
        /\ call' = call /\ staged' = staged /\ response' = response
        /\ \E head \in {NoRow} \cup rows : seen' = [seen EXCEPT ![c] = head]
    BY <1>1 DEF FindHead, Heads
  <2>2. QED BY <2>1 DEF OrphanInv, ForCallers, ThreadStep, GoesOn
<1>2. ASSUME RefuseStranger(c) PROVE ThreadStep(c)
  BY <1>2, EndSteps DEF RefuseStranger
<1>3. ASSUME FindManyHeads(c) PROVE ThreadStep(c)
  <2>1. CASE looks[c] + 1 < FindTries
    <3>1. pc[c] = "find" /\ UNCHANGED << pc, call, seen, staged, response >>
      BY <1>3, <2>1 DEF FindManyHeads
    <3>2. QED BY <3>1 DEF OrphanInv, ForCallers, ThreadStep, GoesOn
  <2>2. CASE ~(looks[c] + 1 < FindTries)
    BY <1>3, <2>2, RetrySteps DEF FindManyHeads
  <2>3. QED BY <2>1, <2>2
<1>4. ASSUME Create(c) PROVE ThreadStep(c)
  <2>1. PICK v \in Readings :
          LET result == [version |-> v, previousVersion |-> NoVersion,
                           mergedWith |-> NoVersion,
                           description |-> call[c].description,
                           contents |-> call[c].contents]
          IN  Stage(c, {result}, result, v)
    BY <1>4 DEF Create
  <2>2. pc[c] = "lookUp"
    BY <1>4 DEF Create
  <2>3. QED BY <2>1, <2>2, StageSteps
<1>5. ASSUME PreviousNotFound(c) PROVE ThreadStep(c)
  BY <1>5, RetrySteps DEF PreviousNotFound
<1>6. ASSUME \/ ChangeDescription(c) \/ SameAsHead(c) \/ SaveOverHead(c)
             \/ Refresh(c) \/ MergeIntoHead(c)
      PROVE  ThreadStep(c)
  <2>1. LookingUp(c)
    BY <1>6 DEF ChangeDescription, SameAsHead, SaveOverHead, Refresh, MergeIntoHead, NewText
  <2>2. PICK new, result, savedVersion : Stage(c, new, result, savedVersion)
    BY <1>6 DEF ChangeDescription, SameAsHead, SaveOverHead, Refresh, MergeIntoHead
  <2>3. pc[c] = "lookUp"
    BY <2>1 DEF LookingUp
  <2>4. QED BY <2>1, <2>2, <2>3, OrphanFindsNothing, StageSteps
<1>7. ASSUME MergerFails(c) PROVE ThreadStep(c)
  BY <1>7, RetrySteps DEF MergerFails, NewText, LookingUp
<1>8. ASSUME Commit(c) PROVE ThreadStep(c)
  <2>1. /\ pc[c] = "commit" /\ pc' = [pc EXCEPT ![c] = "notify"]
        /\ UNCHANGED << call, seen, staged, response >>
    BY <1>8 DEF Commit
  <2>2. orphan[c] => OwnFirst(c)'
    BY <2>1 DEF OrphanInv, OrphanKnowsNobody, OwnFirst
  <2>3. QED BY <2>1, <2>2 DEF OrphanInv, ForCallers, ThreadStep, GoesOn
<1>9. ASSUME RollBack(c) PROVE ThreadStep(c)
  BY <1>9, RetrySteps DEF RollBack
<1>10. QED
  BY <1>1, <1>2, <1>3, <1>4, <1>5, <1>6, <1>7, <1>8, <1>9 DEF Transacts

LEMMA BeginSteps ==
  ASSUME OrphanInv, NEW c \in Callers, NEW arguments, BeginCall(c, arguments)
  PROVE  ThreadStep(c)
BY DEF OrphanInv, ForCallers, BeginCall, ThreadStep, BeginsCall

\* No step of a thread, its own or another's, makes a call that knows no version
\* know one.
LEMMA ThreadStepKeepsOrphans ==
  ASSUME OrphanInv, NEW t \in Callers, ThreadStep(t), Watched
  PROVE  OrphanInv'
<1>1. ASSUME NEW c \in Callers PROVE pc'[c] = "idle" => seen'[c] = NoRow
  BY DEF OrphanInv, ThreadStep, EndsCall, BeginsCall, GoesOn
<1>2. ASSUME NEW c \in Callers, orphan'[c]
      PROVE  OrphanKnowsNobody(c)'
  <2>1. Unknown(c)' /\ (call[c] = NoCall \/ orphan[c])
    BY <1>2 DEF Watched
  <2>2. call'[c] # NoCall /\ \A r \in rows' : r.version # call'[c].base
    BY <2>1 DEF Unknown
  <2>3. CASE c # t
    <3>1. /\ pc'[c] = pc[c] /\ call'[c] = call[c] /\ seen'[c] = seen[c]
          /\ staged'[c] = staged[c] /\ response'[c] = response[c]
      BY <2>3 DEF ThreadStep
    <3>2. orphan[c]
      BY <2>1, <2>2, <3>1
    <3>3. QED BY <2>2, <3>1, <3>2 DEF OrphanInv, OrphanKnowsNobody, OwnFirst
  <2>4. CASE c = t /\ BeginsCall(c)
    BY <2>2, <2>4 DEF OrphanInv, OrphanKnowsNobody, BeginsCall
  <2>5. CASE c = t /\ GoesOn(c)
    <3>1. orphan[c]
      BY <2>1, <2>2, <2>5 DEF GoesOn
    <3>2. \A r \in {seen[c], NoRow} \cup rows : r # NoRow => r.version # call[c].base
      BY <3>1 DEF OrphanInv, OrphanKnowsNobody
    <3>3. QED BY <2>2, <2>5, <3>1, <3>2 DEF OrphanKnowsNobody, GoesOn
  <2>6. QED BY <2>2, <2>3, <2>4, <2>5 DEF ThreadStep, EndsCall
<1>3. ForCallers'
  BY DEF ThreadStep
<1>4. \A c \in Callers : OrphanKnowsNobody(c)'
  BY <1>2 DEF OrphanKnowsNobody
<1>5. QED BY <1>1, <1>3, <1>4 DEF OrphanInv

\* Nor does a deletion or a page that is opened.
LEMMA CallersRestKeepsOrphans ==
  ASSUME OrphanInv, UNCHANGED caller, Watched
  PROVE  OrphanInv'
<1>1. UNCHANGED << pc, call, seen, staged, response >>
  BY DEF caller
<1>2. ASSUME NEW c \in Callers, orphan'[c] PROVE OrphanKnowsNobody(c)'
  <2>1. Unknown(c)' /\ (call[c] = NoCall \/ orphan[c])
    BY <1>2 DEF Watched
  <2>2. orphan[c] /\ \A r \in rows' : r.version # call'[c].base
    BY <1>1, <2>1 DEF Unknown
  <2>3. QED BY <1>1, <2>2 DEF OrphanInv, OrphanKnowsNobody, OwnFirst
<1>3. \A c \in Callers : OrphanKnowsNobody(c)'
  BY <1>2 DEF OrphanKnowsNobody
<1>4. QED BY <1>1, <1>3 DEF OrphanInv, ForCallers

LEMMA OrphanInductive == StaleSpec => []OrphanInv
<1>1. StaleInit => OrphanInv
  BY DEF StaleInit, Init, OrphanInv, ForCallers, OrphanKnowsNobody
<1>2. OrphanInv /\ [StaleNext]_svars => OrphanInv'
  <2>1. SUFFICES ASSUME OrphanInv, [StaleNext]_svars PROVE OrphanInv'
    OBVIOUS
  <2>2. ASSUME NEW p \in Callers, Open(p) PROVE OrphanInv'
    BY <2>1, <2>2, CallersRestKeepsOrphans DEF Open, vars
  <2>3. ASSUME NEW p \in Callers, ScriptSaves(p) \/ FormSaves(p) PROVE OrphanInv'
    <3>1. Watched /\ \E arguments : BeginCall(p, arguments)
      BY <2>3 DEF ScriptSaves, FormSaves, Sends
    <3>2. QED BY <2>1, <3>1, BeginSteps, ThreadStepKeepsOrphans
  <2>4. ASSUME NEW p \in Callers, AnswerArrives(p) PROVE OrphanInv'
    <3>1. Watched /\ End(p, "answered")
      BY <2>4 DEF AnswerArrives, Notify
    <3>2. QED BY <2>1, <3>1, EndSteps, ThreadStepKeepsOrphans
  <2>5. ASSUME NEW p \in Callers, RunsOn(p) PROVE OrphanInv'
    <3>1. ThreadStep(p)
      <4>1. CASE TransactionFails(p)
        BY <2>1, <4>1, RetrySteps DEF TransactionFails
      <4>2. CASE CallLost(p)
        BY <2>1, <4>2, EndSteps DEF CallLost
      <4>3. QED BY <2>1, <2>5, <4>1, <4>2, TransactsSteps DEF RunsOn
    <3>2. QED BY <2>1, <2>5, <3>1, ThreadStepKeepsOrphans DEF RunsOn
  <2>6. ASSUME NEW p \in Callers, PressDelete(p) PROVE OrphanInv'
    <3>1. Watched /\ UNCHANGED caller
      BY <2>6 DEF PressDelete, DeleteFinds, vars
    <3>2. QED BY <2>1, <3>1, CallersRestKeepsOrphans
  <2>7. ASSUME NEW d \in Deleters, DeleteSelected(d) \/ DeleteEnds(d) PROVE OrphanInv'
    <3>1. Watched /\ UNCHANGED caller
      BY <2>7 DEF DeleteSelected, DeleteEnds, DeleteFinds, DeleteCommits, DeleteFails
    <3>2. QED BY <2>1, <3>1, CallersRestKeepsOrphans
  <2>8. CASE UNCHANGED svars
    BY <2>1, <2>8 DEF svars, vars, caller, OrphanInv, ForCallers, OrphanKnowsNobody, OwnFirst
  <2>9. QED
    BY <2>1, <2>2, <2>3, <2>4, <2>5, <2>6, <2>7, <2>8 DEF StaleNext, PageStep
<1>3. QED BY <1>1, <1>2, PTL DEF StaleSpec

\* DocumentManagerBean.java:65-71: for any number of pages, texts, faults and
\* deletions, and any clocks, a save whose version is gone when it begins, and does not
\* come back, touches no other document of that name.
THEOREM OrphansAlwaysOnlyCreate == StaleSpec => []OrphansOnlyCreate
<1>1. OrphanInv => OrphansOnlyCreate
  BY DEF OrphanInv, OrphanKnowsNobody, OwnFirst, OrphansOnlyCreate
<1>2. QED BY <1>1, OrphanInductive, PTL
=============================================================================
