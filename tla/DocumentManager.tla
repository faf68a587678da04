--------------------------- MODULE DocumentManager ---------------------------
(***************************************************************************)
(* DocumentServiceImpl.createOrUpdate with the transaction it retries      *)
(* (DocumentManagerBean.createOrUpdate over DocumentControllerBean), and   *)
(* delete, for any number of concurrent requests on one document.          *)
(*                                                                         *)
(* Transactions are READ COMMITTED: each query of a transaction is a step  *)
(* of its own and reads what is committed at that moment; its inserts are  *)
(* seen by others, and checked against them, when it commits.              *)
(***************************************************************************)
EXTENDS SimpleMerger

CONSTANTS
  Callers,     \* request threads that save documents
  Strangers,   \* those of them whose user has no account
  Deleters,    \* request threads that delete the document
  Inputs,      \* the texts the callers send
  Descriptions, \* the descriptions they send
  Retries,     \* DocumentServiceImpl.RETRIES (20)
  FindTries,   \* looks of DocumentControllerBean.findByName (10)
  ClockSkew,   \* how far the clocks of two bean instances are apart
  ClockStep,   \* bound: how far a clock moves between two versions
  MaxCalls,    \* bound: calls that are started
  MaxDeletes,  \* bound: deletions that are started
  MaxFaults    \* bound: transactions that fail and threads that die

ASSUME ManagerAssumption ==
  /\ Strangers \subseteq Callers
  /\ Inputs \subseteq Text
  /\ Retries \in Nat \ {0}
  /\ FindTries \in Nat \ {0}
  /\ ClockSkew \in Nat
  /\ ClockStep \in Nat \ {0}
  /\ MaxCalls \in Nat
  /\ MaxDeletes \in Nat
  /\ MaxFaults \in Nat

INSTANCE DocumentStore WITH Contents <- Text

VARIABLES
  rows,      \* the committed rows of the document
  clock,     \* the newest version anyone generated
  pushed,    \* the versions sent to the websocket channel
  pc,        \* where a caller's thread is
  call,      \* its arguments
  attempt,   \* transactions it has already lost (t)
  looks,     \* times findByName has seen several heads (i)
  seen,      \* dbDocumentHead
  staged,    \* rows its transaction will insert
  response,  \* the UpdateSummary it will return
  outcome,   \* how its last call ended
  doomed,    \* rows a deleter has read and will remove
  calls, deletes, faults  \* counters for the bounds

caller == << pc, call, attempt, looks, seen, staged, response, outcome >>
bounds == << calls, deletes, faults >>
vars   == << rows, clock, pushed, caller, doomed, bounds >>

Call     == [contents : Inputs, description : Descriptions, base : Version \cup {NoVersion}]
Response == [document : Row, savedVersion : Version \cup {NoVersion}]

\* What a call keeps nothing of.
NoCall     == [base |-> NoVersion]
NoResponse == [savedVersion |-> NoVersion]

CallerTypeOK ==
  /\ pc \in [Callers -> {"idle", "find", "lookUp", "commit", "notify"}]
  /\ call \in [Callers -> Call \cup {NoCall}]
  /\ attempt \in [Callers -> 0..(Retries - 1)]
  /\ looks \in [Callers -> 0..(FindTries - 1)]
  /\ seen \in [Callers -> Row \cup {NoRow}]
  /\ staged \in [Callers -> SUBSET Row]
  /\ response \in [Callers -> Response \cup {NoResponse}]
  /\ outcome \in [Callers -> {"none", "answered", "refused", "failed", "lost"}]

\* Every variable holds what its column, field or local variable can hold; the
\* loop counters of DocumentServiceImpl.java:71 and DocumentControllerBean.java:33
\* stay below their limits.
TypeOK ==
  /\ rows \subseteq Row
  /\ clock \in Nat
  /\ pushed \subseteq Version
  /\ CallerTypeOK
  /\ doomed \in [Deleters -> SUBSET Row]
  /\ calls \in 0..MaxCalls
  /\ deletes \in 0..MaxDeletes
  /\ faults \in 0..MaxFaults

Init ==
  /\ rows = {}
  /\ clock = 0
  /\ pushed = {}
  /\ pc = [c \in Callers |-> "idle"]
  /\ call = [c \in Callers |-> NoCall]
  /\ attempt = [c \in Callers |-> 0]
  /\ looks = [c \in Callers |-> 0]
  /\ seen = [c \in Callers |-> NoRow]
  /\ staged = [c \in Callers |-> {}]
  /\ response = [c \in Callers |-> NoResponse]
  /\ outcome = [c \in Callers |-> "none"]
  /\ doomed = [d \in Deleters |-> {}]
  /\ calls = 0
  /\ deletes = 0
  /\ faults = 0

-----------------------------------------------------------------------------
(* How a thread leaves a transaction                                       *)

\* The transaction is over: nothing of it stays in the thread.
Forget(c) ==
  /\ looks' = [looks EXCEPT ![c] = 0]
  /\ seen' = [seen EXCEPT ![c] = NoRow]
  /\ staged' = [staged EXCEPT ![c] = {}]
  /\ response' = [response EXCEPT ![c] = NoResponse]

\* The call is over.
End(c, how) ==
  /\ Forget(c)
  /\ pc' = [pc EXCEPT ![c] = "idle"]
  /\ call' = [call EXCEPT ![c] = NoCall]
  /\ attempt' = [attempt EXCEPT ![c] = 0]
  /\ outcome' = [outcome EXCEPT ![c] = how]

\* Mutant: one attempt too many.
RetryOnceMore(c) ==
  IF attempt[c] < Retries
  THEN /\ Forget(c)
       /\ pc' = [pc EXCEPT ![c] = "find"]
       /\ attempt' = [attempt EXCEPT ![c] = @ + 1]
       /\ UNCHANGED << call, outcome >>
  ELSE End(c, "failed")

\* Mutant: one attempt too few.
RetryOnceLess(c) ==
  IF attempt[c] + 2 < Retries
  THEN /\ Forget(c)
       /\ pc' = [pc EXCEPT ![c] = "find"]
       /\ attempt' = [attempt EXCEPT ![c] = @ + 1]
       /\ UNCHANGED << call, outcome >>
  ELSE End(c, "failed")

\* Any Throwable but UserNotFoundException: the next attempt, or the EJBException.
Retry(c) ==
  IF attempt[c] + 1 < Retries
  THEN /\ Forget(c)
       /\ pc' = [pc EXCEPT ![c] = "find"]
       /\ attempt' = [attempt EXCEPT ![c] = @ + 1]
       /\ UNCHANGED << call, outcome >>
  ELSE End(c, "failed")

\* Mutant: only what is returned is stored, the draft of a merge is not.
StageDocumentOnly(c, new, document, savedVersion) ==
  /\ staged' = [staged EXCEPT ![c] = IF new = {} THEN {} ELSE {document}]
  /\ response' = [response EXCEPT ![c] = [document |-> document, savedVersion |-> savedVersion]]
  /\ pc' = [pc EXCEPT ![c] = "commit"]
  /\ UNCHANGED << rows, pushed, call, attempt, looks, seen, outcome, doomed, bounds >>

\* Mutant: the version of the merge is returned as the version of the draft.
StageMergeAsSaved(c, new, document, savedVersion) ==
  /\ staged' = [staged EXCEPT ![c] = new]
  /\ response' = [response EXCEPT ![c] =
                    [document |-> document,
                     savedVersion |-> IF savedVersion = NoVersion
                                      THEN NoVersion ELSE document.version]]
  /\ pc' = [pc EXCEPT ![c] = "commit"]
  /\ UNCHANGED << rows, pushed, call, attempt, looks, seen, outcome, doomed, bounds >>

\* The transaction's work is done: what it will insert and what it will return.
Stage(c, new, document, savedVersion) ==
  /\ staged' = [staged EXCEPT ![c] = new]
  /\ response' = [response EXCEPT ![c] = [document |-> document, savedVersion |-> savedVersion]]
  /\ pc' = [pc EXCEPT ![c] = "commit"]
  /\ UNCHANGED << rows, pushed, call, attempt, looks, seen, outcome, doomed, bounds >>

-----------------------------------------------------------------------------
(* DocumentServiceImpl.createOrUpdate and DocumentManagerBean.createOrUpdate *)

\* A version the server has given out, or none.
GivenOut == {NoVersion} \cup {r.version : r \in rows} \cup pushed

\* A thread takes a request.
BeginCall(c, arguments) ==
  /\ pc[c] = "idle"
  /\ calls < MaxCalls
  /\ call' = [call EXCEPT ![c] = arguments]
  /\ pc' = [pc EXCEPT ![c] = "find"]
  /\ outcome' = [outcome EXCEPT ![c] = "none"]
  /\ calls' = calls + 1
  /\ UNCHANGED << rows, clock, pushed, attempt, looks, seen, staged, response,
                  doomed, deletes, faults >>

StartCall(c) ==
  \E contents \in Inputs, description \in Descriptions, base \in GivenOut :
    BeginCall(c, [contents |-> contents, description |-> description, base |-> base])

\* findByName finds no row or one, then the owner of the change is looked up:
\* UserNotFoundException is the one failure that is not retried.
FindHead(c) ==
  /\ pc[c] = "find"
  /\ \/ Heads(rows) = {} /\ seen' = [seen EXCEPT ![c] = NoRow]
     \/ \E head \in Heads(rows) : /\ Heads(rows) = {head}
                                  /\ seen' = [seen EXCEPT ![c] = head]
  /\ c \notin Strangers
  /\ pc' = [pc EXCEPT ![c] = "lookUp"]
  /\ UNCHANGED << rows, clock, pushed, call, attempt, looks, staged, response,
                  outcome, doomed, bounds >>

RefuseStranger(c) ==
  /\ pc[c] = "find"
  /\ c \in Strangers
  /\ \A h1, h2 \in Heads(rows) : h1 = h2
  /\ End(c, "refused")
  /\ UNCHANGED << rows, clock, pushed, doomed, bounds >>

\* Several heads: findByName sleeps and looks again, at last it gives up.
FindManyHeads(c) ==
  /\ pc[c] = "find"
  /\ \E h1, h2 \in Heads(rows) : h1 # h2
  /\ IF looks[c] + 1 < FindTries
     THEN /\ looks' = [looks EXCEPT ![c] = @ + 1]
          /\ UNCHANGED << pc, call, attempt, seen, staged, response, outcome >>
     ELSE Retry(c)
  /\ UNCHANGED << rows, clock, pushed, doomed, bounds >>

\* Mutant: a version that is not there is taken for the head.
PreviousOrHead(c) ==
  IF \E r \in rows : r.version = call[c].base
  THEN FindByNameAndVersion(rows, call[c].base)
  ELSE seen[c]

\* dbDocumentPrevious: the head itself if the caller has seen it.
Previous(c) ==
  IF seen[c].version = call[c].base
  THEN seen[c]
  ELSE FindByNameAndVersion(rows, call[c].base)

\* currentTimeNano: every bean instance has a clock of its own.  If they agree
\* (ClockSkew = 0) a reading is newer than every version generated before it.
Readings == {v \in (clock - ClockSkew + 1)..(clock + ClockStep) : v > 0}

\* generateNewVersion: the newest version then.
Generated(v) == IF v > clock THEN v ELSE clock

\* generateSecondNewVersion: a reading made after v, plus one.
SecondReadings(v) == (v + 1)..(v + ClockStep)

LookingUp(c) == pc[c] = "lookUp" /\ seen[c] # NoRow /\ Previous(c) # NoRow

NewDescription(c) ==
  call[c].description \notin {seen[c].description, Previous(c).description}

Create(c) ==
  /\ pc[c] = "lookUp"
  /\ seen[c] = NoRow
  /\ \E v \in Readings :
       /\ clock' = Generated(v)
       /\ LET document == [version |-> v, previousVersion |-> NoVersion,
                           mergedWith |-> NoVersion,
                           description |-> call[c].description,
                           contents |-> call[c].contents]
          IN  Stage(c, {document}, document, v)

\* No row has the caller's version: EJBException.
PreviousNotFound(c) ==
  /\ pc[c] = "lookUp"
  /\ seen[c] # NoRow
  /\ Previous(c) = NoRow
  /\ Retry(c)
  /\ UNCHANGED << rows, clock, pushed, doomed, bounds >>

\* Another description: the head is saved with it, the caller's text is not.
ChangeDescription(c) ==
  /\ LookingUp(c)
  /\ NewDescription(c)
  /\ \E v \in Readings :
       /\ clock' = Generated(v)
       /\ LET document == [version |-> v, previousVersion |-> seen[c].version,
                           mergedWith |-> NoVersion,
                           description |-> call[c].description,
                           contents |-> seen[c].contents]
          IN  Stage(c, {document}, document, NoVersion)

\* The head has this text already.
SameAsHead(c) ==
  /\ LookingUp(c)
  /\ ~NewDescription(c)
  /\ seen[c].contents = call[c].contents
  /\ Stage(c, {}, seen[c], seen[c].version)
  /\ UNCHANGED clock

NewText(c) ==
  /\ LookingUp(c)
  /\ ~NewDescription(c)
  /\ seen[c].contents # call[c].contents

\* The caller's text was typed over the head.
SaveOverHead(c) ==
  /\ NewText(c)
  /\ Previous(c) = seen[c]
  /\ \E v \in Readings :
       /\ clock' = Generated(v)
       /\ LET document == [version |-> v, previousVersion |-> seen[c].version,
                           mergedWith |-> NoVersion,
                           description |-> call[c].description,
                           contents |-> call[c].contents]
          IN  Stage(c, {document}, document, v)

\* The caller has changed nothing since its version: it gets the head.
Refresh(c) ==
  /\ NewText(c)
  /\ Previous(c) # seen[c]
  /\ Previous(c).contents = call[c].contents
  /\ ~MergeThrows(seen[c].contents, call[c].contents)
  /\ Stage(c, {}, seen[c], NoVersion)
  /\ UNCHANGED clock

\* The caller's text is kept as a draft and merged into the head.
MergeIntoHead(c) ==
  /\ NewText(c)
  /\ Previous(c) # seen[c]
  /\ Previous(c).contents # call[c].contents
  /\ ~MergeThrows(seen[c].contents, call[c].contents)
  /\ \E v \in Readings : \E w \in SecondReadings(v) :
       /\ clock' = Generated(w)
       /\ LET draft == [version |-> v, previousVersion |-> v,
                        mergedWith |-> Previous(c).version,
                        description |-> call[c].description,
                        contents |-> call[c].contents]
              merged == [version |-> w, previousVersion |-> seen[c].version,
                         mergedWith |-> v,
                         description |-> call[c].description,
                         contents |-> MergedText(Previous(c).contents, seen[c].contents,
                                                 call[c].contents)]
          IN  Stage(c, {draft, merged}, merged, v)

\* StringIndexOutOfBoundsException out of the merger.
MergerFails(c) ==
  /\ NewText(c)
  /\ Previous(c) # seen[c]
  /\ MergeThrows(seen[c].contents, call[c].contents)
  /\ Retry(c)
  /\ UNCHANGED << rows, clock, pushed, doomed, bounds >>

\* The transaction commits unless a unique constraint forbids its inserts.
Commit(c) ==
  /\ pc[c] = "commit"
  /\ Insertable(rows, staged[c])
  /\ rows' = rows \cup staged[c]
  /\ pc' = [pc EXCEPT ![c] = "notify"]
  /\ UNCHANGED << clock, pushed, call, attempt, looks, seen, staged, response,
                  outcome, doomed, bounds >>

RollBack(c) ==
  /\ pc[c] = "commit"
  /\ ~Insertable(rows, staged[c])
  /\ Retry(c)
  /\ UNCHANGED << rows, clock, pushed, doomed, bounds >>

\* Mutant: only texts the caller does not have are announced.
NotifyOfMerges(c) ==
  /\ pc[c] = "notify"
  /\ pushed' = IF call[c].contents # response[c].document.contents
               THEN pushed \cup {response[c].document.version}
               ELSE pushed
  /\ End(c, "answered")
  /\ UNCHANGED << rows, clock, doomed, bounds >>

\* A version the caller does not have goes to the websocket channel; then the
\* call returns.
Notify(c) ==
  /\ pc[c] = "notify"
  /\ pushed' = IF call[c].base # response[c].document.version
               THEN pushed \cup {response[c].document.version}
               ELSE pushed
  /\ End(c, "answered")
  /\ UNCHANGED << rows, clock, doomed, bounds >>

\* Any other Throwable: the database, the container or the websocket push.
TransactionFails(c) ==
  /\ pc[c] # "idle"
  /\ faults < MaxFaults
  /\ faults' = faults + 1
  /\ Retry(c)
  /\ UNCHANGED << rows, clock, pushed, doomed, calls, deletes >>

\* The server dies, or the answer never reaches the caller.
CallLost(c) ==
  /\ pc[c] # "idle"
  /\ faults < MaxFaults
  /\ faults' = faults + 1
  /\ End(c, "lost")
  /\ UNCHANGED << rows, clock, pushed, doomed, calls, deletes >>

-----------------------------------------------------------------------------
(* DocumentControllerBean.delete                                           *)

\* Mutant: the drafts stay behind.
DeleteFindsPublished(d) ==
  /\ doomed[d] = {}
  /\ rows # {}
  /\ deletes < MaxDeletes
  /\ deletes' = deletes + 1
  /\ doomed' = [doomed EXCEPT ![d] = Published(rows)]
  /\ UNCHANGED << rows, clock, pushed, caller, calls, faults >>

\* FIND_VERSIONS_BY_NAME; DocumentNotFoundException when there is no row.
DeleteFinds(d) ==
  /\ doomed[d] = {}
  /\ rows # {}
  /\ deletes < MaxDeletes
  /\ deletes' = deletes + 1
  /\ doomed' = [doomed EXCEPT ![d] = rows]
  /\ UNCHANGED << rows, clock, pushed, caller, calls, faults >>

\* The rows go, for another deletion that has read them too: it finds them by their ids,
\* which no later row has.
DeleteCommits(d) ==
  /\ doomed[d] # {}
  /\ rows' = rows \ doomed[d]
  /\ doomed' = [e \in Deleters |-> doomed[e] \ doomed[d]]
  /\ UNCHANGED << clock, pushed, caller, bounds >>

DeleteFails(d) ==
  /\ doomed[d] # {}
  /\ faults < MaxFaults
  /\ faults' = faults + 1
  /\ doomed' = [doomed EXCEPT ![d] = {}]
  /\ UNCHANGED << rows, clock, pushed, caller, calls, deletes >>

-----------------------------------------------------------------------------

\* What a thread does by itself once its call has started.
Transacts(c) ==
  \/ FindHead(c) \/ RefuseStranger(c) \/ FindManyHeads(c)
  \/ Create(c) \/ PreviousNotFound(c) \/ ChangeDescription(c) \/ SameAsHead(c)
  \/ SaveOverHead(c) \/ Refresh(c) \/ MergeIntoHead(c) \/ MergerFails(c)
  \/ Commit(c) \/ RollBack(c)

Works(c) == Transacts(c) \/ Notify(c)

Saves(c) == StartCall(c) \/ Works(c) \/ TransactionFails(c) \/ CallLost(c)

Deletes(d) == DeleteFinds(d) \/ DeleteCommits(d) \/ DeleteFails(d)

UpdateNext == \E c \in Callers : Saves(c)
Next       == UpdateNext \/ \E d \in Deleters : Deletes(d)

\* Documents that are never deleted, and documents that are.
UpdateSpec == Init /\ [][UpdateNext]_vars
Spec       == Init /\ [][Next]_vars

-----------------------------------------------------------------------------
(* Correctness                                                             *)

\* README.txt:79 over Document.java:25-26, while nothing is deleted.  A document
\* that exists has exactly one head, however its writers interleave, fail and
\* are retried.
OneHead == rows # {} => \E h \in rows : Heads(rows) = {h}

\* DocumentManagerBean.java:127-148.  The texts of a merge were read in three
\* queries before the commit, and still every merge in the table is the merge
\* of the texts its row points at: the head it replaced, the draft, and the
\* version the draft started from; and every draft went into one such row.
MergesAreFaithful ==
  /\ \A m \in Published(rows) :
       m.mergedWith # NoVersion =>
         \E draft, base, previous \in rows :
           /\ IsDraft(draft)
           /\ draft.version = m.mergedWith
           /\ base.version = draft.mergedWith
           /\ previous.version = m.previousVersion
           /\ m.contents = MergedText(base.contents, previous.contents, draft.contents)
  /\ \A r \in rows \ Published(rows) :
       \E m \in Published(rows) :
         {n \in Published(rows) : n.mergedWith = r.version} = {m}

\* DocumentManagerBean.java:42-44 as Document.xhtml:127-152 relies on it.  What
\* a call is about to return is committed: the document as a version of the
\* history, and under savedVersion exactly the text the caller sent.
AnswersAreCommitted ==
  \A c \in Callers : pc[c] = "notify" =>
    /\ response[c].document \in Published(rows)
    /\ response[c].savedVersion # NoVersion =>
         \E r \in rows : /\ r.version = response[c].savedVersion
                         /\ r.contents = call[c].contents

\* DocumentServiceImpl.java:76-79 against Document.xhtml:88.  Pushes are sent
\* after the commits and in another order, and the clocks of the bean instances
\* differ, yet once the calls are over the head has been pushed, and no other
\* pushed version is newer by as much as the clocks are apart.  (Where they
\* agree, the newest version that was pushed is the head.)
NewestPushIsHead ==
  (faults = 0 /\ \A c \in Callers : pc[c] = "idle") =>
    \A h \in Heads(rows) :
      /\ h.version \in pushed
      /\ \A v \in pushed \ {h.version} : v < h.version + ClockSkew

\* The draft and the merge that one transaction inserts.
Halves(draft, merge) == IsDraft(draft) /\ merge.mergedWith = draft.version

\* Document.java:35-42 with DocumentControllerBean.java:135-141.  A deletion
\* running against saves can leave rows without a root, but never half of a
\* merge: a row that tells of one has its other half.  Where the clocks agree
\* every draft has gone into a published version, and rows never lack a head.
\* (With clocks that differ a version can be generated again once its row is
\* deleted, and a row be saved over its own version.)
RemainsReadable ==
  /\ \A r \in rows : r.mergedWith # NoVersion =>
       \E s \in rows \ {r} : Halves(r, s) \/ Halves(s, r)
  /\ ClockSkew = 0 =>
       /\ \A r \in rows \ Published(rows) : \E m \in Published(rows) : Halves(r, m)
       /\ rows # {} => Heads(rows) # {}

-----------------------------------------------------------------------------
(* Why there is one head                                                   *)

Versions == {r.version : r \in rows}

\* A thread at work has its arguments, and what it will return once it knows.
AtWork ==
  \A c \in Callers :
    /\ pc[c] # "idle" => call[c] \in Call
    /\ pc[c] \in {"commit", "notify"} => response[c] \in Response

\* Every version but the first was saved on top of a row that is there.
PreviousIsKept ==
  /\ \A r \in rows : r.previousVersion \in Versions \cup {NoVersion}
  /\ rows # {} => \E r \in rows : r.previousVersion = NoVersion

\* What a thread has read stays in the table.
SeenIsKept == \A c \in Callers : seen[c] # NoRow => seen[c] \in rows

\* A transaction inserts one version on top of a row that is there, and beside
\* it nothing but drafts.
StagedIsHead ==
  \A c \in Callers : staged[c] # {} =>
    \E new \in staged[c] :
      /\ new.previousVersion \in Versions \cup {NoVersion}
      /\ \A s \in staged[c] : s # new => IsDraft(s)

OneHeadInv ==
  /\ TypeOK
  /\ AtWork
  /\ UniqueKeys(rows)
  /\ PreviousIsKept
  /\ OneHead
  /\ SeenIsKept
  /\ StagedIsHead
=============================================================================
