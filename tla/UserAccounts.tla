----------------------------- MODULE UserAccounts -----------------------------
(***************************************************************************)
(* The account of one user name: UserManagerBean over UserControllerBean   *)
(* for concurrent requests that save it, delete it, log in with it and     *)
(* save documents in its name.                                             *)
(*                                                                         *)
(* Each query is a step that reads what is committed then; what a          *)
(* transaction changes is written, and checked, when it commits.  A row of *)
(* a document refers to the account of its owner, so the database keeps an *)
(* account as long as there are such rows.                                 *)
(***************************************************************************)
EXTENDS Integers, FiniteSets

CONSTANTS
  Savers,      \* requests of UserEdit.xhtml that save the account
  Removers,    \* requests that delete it
  Authors,     \* sessions that log in and save documents
  Fields,      \* fullName, email, colour
  Values,      \* what they may hold
  Retries,     \* DocumentServiceImpl.RETRIES (20)
  MaxSaves,    \* bound: saves of the account
  MaxRemovals, \* bound: deletions of the account
  MaxWrites,   \* bound: documents saved
  MaxPurges    \* bound: deletions of the user's documents

ASSUME AccountsAssumption ==
  /\ Savers \cap Removers = {} /\ Savers \cap Authors = {} /\ Removers \cap Authors = {}
  /\ Values # {}
  /\ Retries \in Nat \ {0}
  /\ {MaxSaves, MaxRemovals, MaxWrites, MaxPurges} \subseteq Nat

VARIABLES
  account,   \* the committed row of the user name
  lastId,    \* the newest generated id
  owners,    \* ids that rows of documents refer to as ownerOfChange
  at,        \* where a thread is
  form,      \* the fields a saver sends
  found,     \* the entity that a thread's transaction has read
  session,   \* whether the session of an author knows the user
  attempt,   \* transactions that an author has lost
  outcome,   \* how a thread's last request ended
  saves, removals, writes, purges  \* counters for the bounds

Threads == Savers \cup Removers \cup Authors

Form    == [Fields -> Values]
Account == [id : Nat \ {0}, form : Form]

NoAccount == [id |-> 0]

\* What a saver without a request sends, to have a value.
NoForm == CHOOSE f \in Form : TRUE

table  == << account, lastId, owners >>
work   == << at, form, found, session, attempt, outcome >>
bounds == << saves, removals, writes, purges >>
avars  == << table, work, bounds >>

\* No thread is anywhere that its request does not lead to, the retry loop of
\* DocumentServiceImpl.java:71 stays below its limit, and no owner is dangling.
AccountsTypeOK ==
  /\ account \in Account \cup {NoAccount}
  /\ lastId \in Nat
  /\ owners \subseteq {account.id}
  /\ at \in [Threads -> {"idle", "look", "lookAgain", "create", "update", "find",
                         "remove", "check", "attach", "insert"}]
  /\ form \in [Savers -> Form]
  /\ found \in [Threads -> Account \cup {NoAccount}]
  /\ session \in [Authors -> BOOLEAN]
  /\ attempt \in [Authors -> 0..(Retries - 1)]
  /\ outcome \in [Threads -> {"none", "answered", "notFound", "failed"}]
  /\ saves \in 0..MaxSaves /\ removals \in 0..MaxRemovals
  /\ writes \in 0..MaxWrites /\ purges \in 0..MaxPurges

AccountsInit ==
  /\ account = NoAccount
  /\ lastId = 0
  /\ owners = {}
  /\ at = [t \in Threads |-> "idle"]
  /\ form = [s \in Savers |-> NoForm]
  /\ found = [t \in Threads |-> NoAccount]
  /\ session = [a \in Authors |-> FALSE]
  /\ attempt = [a \in Authors |-> 0]
  /\ outcome = [t \in Threads |-> "none"]
  /\ saves = 0 /\ removals = 0 /\ writes = 0 /\ purges = 0

-----------------------------------------------------------------------------

\* A thread takes a request.
Begin(t, place) ==
  /\ at[t] = "idle"
  /\ at' = [at EXCEPT ![t] = place]
  /\ outcome' = [outcome EXCEPT ![t] = "none"]

\* It goes on with what a query has found.
GoOn(t, place, entity) ==
  /\ at' = [at EXCEPT ![t] = place]
  /\ found' = [found EXCEPT ![t] = entity]

\* Its request is over: nothing of it stays.
Finish(t, how) ==
  /\ form' = [s \in Savers |-> IF s = t THEN NoForm ELSE form[s]]
  /\ at' = [at EXCEPT ![t] = "idle"]
  /\ found' = [found EXCEPT ![t] = NoAccount]
  /\ outcome' = [outcome EXCEPT ![t] = how]

-----------------------------------------------------------------------------
(* UserManagerBean.createOrUpdate                                          *)

StartSave(s) ==
  /\ saves < MaxSaves
  /\ saves' = saves + 1
  /\ Begin(s, "look")
  /\ \E fields \in Form : form' = [form EXCEPT ![s] = fields]
  /\ UNCHANGED << table, found, session, attempt, removals, writes, purges >>

\* findByName, for a summary.
Look(s) ==
  /\ at[s] = "look"
  /\ GoOn(s, IF account = NoAccount THEN "create" ELSE "lookAgain", account)
  /\ UNCHANGED << table, form, session, attempt, outcome, bounds >>

\* findByName once more, for the entity: null is not expected any more.  The
\* entity of an id that this transaction has read already is not read anew.
LookAgain(s) ==
  /\ at[s] = "lookAgain"
  /\ IF account = NoAccount
     THEN Finish(s, "failed")
     ELSE /\ GoOn(s, "update", IF account.id = found[s].id THEN found[s] ELSE account)
          /\ UNCHANGED << form, outcome >>
  /\ UNCHANGED << table, session, attempt, bounds >>

\* The new row is inserted at the commit, unless another has its name by then.
CommitCreate(s) ==
  /\ at[s] = "create"
  /\ lastId' = lastId + 1
  /\ IF account = NoAccount
     THEN /\ account' = [id |-> lastId', form |-> form[s]]
          /\ Finish(s, "answered")
     ELSE /\ UNCHANGED account
          /\ Finish(s, "failed")
  /\ UNCHANGED << owners, session, attempt, bounds >>

\* Mutant: a row that was changed since it was read is left alone.
CommitIfUntouched(s) ==
  /\ at[s] = "update"
  /\ account' = IF account = found[s] THEN [account EXCEPT !.form = form[s]] ELSE account
  /\ Finish(s, "answered")
  /\ UNCHANGED << lastId, owners, session, attempt, bounds >>

\* The columns that the form has changed are written to the row with the
\* entity's id; that there is none any more goes unnoticed.
CommitUpdate(s) ==
  /\ at[s] = "update"
  /\ LET changed(f) == form[s][f] # found[s].form[f]
     IN  account' =
           IF account.id = found[s].id
           THEN [account EXCEPT !.form =
                   [f \in Fields |-> IF changed(f) THEN form[s][f] ELSE @[f]]]
           ELSE account
  /\ Finish(s, "answered")
  /\ UNCHANGED << lastId, owners, session, attempt, bounds >>

-----------------------------------------------------------------------------
(* UserControllerBean.delete                                               *)

StartRemoval(r) ==
  /\ removals < MaxRemovals
  /\ removals' = removals + 1
  /\ Begin(r, "find")
  /\ UNCHANGED << table, form, found, session, attempt, saves, writes, purges >>

FindForRemoval(r) ==
  /\ at[r] = "find"
  /\ IF account = NoAccount
     THEN Finish(r, "notFound")
     ELSE /\ GoOn(r, "remove", account)
          /\ UNCHANGED << form, outcome >>
  /\ UNCHANGED << table, session, attempt, bounds >>

\* Mutant: the account is deleted by its name.
CommitRemovalByName(r) ==
  /\ at[r] = "remove"
  /\ account' = IF account.id \in owners THEN account ELSE NoAccount
  /\ Finish(r, IF account.id \in owners THEN "failed" ELSE "answered")
  /\ UNCHANGED << lastId, owners, session, attempt, bounds >>

\* The row of the entity is deleted, unless documents refer to it.
CommitRemoval(r) ==
  /\ at[r] = "remove"
  /\ IF found[r].id \in owners
     THEN /\ UNCHANGED account
          /\ Finish(r, "failed")
     ELSE /\ account' = IF account.id = found[r].id THEN NoAccount ELSE account
          /\ Finish(r, "answered")
  /\ UNCHANGED << lastId, owners, session, attempt, bounds >>

-----------------------------------------------------------------------------
(* Sessions                                                                *)

\* LoginPageBean.login: a session knows the user from then on.
Login(a) ==
  /\ at[a] = "idle"
  /\ account # NoAccount
  /\ session' = [session EXCEPT ![a] = TRUE]
  /\ UNCHANGED << table, at, form, found, attempt, outcome, bounds >>

StartWrite(a) ==
  /\ session[a]
  /\ writes < MaxWrites
  /\ writes' = writes + 1
  /\ Begin(a, "check")
  /\ UNCHANGED << table, form, found, session, attempt, saves, removals, purges >>

EndWrite(a, how) ==
  /\ Finish(a, how)
  /\ attempt' = [attempt EXCEPT ![a] = 0]

\* Any failure but UserNotFoundException.
TryAgain(a) ==
  IF attempt[a] + 1 < Retries
  THEN /\ GoOn(a, "check", NoAccount)
       /\ attempt' = [attempt EXCEPT ![a] = @ + 1]
       /\ UNCHANGED << form, outcome >>
  ELSE EndWrite(a, "failed")

\* The one failure that is not tried again.
UserNotFound(a) == EndWrite(a, "notFound")

\* DocumentManagerBean.createOrUpdate asks for the user.
CheckOwner(a) ==
  /\ at[a] = "check"
  /\ IF account = NoAccount
     THEN UserNotFound(a)
     ELSE /\ GoOn(a, "attach", NoAccount)
          /\ UNCHANGED << form, attempt, outcome >>
  /\ UNCHANGED << table, session, bounds >>

\* DocumentControllerBean.createOrUpdate asks again, for the owner of the row.
AttachOwner(a) ==
  /\ at[a] = "attach"
  /\ IF account = NoAccount
     THEN UserNotFound(a)
     ELSE /\ GoOn(a, "insert", account)
          /\ UNCHANGED << form, attempt, outcome >>
  /\ UNCHANGED << table, session, bounds >>

\* The transaction commits if the owner is still there.
InsertOwned(a) ==
  /\ at[a] = "insert"
  /\ IF account.id = found[a].id
     THEN /\ owners' = owners \cup {account.id}
          /\ EndWrite(a, "answered")
     ELSE /\ UNCHANGED owners
          /\ TryAgain(a)
  /\ UNCHANGED << account, lastId, session, bounds >>

\* The documents with changes of this user are deleted.
PurgeDocuments ==
  /\ purges < MaxPurges
  /\ purges' = purges + 1
  /\ owners # {}
  /\ owners' = {}
  /\ UNCHANGED << account, lastId, work, saves, removals, writes >>

-----------------------------------------------------------------------------

SaverStep(s)   == StartSave(s) \/ Look(s) \/ LookAgain(s) \/ CommitCreate(s) \/ CommitUpdate(s)
RemoverStep(r) == StartRemoval(r) \/ FindForRemoval(r) \/ CommitRemoval(r)
AuthorStep(a)  == Login(a) \/ StartWrite(a) \/ CheckOwner(a) \/ AttachOwner(a) \/ InsertOwned(a)

AccountsNext ==
  \/ \E s \in Savers : SaverStep(s)
  \/ \E r \in Removers : RemoverStep(r)
  \/ \E a \in Authors : AuthorStep(a)
  \/ PurgeDocuments

AccountsSpec == AccountsInit /\ [][AccountsNext]_avars

-----------------------------------------------------------------------------
(* Correctness                                                             *)

\* UserManagerBean.java:56-66.  A save that is answered has put its form into the
\* account: all of it if nobody committed anything between its first look and its
\* commit, and otherwise at least each column that it changed, unless the account
\* it found was deleted.
AnsweredSavesCount ==
  [][\A s \in Savers :
       (outcome[s] # "answered" /\ outcome'[s] = "answered") =>
         \/ account' # NoAccount /\ account'.form = form[s]
         \/ /\ account # found[s]
            /\ account.id = found[s].id =>
                 \A f \in Fields : form[s][f] \in {found[s].form[f], account'.form[f]}]_avars

\* UserControllerBean.java:72-80.  A deletion takes the account that it has
\* found: one that was created under the same name since is left alone, and so is
\* one that has changed a document.
DeletionsAreMeant ==
  [][account # NoAccount /\ account' # account /\ account' = NoAccount =>
       /\ account.id \notin owners
       /\ \E r \in Removers : at[r] = "remove" /\ found[r].id = account.id]_avars
=============================================================================
