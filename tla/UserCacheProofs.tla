---------------------------- MODULE UserCacheProofs ----------------------------
(***************************************************************************)
(* Accounts and their cache, for any number of requests, any fields, any   *)
(* life time of the map and any time that a request takes.                 *)
(***************************************************************************)
EXTENDS UserCache, TLAPS

-----------------------------------------------------------------------------
(* The account of a user name                                              *)

\* A thread that is past its query has found an account, and documents belong
\* to an account that is there.
FoundIsAccount ==
  /\ \A t \in Threads : at[t] \in {"lookAgain", "update", "remove", "insert"} =>
                          found[t] \in Account
  /\ account = NoAccount => owners = {}

AccountsInv == AccountsTypeOK /\ FoundIsAccount

LEMMA NoFormType == NoForm \in Form
<1>1. PICK value : value \in Values
  BY AccountsAssumption
<1>2. [f \in Fields |-> value] \in Form
  BY <1>1 DEF Form
<1>3. QED BY <1>2 DEF NoForm

LEMMA AccountsAreAccounts == NoAccount \notin Account /\ NoAccount.id = 0
BY DEF NoAccount, Account

\* A request that is over leaves a well-typed thread.
LEMMA FinishType ==
  ASSUME AccountsInv, NEW t \in Threads, Finish(t, "answered") \/ Finish(t, "notFound") \/ Finish(t, "failed")
  PROVE  /\ at' \in [Threads -> {"idle", "look", "lookAgain", "create", "update", "find",
                                 "remove", "check", "attach", "insert"}]
         /\ form' \in [Savers -> Form]
         /\ found' \in [Threads -> Account \cup {NoAccount}]
         /\ outcome' \in [Threads -> {"none", "answered", "notFound", "failed"}]
         /\ \A x \in Threads : at'[x] \in {"lookAgain", "update", "remove", "insert"} =>
                                 found'[x] \in Account
BY NoFormType DEF AccountsInv, AccountsTypeOK, FoundIsAccount, Finish

LEMMA SaverStepInv ==
  ASSUME AccountsInv, NEW s \in Savers, SaverStep(s)
  PROVE  AccountsInv'
<1>1. s \in Threads /\ s \notin Authors
  BY AccountsAssumption DEF Threads
<1>2. CASE StartSave(s)
  <2>1. saves' \in 0..MaxSaves
    BY <1>2, AccountsAssumption DEF StartSave, AccountsInv, AccountsTypeOK
  <2>2. QED BY <1>1, <1>2, <2>1 DEF StartSave, Begin, table, AccountsInv, AccountsTypeOK, FoundIsAccount
<1>3. CASE Look(s)
  <2>1. account = NoAccount \/ account \in Account
    BY DEF AccountsInv, AccountsTypeOK
  <2>2. QED BY <1>1, <1>3, <2>1 DEF Look, GoOn, table, bounds, AccountsInv, AccountsTypeOK, FoundIsAccount
<1>4. CASE LookAgain(s)
  <2>1. CASE account = NoAccount
    BY <1>1, <1>4, <2>1, FinishType DEF LookAgain, table, bounds, AccountsInv, AccountsTypeOK, FoundIsAccount
  <2>2. CASE account # NoAccount
    <3>1. account \in Account /\ found[s] \in Account
      BY <1>1, <1>4, <2>2 DEF LookAgain, AccountsInv, AccountsTypeOK, FoundIsAccount
    <3>2. QED
      BY <1>1, <1>4, <2>2, <3>1 DEF LookAgain, GoOn, table, bounds, AccountsInv, AccountsTypeOK, FoundIsAccount
  <2>3. QED BY <2>1, <2>2
<1>5. CASE CommitCreate(s)
  <2>1. CASE account = NoAccount
    <3>1. account' \in Account /\ lastId' \in Nat
      BY <1>5, <2>1 DEF CommitCreate, AccountsInv, AccountsTypeOK, Account
    <3>2. owners' = {}
      BY <1>5, <2>1 DEF CommitCreate, AccountsInv, FoundIsAccount
    <3>3. QED
      BY <1>1, <1>5, <2>1, <3>1, <3>2, FinishType, AccountsAreAccounts
         DEF CommitCreate, bounds, AccountsInv, AccountsTypeOK, FoundIsAccount
  <2>2. CASE account # NoAccount
    BY <1>1, <1>5, <2>2, FinishType
       DEF CommitCreate, bounds, AccountsInv, AccountsTypeOK, FoundIsAccount
  <2>3. QED BY <2>1, <2>2
<1>6. CASE CommitUpdate(s)
  <2>1. found[s] \in Account /\ form[s] \in Form
    BY <1>1, <1>6 DEF CommitUpdate, AccountsInv, AccountsTypeOK, FoundIsAccount
  <2>2. account' = account \/ (account \in Account /\ account' \in Account /\ account'.id = account.id)
    <3>1. CASE account.id = found[s].id
      <4>1. account \in Account
        BY <2>1, <3>1 DEF AccountsInv, AccountsTypeOK, NoAccount, Account
      <4>2. [f \in Fields |-> IF form[s][f] # found[s].form[f] THEN form[s][f]
                              ELSE account.form[f]] \in Form
        BY <2>1, <4>1 DEF Form, Account
      <4>3. QED BY <1>6, <3>1, <4>1, <4>2 DEF CommitUpdate, Account
    <3>2. CASE account.id # found[s].id
      BY <1>6, <3>2 DEF CommitUpdate
    <3>3. QED BY <3>1, <3>2
  <2>3. QED
    BY <1>1, <1>6, <2>2, FinishType, AccountsAreAccounts
       DEF CommitUpdate, bounds, AccountsInv, AccountsTypeOK, FoundIsAccount
<1>7. QED BY <1>2, <1>3, <1>4, <1>5, <1>6 DEF SaverStep

LEMMA RemoverStepInv ==
  ASSUME AccountsInv, NEW r \in Removers, RemoverStep(r)
  PROVE  AccountsInv'
<1>1. r \in Threads /\ r \notin Savers /\ r \notin Authors
  BY AccountsAssumption DEF Threads
<1>2. CASE StartRemoval(r)
  <2>1. removals' \in 0..MaxRemovals
    BY <1>2, AccountsAssumption DEF StartRemoval, AccountsInv, AccountsTypeOK
  <2>2. QED BY <1>1, <1>2, <2>1 DEF StartRemoval, Begin, table, AccountsInv, AccountsTypeOK, FoundIsAccount
<1>3. CASE FindForRemoval(r)
  <2>1. CASE account = NoAccount
    BY <1>1, <1>3, <2>1, FinishType DEF FindForRemoval, table, bounds, AccountsInv, AccountsTypeOK, FoundIsAccount
  <2>2. CASE account # NoAccount
    BY <1>1, <1>3, <2>2 DEF FindForRemoval, GoOn, table, bounds, AccountsInv, AccountsTypeOK, FoundIsAccount
  <2>3. QED BY <2>1, <2>2
<1>4. CASE CommitRemoval(r)
  <2>1. /\ account' \in {account, NoAccount}
        /\ account' # account => owners = {}
    BY <1>4 DEF CommitRemoval, AccountsInv, AccountsTypeOK
  <2>2. QED
    BY <1>1, <1>4, <2>1, FinishType
       DEF CommitRemoval, bounds, AccountsInv, AccountsTypeOK, FoundIsAccount
<1>5. QED BY <1>2, <1>3, <1>4 DEF RemoverStep

LEMMA EndWriteInv ==
  ASSUME AccountsInv, NEW a \in Authors,
         EndWrite(a, "answered") \/ EndWrite(a, "notFound") \/ EndWrite(a, "failed"),
         UNCHANGED << account, lastId, session, bounds >>,
         owners' = owners \/ (account # NoAccount /\ owners' = owners \cup {account.id})
  PROVE  AccountsInv'
<1>1. a \in Threads
  BY DEF Threads
<1>2. attempt' \in [Authors -> 0..(Retries - 1)]
  BY AccountsAssumption DEF EndWrite, AccountsInv, AccountsTypeOK
<1>3. QED BY <1>1, <1>2, FinishType DEF EndWrite, bounds, AccountsInv, AccountsTypeOK, FoundIsAccount

LEMMA AuthorStepInv ==
  ASSUME AccountsInv, NEW a \in Authors, AuthorStep(a)
  PROVE  AccountsInv'
<1>1. a \in Threads /\ a \notin Savers
  BY AccountsAssumption DEF Threads
<1>2. CASE Login(a)
  BY <1>2 DEF Login, table, bounds, AccountsInv, AccountsTypeOK, FoundIsAccount
<1>3. CASE StartWrite(a)
  <2>1. writes' \in 0..MaxWrites
    BY <1>3, AccountsAssumption DEF StartWrite, AccountsInv, AccountsTypeOK
  <2>2. QED BY <1>1, <1>3, <2>1 DEF StartWrite, Begin, table, AccountsInv, AccountsTypeOK, FoundIsAccount
<1>4. CASE (CheckOwner(a) \/ AttachOwner(a)) /\ account = NoAccount
  BY <1>4, EndWriteInv DEF CheckOwner, AttachOwner, UserNotFound, table
<1>5. CASE (CheckOwner(a) \/ AttachOwner(a)) /\ account # NoAccount
  BY <1>1, <1>5 DEF CheckOwner, AttachOwner, GoOn, table, bounds, AccountsInv, AccountsTypeOK, FoundIsAccount
<1>6. CASE InsertOwned(a)
  <2>1. found[a] \in Account
    BY <1>1, <1>6 DEF InsertOwned, AccountsInv, FoundIsAccount
  <2>2. CASE account.id = found[a].id
    <3>1. account # NoAccount
      BY <2>1, <2>2 DEF NoAccount, Account
    <3>2. QED BY <1>6, <2>2, <3>1, EndWriteInv DEF InsertOwned
  <2>3. CASE account.id # found[a].id /\ attempt[a] + 1 < Retries
    <3>1. attempt' \in [Authors -> 0..(Retries - 1)]
      BY <1>6, <2>3, AccountsAssumption DEF InsertOwned, TryAgain, AccountsInv, AccountsTypeOK
    <3>2. QED
      BY <1>1, <1>6, <2>3, <3>1
         DEF InsertOwned, TryAgain, GoOn, bounds, AccountsInv, AccountsTypeOK, FoundIsAccount
  <2>4. CASE account.id # found[a].id /\ ~(attempt[a] + 1 < Retries)
    BY <1>6, <2>4, EndWriteInv DEF InsertOwned, TryAgain
  <2>5. QED BY <2>2, <2>3, <2>4
<1>7. QED BY <1>2, <1>3, <1>4, <1>5, <1>6 DEF AuthorStep

\* One step of anyone.
LEMMA AccountsStepInv ==
  ASSUME AccountsInv, [AccountsNext]_avars
  PROVE  AccountsInv'
<1>1. CASE PurgeDocuments
  <2>1. purges' \in 0..MaxPurges
    BY <1>1, AccountsAssumption DEF PurgeDocuments, AccountsInv, AccountsTypeOK
  <2>2. QED BY <1>1, <2>1 DEF PurgeDocuments, work, AccountsInv, AccountsTypeOK, FoundIsAccount
<1>2. CASE UNCHANGED avars
  BY <1>2 DEF avars, table, work, bounds, AccountsInv, AccountsTypeOK, FoundIsAccount
<1>3. QED BY <1>1, <1>2, SaverStepInv, RemoverStepInv, AuthorStepInv DEF AccountsNext

LEMMA AccountsInitInv == AccountsInit => AccountsInv
BY NoFormType, AccountsAssumption
   DEF AccountsInit, AccountsInv, AccountsTypeOK, FoundIsAccount

\* Every variable keeps its type: no owner of a document is ever dangling, and
\* no author tries more often than DocumentServiceImpl.java:71 allows.
THEOREM AccountsTypeCorrect == AccountsSpec => []AccountsTypeOK
<1>1. AccountsInv /\ [AccountsNext]_avars => AccountsInv'
  BY AccountsStepInv
<1>2. AccountsInv => AccountsTypeOK
  BY DEF AccountsInv
<1>3. QED BY <1>1, <1>2, AccountsInitInv, PTL DEF AccountsSpec

\* Only the step in which a thread's request ends changes its outcome to
\* "answered".
LEMMA AnsweredByOwnStep ==
  ASSUME AccountsInv, AccountsNext, NEW s \in Savers,
         outcome[s] # "answered", outcome'[s] = "answered"
  PROVE  (CommitCreate(s) /\ account = NoAccount) \/ CommitUpdate(s)
<1> USE DEF AccountsInv, AccountsTypeOK
<1>1. s \in Threads /\ s \notin Removers /\ s \notin Authors
  BY AccountsAssumption DEF Threads
<1>2. ASSUME NEW x \in Savers, SaverStep(x)
      PROVE  (CommitCreate(s) /\ account = NoAccount) \/ CommitUpdate(s)
  BY <1>1, <1>2 DEF Threads, SaverStep, StartSave, Look, LookAgain, CommitCreate, CommitUpdate,
     Begin, GoOn, Finish
<1>3. ASSUME NEW r \in Removers, RemoverStep(r) PROVE FALSE
  BY <1>1, <1>3 DEF Threads, RemoverStep, StartRemoval, FindForRemoval, CommitRemoval,
     Begin, GoOn, Finish
<1>4. ASSUME NEW a \in Authors, AuthorStep(a) PROVE FALSE
  BY <1>1, <1>4 DEF Threads, AuthorStep, Login, StartWrite, CheckOwner, AttachOwner, InsertOwned,
     UserNotFound, EndWrite, TryAgain, Begin, GoOn, Finish
<1>5. ~PurgeDocuments
  BY <1>1 DEF PurgeDocuments, work
<1>6. QED BY <1>2, <1>3, <1>4, <1>5 DEF AccountsNext

\* UserManagerBean.java:56-66: a save that is answered has put its form, or what
\* it changed of the account it found, into the account that is there.
LEMMA AnsweredSaveCounts ==
  ASSUME AccountsInv, AccountsNext, NEW s \in Savers,
         outcome[s] # "answered", outcome'[s] = "answered"
  PROVE  \/ account' # NoAccount /\ account'.form = form[s]
         \/ /\ account # found[s]
            /\ account.id = found[s].id =>
                 \A f \in Fields : form[s][f] \in {found[s].form[f], account'.form[f]}
<1>1. s \in Threads
  BY DEF Threads
<1>2. CASE CommitCreate(s) /\ account = NoAccount
  <2>1. account' = [id |-> lastId', form |-> form[s]] /\ lastId' # 0
    BY <1>2 DEF CommitCreate, AccountsInv, AccountsTypeOK
  <2>2. QED BY <2>1 DEF NoAccount
<1>3. CASE CommitUpdate(s)
  <2>1. found[s] \in Account /\ form[s] \in Form
    BY <1>1, <1>3 DEF CommitUpdate, AccountsInv, AccountsTypeOK, FoundIsAccount
  <2>2. CASE account.id # found[s].id
    BY <2>2
  <2>3. CASE account.id = found[s].id
    <3>1. account \in Account
      BY <2>1, <2>3 DEF AccountsInv, AccountsTypeOK, NoAccount, Account
    <3>2. account' = [account EXCEPT !.form =
                        [f \in Fields |-> IF form[s][f] # found[s].form[f] THEN form[s][f]
                                          ELSE account.form[f]]]
      BY <1>3, <2>3, <3>1 DEF CommitUpdate, Account
    <3>3. /\ account'.id = account.id
          /\ account'.form = [f \in Fields |-> IF form[s][f] # found[s].form[f] THEN form[s][f]
                                               ELSE account.form[f]]
      BY <3>1, <3>2 DEF Account
    <3>4. account' # NoAccount
      BY <3>1, <3>3 DEF Account, NoAccount
    <3>5. CASE account = found[s]
      <4>1. account'.form = form[s]
        BY <2>1, <3>3, <3>5 DEF Form
      <4>2. QED BY <3>4, <4>1
    <3>6. CASE account # found[s]
      BY <3>3, <3>6
    <3>7. QED BY <3>5, <3>6
  <2>4. QED BY <2>2, <2>3
<1>4. QED BY <1>2, <1>3, AnsweredByOwnStep

\* A save that is answered counts, whatever saves and deletions run beside it.
THEOREM AnsweredSavesAlwaysCount == AccountsSpec => AnsweredSavesCount
<1>1. AccountsInv /\ [AccountsNext]_avars => AccountsInv'
  BY AccountsStepInv
<1>2. AccountsInv /\ [AccountsNext]_avars =>
        [\A s \in Savers :
           (outcome[s] # "answered" /\ outcome'[s] = "answered") =>
             \/ account' # NoAccount /\ account'.form = form[s]
             \/ /\ account # found[s]
                /\ account.id = found[s].id =>
                     \A f \in Fields : form[s][f] \in {found[s].form[f], account'.form[f]}]_avars
  BY AnsweredSaveCounts
<1>3. QED BY <1>1, <1>2, AccountsInitInv, PTL DEF AccountsSpec, AnsweredSavesCount

\* UserControllerBean.java:72-80: the only step that ends an account is the
\* commit of a deletion that has found this very account, and no document
\* refers to it then.
THEOREM DeletionsAlwaysMeant == AccountsSpec => DeletionsAreMeant
<1>1. AccountsInv /\ [AccountsNext]_avars => AccountsInv'
  BY AccountsStepInv
<1>2. ASSUME AccountsInv, AccountsNext, account # NoAccount, account' = NoAccount
      PROVE  /\ account.id \notin owners
             /\ \E r \in Removers : at[r] = "remove" /\ found[r].id = account.id
  <2>1. ASSUME NEW s \in Savers, SaverStep(s) PROVE FALSE
    <3>1. CommitUpdate(s)
      BY <1>2, <2>1 DEF SaverStep, StartSave, Look, LookAgain, CommitCreate, table
    <3>2. s \in Threads /\ account \in Account
      BY <1>2 DEF Threads, AccountsInv, AccountsTypeOK
    <3>3. found[s] \in Account
      BY <1>2, <3>1, <3>2 DEF CommitUpdate, AccountsInv, FoundIsAccount
    <3>4. account'.id = account.id
      BY <3>1, <3>2 DEF CommitUpdate, Account
    <3>5. QED BY <1>2, <3>2, <3>4, AccountsAreAccounts DEF Account
  <2>2. ASSUME NEW r \in Removers, RemoverStep(r)
        PROVE  /\ account.id \notin owners
               /\ at[r] = "remove" /\ found[r].id = account.id
    BY <1>2, <2>2 DEF RemoverStep, StartRemoval, FindForRemoval, CommitRemoval, table
  <2>3. ASSUME NEW a \in Authors, AuthorStep(a) PROVE FALSE
    BY <1>2, <2>3 DEF AuthorStep, Login, StartWrite, CheckOwner, AttachOwner, InsertOwned, table
  <2>4. ~PurgeDocuments
    BY <1>2 DEF PurgeDocuments
  <2>5. QED BY <1>2, <2>1, <2>2, <2>3, <2>4 DEF AccountsNext
<1>3. AccountsInv /\ [AccountsNext]_avars =>
        [account # NoAccount /\ account' # account /\ account' = NoAccount =>
           /\ account.id \notin owners
           /\ \E r \in Removers : at[r] = "remove" /\ found[r].id = account.id]_avars
  BY <1>2
<1>4. QED BY <1>1, <1>3, AccountsInitInv, PTL DEF AccountsSpec, DeletionsAreMeant

-----------------------------------------------------------------------------
(* The cache                                                               *)

\* A map is as old as the time that has passed since it was read: one that a
\* reader has loaded is no older than the reader's request; until the reader
\* stamps it, the map in the cache is older than that by one request at most;
\* and a map that was stamped is older than its stamp by two.
MapsAreYoung ==
  /\ ref.age <= 2 * MaxDelay + sinceUpdate
  /\ \A t \in Readers :
       /\ rat[t] = "set" => loaded[t].age <= busy[t]
       /\ rat[t] = "stamp" => ref.age <= MaxDelay + busy[t]
       /\ rat[t] = "return" => ref.age <= LifeTime + 2 * MaxDelay + busy[t]

CacheInv == CacheTypeOK /\ MapsAreYoung

\* A step of a reader, or the passing of time.
LEMMA CacheStepInv ==
  ASSUME CacheInv, AccountsInv, [CacheNext]_ucvars
  PROVE  CacheInv'
<1> USE DEF CacheInv, CacheTypeOK, MapsAreYoung
<1>1. /\ LifeTime \in Nat /\ MaxDelay \in Nat \ {0} /\ MaxQueryFaults \in Nat /\ Old \in Nat
      /\ 2 * MaxDelay < Old
  BY CacheAssumption DEF Old
<1>2. /\ ref.age \in 0..Old /\ sinceUpdate \in 0..Old
      /\ \A t \in Readers : busy[t] \in 0..MaxDelay
      /\ account \in Account \cup {NoAccount}
  BY <1>1 DEF Map, NoMap, AccountsInv, AccountsTypeOK
<1>3. CASE UNCHANGED cvars
  BY <1>3 DEF cvars
<1>4. ASSUME NEW t \in Readers, CheckMap(t) PROVE CacheInv'
  <2>1. CASE Expired
    BY <1>4, <2>1 DEF CheckMap
  <2>2. CASE ~Expired
    <3>1. ref.age <= LifeTime + 2 * MaxDelay + busy[t]
      BY <1>1, <1>2, <2>2 DEF Expired
    <3>2. QED BY <1>4, <2>2, <3>1 DEF CheckMap
  <2>3. QED BY <2>1, <2>2
<1>5. ASSUME NEW t \in Readers, QueryAccounts(t) PROVE CacheInv'
  <2>1. [entry |-> account, age |-> 0] \in Map
    BY <1>1, <1>2 DEF Map
  <2>2. QED BY <1>2, <1>5, <2>1 DEF QueryAccounts
<1>6. ASSUME NEW t \in Readers, SetMap(t) PROVE CacheInv'
  <2>1. loaded[t] \in Map /\ loaded[t].age <= busy[t] /\ loaded[t].age \in Nat
    BY <1>1, <1>6 DEF SetMap, Map
  <2>2. ref' = loaded[t] /\ ref'.age <= MaxDelay
    BY <1>1, <1>2, <1>6, <2>1 DEF SetMap
  <2>3. CacheTypeOK'
    BY <1>6, <2>1, <2>2 DEF SetMap
  <2>4. \A x \in Readers : /\ ref'.age <= MaxDelay + busy[x]
                           /\ ref'.age <= LifeTime + 2 * MaxDelay + busy[x]
                           /\ ref'.age <= 2 * MaxDelay + sinceUpdate
    BY <1>1, <1>2, <2>1, <2>2
  <2>5. ref'.age <= 2 * MaxDelay + sinceUpdate
    BY <1>6, <2>4
  <2>6. QED BY <1>6, <2>3, <2>4, <2>5 DEF SetMap
<1>7. ASSUME NEW t \in Readers, StampMap(t) PROVE CacheInv'
  <2>1. ref.age <= MaxDelay + busy[t]
    BY <1>7 DEF StampMap
  <2>2. ref.age <= 2 * MaxDelay /\ ref.age <= LifeTime + 2 * MaxDelay + busy[t]
    BY <1>1, <1>2, <2>1
  <2>3. QED BY <1>1, <1>2, <1>7, <2>2 DEF StampMap
<1>8. ASSUME NEW t \in Readers, ReturnMap(t) \/ QueryFails(t) PROVE CacheInv'
  <2>1. queryFaults' \in 0..MaxQueryFaults /\ busy' \in [Readers -> 0..MaxDelay]
    BY <1>1, <1>8 DEF ReturnMap, QueryFails
  <2>2. CASE ReturnMap(t)
    BY <1>1, <2>1, <2>2 DEF ReturnMap
  <2>3. CASE QueryFails(t)
    BY <1>1, <2>1, <2>3 DEF QueryFails
  <2>4. QED BY <1>8, <2>2, <2>3
<1>9. CASE Tick
  <2>1. \A age \in 0..Old : /\ NextAge(age) \in 0..Old /\ NextAge(age) <= age + 1
                            /\ NextAge(age) = Old \/ NextAge(age) = age + 1
    BY <1>1 DEF NextAge
  <2>2. /\ ref' \in Map \cup {NoMap} /\ ref'.age = NextAge(ref.age)
        /\ \A t \in Readers : /\ loaded'[t] \in IF rat[t] = "set" THEN Map ELSE {NoMap}
                              /\ loaded'[t].age = NextAge(loaded[t].age)
    <3>1. NextAge(Old) = Old
      BY DEF NextAge
    <3>2. ASSUME NEW map \in Map
          PROVE  /\ [map EXCEPT !.age = NextAge(@)] \in Map
                 /\ [map EXCEPT !.age = NextAge(@)].age = NextAge(map.age)
      <4>1. map.age \in 0..Old /\ NextAge(map.age) \in 0..Old
        BY <2>1 DEF Map
      <4>2. QED BY <4>1 DEF Map
    <3>3. [NoMap EXCEPT !.age = NextAge(@)] = NoMap /\ NextAge(NoMap.age) = NoMap.age
      BY <3>1 DEF NoMap
    <3>4. QED BY <1>9, <3>2, <3>3 DEF Tick
  <2>3. busy' \in [Readers -> 0..MaxDelay]
    BY <1>1, <1>2, <1>9 DEF Tick
  <2>4. \A t \in Readers : rat[t] # "idle" => busy'[t] = busy[t] + 1
    BY <1>9 DEF Tick
  <2>5. sinceUpdate' \in 0..Old /\ ref'.age <= 2 * MaxDelay + sinceUpdate'
    <3>1. sinceUpdate' = NextAge(sinceUpdate)
      BY <1>9 DEF Tick
    <3>2. QED BY <1>1, <1>2, <2>1, <2>2, <3>1
  <2>6. ASSUME NEW t \in Readers
        PROVE  /\ rat[t] = "set" => loaded'[t].age <= busy'[t]
               /\ rat[t] = "stamp" => ref'.age <= MaxDelay + busy'[t]
               /\ rat[t] = "return" => ref'.age <= LifeTime + 2 * MaxDelay + busy'[t]
    <3>1. rat[t] = "set" => loaded[t].age \in 0..Old
      BY DEF Map
    <3>2. QED BY <1>1, <1>2, <2>1, <2>2, <2>4, <3>1
  <2>7. CacheTypeOK'
    BY <1>9, <2>2, <2>3, <2>5 DEF Tick
  <2>8. QED BY <1>9, <2>5, <2>6, <2>7 DEF Tick
<1>10. QED
  BY <1>3, <1>4, <1>5, <1>6, <1>7, <1>8, <1>9
     DEF CacheNext, ChangeAccounts, ReaderStep, ucvars

\* UserMapperBean.java:58-62: however check, fill and time stamp of any number of
\* requests mix, what one returns is at most LifeTime + 3 * MaxDelay old.
THEOREM AnswersAlwaysRecent == CacheSpec => []AnswersAreRecent
<1>1. CacheInit => AccountsInv /\ CacheInv
  <2>1. ASSUME CacheInit PROVE CacheInv
    <3>1. LifeTime \in Nat /\ MaxDelay \in Nat /\ MaxQueryFaults \in Nat /\ Old \in Nat
      BY CacheAssumption DEF Old
    <3>2. QED BY <2>1, <3>1 DEF CacheInit, CacheInv, CacheTypeOK, MapsAreYoung, NoMap
  <2>2. QED BY <2>1, AccountsInitInv DEF CacheInit
<1>2. AccountsInv /\ CacheInv /\ [CacheNext]_ucvars => AccountsInv' /\ CacheInv'
  <2>1. [CacheNext]_ucvars => [AccountsNext]_avars
    BY DEF CacheNext, ChangeAccounts, ReaderStep, CheckMap, QueryAccounts, SetMap, StampMap,
           ReturnMap, QueryFails, Tick, ucvars
  <2>2. QED BY <2>1, AccountsStepInv, CacheStepInv
<1>3. CacheInv => AnswersAreRecent
  <2>1. SUFFICES ASSUME CacheInv, NEW t \in Readers, rat[t] = "return"
                 PROVE  ref.age < Old
    BY DEF AnswersAreRecent
  <2>2. ref.age \in Nat /\ busy[t] \in 0..MaxDelay /\ ref.age <= LifeTime + 2 * MaxDelay + busy[t]
    BY <2>1, CacheAssumption DEF CacheInv, CacheTypeOK, MapsAreYoung, Map, NoMap, Old
  <2>3. QED BY <2>2, CacheAssumption DEF Old
<1>4. QED BY <1>1, <1>2, <1>3, PTL DEF CacheSpec
=============================================================================
