------------------------------- MODULE UserCache -------------------------------
(***************************************************************************)
(* UserMapperBean: one map of the accounts for all requests, filled when   *)
(* a request finds it missing or too old.  Requests run concurrently, and  *)
(* the map and the time of its last update are two fields.                 *)
(*                                                                         *)
(* Time is counted in units of which LifeTime make the 60 s.  A request    *)
(* takes at most MaxDelay of them.                                         *)
(***************************************************************************)
EXTENDS UserAccounts

CONSTANTS
  Readers,   \* requests that render the name of a user
  LifeTime,  \* CACHE_LIFE_TIME_MS
  MaxDelay,  \* how long a request is at work
  MaxQueryFaults \* bound: queries that fail

ASSUME CacheAssumption ==
  /\ LifeTime \in Nat
  /\ MaxDelay \in Nat \ {0}
  /\ MaxQueryFaults \in Nat

VARIABLES
  ref,         \* the map, of which the user's entry counts
  sinceUpdate, \* how long ago lastUpdate was set
  rat,         \* where a reader is
  loaded,      \* the map that it has built
  busy,        \* how long it has been at work
  queryFaults  \* counter for the bound

cvars == << ref, sinceUpdate, rat, loaded, busy, queryFaults >>
ucvars == << avars, cvars >>

\* The oldest map that is told from older ones.
Old == LifeTime + 3 * MaxDelay + 1

NextAge(age) == IF age = Old THEN Old ELSE age + 1

\* A map, and how long ago it was read from the table.
Map == [entry : Account \cup {NoAccount}, age : 0..Old]

NoMap == [age |-> Old]

\* A reader at work has what it read, and nobody is at work for ever.
CacheTypeOK ==
  /\ ref \in Map \cup {NoMap}
  /\ sinceUpdate \in 0..Old
  /\ rat \in [Readers -> {"idle", "query", "set", "stamp", "return"}]
  /\ loaded \in [Readers -> Map \cup {NoMap}]
  /\ \A t \in Readers : loaded[t] \in IF rat[t] = "set" THEN Map ELSE {NoMap}
  /\ busy \in [Readers -> 0..MaxDelay]
  /\ queryFaults \in 0..MaxQueryFaults

\* lastUpdate is 0, in 1970.
CacheInit ==
  /\ AccountsInit
  /\ ref = NoMap
  /\ sinceUpdate = Old
  /\ rat = [t \in Readers |-> "idle"]
  /\ loaded = [t \in Readers |-> NoMap]
  /\ busy = [t \in Readers |-> 0]
  /\ queryFaults = 0

-----------------------------------------------------------------------------
(* UserMapperBean.getCachedMap                                             *)

Expired == ref = NoMap \/ sinceUpdate > LifeTime

\* The two conditions are read, the age of the map at last.
CheckMap(t) ==
  /\ rat[t] = "idle"
  /\ rat' = [rat EXCEPT ![t] = IF Expired THEN "query" ELSE "return"]
  /\ UNCHANGED << avars, ref, sinceUpdate, loaded, busy, queryFaults >>

\* findAll.
QueryAccounts(t) ==
  /\ rat[t] = "query"
  /\ loaded' = [loaded EXCEPT ![t] = [entry |-> account, age |-> 0]]
  /\ rat' = [rat EXCEPT ![t] = "set"]
  /\ UNCHANGED << avars, ref, sinceUpdate, busy, queryFaults >>

\* Mutant: a map that could not be read is stamped all the same.
QueryFailsStamped(t) ==
  /\ rat[t] = "query"
  /\ queryFaults < MaxQueryFaults
  /\ queryFaults' = queryFaults + 1
  /\ sinceUpdate' = 0
  /\ rat' = [rat EXCEPT ![t] = "idle"]
  /\ busy' = [busy EXCEPT ![t] = 0]
  /\ UNCHANGED << avars, ref, loaded >>

\* The page is not rendered; the map stays as it is.
QueryFails(t) ==
  /\ rat[t] = "query"
  /\ queryFaults < MaxQueryFaults
  /\ queryFaults' = queryFaults + 1
  /\ rat' = [rat EXCEPT ![t] = "idle"]
  /\ busy' = [busy EXCEPT ![t] = 0]
  /\ UNCHANGED << avars, ref, sinceUpdate, loaded >>

SetMap(t) ==
  /\ rat[t] = "set"
  /\ ref' = loaded[t]
  /\ loaded' = [loaded EXCEPT ![t] = NoMap]
  /\ rat' = [rat EXCEPT ![t] = "stamp"]
  /\ UNCHANGED << avars, sinceUpdate, busy, queryFaults >>

StampMap(t) ==
  /\ rat[t] = "stamp"
  /\ sinceUpdate' = 0
  /\ rat' = [rat EXCEPT ![t] = "return"]
  /\ UNCHANGED << avars, ref, loaded, busy, queryFaults >>

\* Whatever map is there by now.
ReturnMap(t) ==
  /\ rat[t] = "return"
  /\ rat' = [rat EXCEPT ![t] = "idle"]
  /\ busy' = [busy EXCEPT ![t] = 0]
  /\ UNCHANGED << avars, ref, sinceUpdate, loaded, queryFaults >>

\* A unit of time passes, for everyone.
Tick ==
  /\ \A t \in Readers : rat[t] # "idle" => busy[t] < MaxDelay
  /\ busy' = [t \in Readers |-> IF rat[t] = "idle" THEN 0 ELSE busy[t] + 1]
  /\ sinceUpdate' = NextAge(sinceUpdate)
  /\ ref' = [ref EXCEPT !.age = NextAge(@)]
  /\ loaded' = [t \in Readers |-> [loaded[t] EXCEPT !.age = NextAge(@)]]
  /\ UNCHANGED << avars, rat, queryFaults >>

ReaderStep(t) ==
  \/ CheckMap(t) \/ QueryAccounts(t) \/ SetMap(t) \/ StampMap(t) \/ ReturnMap(t)

\* The requests that change accounts, beside the cache.
ChangeAccounts == AccountsNext /\ UNCHANGED cvars

CacheNext ==
  \/ ChangeAccounts
  \/ \E t \in Readers : ReaderStep(t) \/ QueryFails(t)
  \/ Tick

CacheSpec == CacheInit /\ [][CacheNext]_ucvars

-----------------------------------------------------------------------------
(* Correctness                                                             *)

\* UserMapperBean.java:58-62.  Check, fill and time stamp of several requests
\* mix, so that a map may be set after a newer one and be stamped by its writer
\* and by others; still what a request returns shows no user as it was longer ago
\* than the life time of the map and three times what a request takes.
AnswersAreRecent == \A t \in Readers : rat[t] = "return" => ref.age < Old
=============================================================================
