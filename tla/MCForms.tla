-------------------------------- MODULE MCForms --------------------------------
(* The pages with forms: two documents of one or two lines, two editing users *)
(* and a listening one; or the account of a user on two instances: many       *)
(* threads that change it, or one that creates and one that deletes it under  *)
(* the readers of the cache.                                                  *)
EXTENDS FormPages, UserCache

CONSTANTS
  a, b, n1, n2, d1, d2, u1, u2, u3,
  s1, s2, r1, r2, a1, t1, t2, fullName, colour, v1, v2

MCLineLength == [l \in Line |-> IF l = Blank THEN 0 ELSE 1]

MCInputs == {<< a, a >>, << b, a >>, << a >>}

VARIABLE crew   \* the threads that get a request; none while documents are edited

MCInit ==
  /\ FormsInit
  /\ CacheInit
  /\ crew \in {{}, Threads, {s1, r1} \cup Readers}

EditDocuments ==
  /\ crew = {}
  /\ FormsNext
  /\ UNCHANGED ucvars

ChangeAccount ==
  /\ crew # {}
  /\ CacheNext
  /\ \A t \in Threads \ crew : at'[t] = "idle"
  /\ \A author \in Authors \ crew : ~session'[author]
  /\ \A t \in Readers \ crew : rat'[t] = "idle"
  /\ IF Readers \subseteq crew
     THEN saves' <= 1 /\ removals' <= 1
     ELSE sinceUpdate' = sinceUpdate
  /\ UNCHANGED fvars

MCNext == (EditDocuments \/ ChangeAccount) /\ UNCHANGED crew

MCvars == << fvars, ucvars, crew >>

MCSpec == MCInit /\ [][MCNext]_MCvars
================================================================================
