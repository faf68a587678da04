------------------------------- MODULE MCUpdates -------------------------------
(* Saves of a document from its beginning, with the faults of MaxFaults; and *)
(* from the commit of its first version on, without a fault, so that         *)
(* MaxCalls saves follow that one.                                           *)
EXTENDS MCDocumentManager

FirstVersion ==
  [version |-> 1, previousVersion |-> NoVersion, mergedWith |-> NoVersion,
   description |-> d1, contents |-> << a, a >>]

\* A thread that has created the document alone and is at its commit.
AtFirstCommit ==
  \E c \in Callers :
    /\ rows = {}
    /\ clock = 1
    /\ pushed = {}
    /\ pc = [t \in Callers |-> IF t = c THEN "commit" ELSE "idle"]
    /\ call = [t \in Callers |->
                 IF t = c THEN [contents |-> << a, a >>, description |-> d1, base |-> NoVersion]
                 ELSE NoCall]
    /\ attempt = [t \in Callers |-> 0]
    /\ looks = [t \in Callers |-> 0]
    /\ seen = [t \in Callers |-> NoRow]
    /\ staged = [t \in Callers |-> IF t = c THEN {FirstVersion} ELSE {}]
    /\ response = [t \in Callers |->
                     IF t = c THEN [document |-> FirstVersion, savedVersion |-> 1]
                     ELSE NoResponse]
    /\ outcome = [t \in Callers |-> "none"]
    /\ doomed = [d \in Deleters |-> {}]
    /\ calls = 0
    /\ deletes = 0
    /\ faults = MaxFaults

MCUpdateSpec == (Init \/ AtFirstCommit) /\ [][UpdateNext]_vars

\* A bean instance generates a version that is not above all others.
LateReading == \E c \in Callers : \E r \in staged'[c] \ staged[c] : r.version <= clock

\* The document, or a call, has the second description.
SecondDescription ==
  \/ \E r \in rows : r.description # d1
  \/ \E c \in Callers : call[c] # NoCall /\ call[c].description # d1

OutOfOrder == \E r \in Published(rows) : r.version <= r.previousVersion

\* Clocks that differ are followed where there is one description.
MCClocks ==
  /\ LateReading => ~SecondDescription
  /\ OutOfOrder => ~SecondDescription'
================================================================================
