---------------------------- MODULE PageReadiness ----------------------------
(***************************************************************************)
(* When jquery-1.9.1.js calls the functions that the scripts of a page     *)
(* give to $(...): the document loads, some scripts hold the ready event   *)
(* until they have what they need, and the browser tells of the loading in *)
(* more than one way. A script releases only what it held.                 *)
(***************************************************************************)
EXTENDS Naturals

CONSTANTS
  Browsers, \* "standard", "old" (no addEventListener), "framed" (old, in a frame)
  MaxHolds  \* bound: holds at a time

ASSUME ReadinessAssumption ==
  Browsers # {} /\ Browsers \subseteq {"standard", "old", "framed"} /\ MaxHolds \in Nat

VARIABLES
  browser,
  loading,   \* "loading", "parsed" or "complete"
  hasBody,
  untold,    \* events that the browser has not told of yet
  readyWait,
  isReady,
  promised,  \* readyList is there
  attached, \* completed is bound to the events of the browser
  scrolling, \* doScrollCheck waits for its turn
  comingBack,  \* calls of jQuery.ready wait for theirs
  resolved,  \* readyList is resolved: the functions run
  holding    \* holds that are not released

document == << browser, loading, hasBody, untold >>
readyVars == << document, readyWait, isReady, promised, attached, scrolling, comingBack, resolved, holding >>

ReadinessInit ==
  /\ browser \in Browsers
  /\ loading = "loading" /\ hasBody = FALSE /\ untold = {}
  /\ readyWait = 1 /\ isReady = FALSE
  /\ promised = FALSE /\ attached = FALSE /\ scrolling = FALSE /\ comingBack = FALSE
  /\ resolved = FALSE
  /\ holding = 0

\* The browser
BodyComes ==
  /\ loading = "loading" \/ browser # "standard"
  /\ ~hasBody
  /\ hasBody' = TRUE
  /\ UNCHANGED << browser, loading, untold, readyWait, isReady, promised, attached, scrolling,
                  comingBack, resolved, holding >>

LoadingGoesOn ==
  /\ \/ /\ loading = "loading" /\ (browser = "standard" => hasBody)
        /\ loading' = "parsed"
        /\ untold' = {IF browser = "standard" THEN "DOMContentLoaded" ELSE "readystatechange"}
     \/ /\ loading = "parsed" /\ hasBody
        /\ loading' = "complete"
        /\ untold' = untold \cup {"load"} \cup (IF browser = "standard" THEN {} ELSE {"readystatechange"})
  /\ UNCHANGED << browser, hasBody, readyWait, isReady, promised, attached, scrolling, comingBack,
                  resolved, holding >>

\* Mutant: a page without a body is given up.
ReadyWithBody(again) ==
  IF isReady \/ ~hasBody THEN comingBack' = again /\ UNCHANGED << isReady, readyWait, resolved >>
  ELSE /\ isReady' = TRUE
       /\ readyWait' = readyWait - 1
       /\ resolved' = (readyWait <= 1)
       /\ comingBack' = again

\* jQuery.ready(): a page without a body comes back to it, and the first
\* call counts; "again" tells whether other calls wait for their turn.
JQueryReady(again) ==
  IF isReady THEN comingBack' = again /\ UNCHANGED << isReady, readyWait, resolved >>
  ELSE IF ~hasBody THEN comingBack' = TRUE /\ UNCHANGED << isReady, readyWait, resolved >>
  ELSE /\ isReady' = TRUE
       /\ readyWait' = readyWait - 1
       /\ resolved' = (readyWait <= 1)
       /\ comingBack' = again

NotReady(again) == comingBack' = again /\ UNCHANGED << isReady, readyWait, resolved >>

\* The first function is given to $(...): ready.promise looks for a way to
\* hear of the document.
ReadyPromise ==
  /\ ~promised
  /\ promised' = TRUE
  /\ \/ /\ loading = "complete"
        /\ NotReady(TRUE)
        /\ UNCHANGED << attached, scrolling >>
     \/ /\ loading # "complete" /\ (loading = "parsed" => browser # "old")
        /\ attached' = TRUE
        /\ scrolling' = (browser = "old")
        /\ NotReady(comingBack)
     \/ /\ loading = "parsed" /\ browser = "old" \* doScroll does not throw
        /\ JQueryReady(comingBack)
        /\ UNCHANGED << attached, scrolling >>
  /\ UNCHANGED << document, holding >>

\* An event of the browser; completed does not take every one.
Completed ==
  /\ \E event \in untold :
       /\ event = "load" => untold = {"load"}
       /\ untold' = untold \ {event}
       /\ IF attached /\ (browser = "standard" \/ event = "load" \/ loading = "complete")
          THEN attached' = FALSE /\ JQueryReady(comingBack)
          ELSE NotReady(comingBack) /\ UNCHANGED attached
  /\ UNCHANGED << browser, loading, hasBody, promised, scrolling, holding >>

DoScrollCheck ==
  /\ scrolling
  /\ \/ /\ ~isReady /\ loading # "loading"
        /\ attached' = FALSE
        /\ JQueryReady(comingBack)
        /\ scrolling' = FALSE
     \/ /\ isReady
        /\ scrolling' = FALSE
        /\ NotReady(comingBack) /\ UNCHANGED attached
  /\ UNCHANGED << document, promised, holding >>

TimeoutOfReady ==
  /\ comingBack
  /\ \E again \in BOOLEAN : JQueryReady(again)
  /\ UNCHANGED << document, promised, attached, scrolling, holding >>

\* holdReady
HoldReady ==
  /\ readyWait <= MaxHolds
  /\ readyWait' = readyWait + 1
  /\ holding' = holding + 1
  /\ UNCHANGED << document, isReady, promised, attached, scrolling, comingBack, resolved >>

ReleaseReady ==
  /\ holding > 0
  /\ holding' = holding - 1
  /\ readyWait' = readyWait - 1
  /\ \/ /\ readyWait > 1
        /\ UNCHANGED << isReady, resolved, comingBack >>
     \/ /\ readyWait = 1
        /\ IF hasBody THEN isReady' = TRUE /\ resolved' = TRUE /\ UNCHANGED comingBack
           ELSE comingBack' = TRUE /\ UNCHANGED << isReady, resolved >>
  /\ UNCHANGED << document, promised, attached, scrolling >>

ReadinessNext ==
  \/ BodyComes \/ LoadingGoesOn \/ ReadyPromise \/ Completed
  \/ DoScrollCheck \/ TimeoutOfReady \/ HoldReady \/ ReleaseReady

\* A page is loaded to its end and timeouts run.
ReadinessFairness ==
  /\ WF_readyVars(BodyComes) /\ WF_readyVars(LoadingGoesOn) /\ WF_readyVars(Completed)
  /\ WF_readyVars(DoScrollCheck) /\ WF_readyVars(TimeoutOfReady)

ReadinessSpec == ReadinessInit /\ [][ReadinessNext]_readyVars /\ ReadinessFairness

-----------------------------------------------------------------------------
(* Correctness                                                             *)

\* jquery-1.9.1.js:403-438, 866-945.  Functions that were given run some time, on every
\* browser and whenever they were given, unless from some time on someone always holds
\* them.
ReadyComes == []<>(holding = 0) => (promised ~> resolved)
=============================================================================
