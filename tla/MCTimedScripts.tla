--------------------------- MODULE MCTimedScripts ---------------------------
(***************************************************************************)
(* The scripts of the pages that wait for answers, timers and the loading  *)
(* of the document, each in its small instance; as in MCScripts one of     *)
(* them runs.                                                              *)
(***************************************************************************)
EXTENDS AjaxRequests, EffectQueues, PageReadiness

CONSTANT box1

(* AjaxRequests: requests with and without global events and timeouts.     *)

Opt(transport, global, timeout) ==
  [transport |-> transport, global |-> global, timeout |-> timeout]

MCOptions == {Opt("xhr", TRUE, TRUE), Opt("jsonp", FALSE, TRUE), Opt("xhr", FALSE, FALSE), Opt("none", TRUE, FALSE)}

(* EffectQueues: one element; every kind of effect.                        *)

Effect(elem, kind, duration, queued) ==
  [elem |-> elem, kind |-> kind, duration |-> duration, queued |-> queued]

MCEffects ==
  {Effect(box1, "hide", 2, TRUE), Effect(box1, "toggle", 1, TRUE),
   Effect(box1, "delay", 1, TRUE), Effect(box1, "move", 0, TRUE), Effect(box1, "move", 1, FALSE)}

(* PageReadiness: every kind of browser.                                   *)

MCBrowsers == {"standard", "old", "framed"}

-----------------------------------------------------------------------------

VARIABLE script \* the one that runs

Runs(name) == script = name

scriptVars ==
  << script, avars, xvars, readyVars >>

\* How a script that has several initial states is loaded when another one runs.
LoadedAjax == s = [r \in Requests |-> CHOOSE o \in Options : TRUE]
LoadedReadiness == browser = (CHOOSE b \in Browsers : TRUE)

TimedScriptsInit ==
  /\ script \in {"ajax", "effects", "readiness"}
  /\ EffectsInit
  /\ (Runs("ajax") \/ (~Runs("ajax") /\ LoadedAjax)) /\ AjaxInit
  /\ (Runs("readiness") \/ (~Runs("readiness") /\ LoadedReadiness)) /\ ReadinessInit

\* A step of the script that runs leaves the others alone.
AjaxStep ==
  /\ Runs("ajax")
  /\ AjaxNext
  /\ UNCHANGED << script, xvars, readyVars >>

EffectsStep ==
  /\ Runs("effects")
  /\ EffectsNext
  /\ UNCHANGED << script, avars, readyVars >>

ReadinessStep ==
  /\ Runs("readiness")
  /\ ReadinessNext
  /\ UNCHANGED << script, avars, xvars >>

TimedScriptsNext ==
  \/ AjaxStep
  \/ EffectsStep
  \/ ReadinessStep

\* Each keeps its own fairness; requests need none.
TimedScriptsFairness ==
  /\ WF_xvars(Runs("effects") /\ Call) /\ WF_xvars(Runs("effects") /\ Interval)
  /\ WF_xvars(Runs("effects") /\ DelayEnds)
  /\ WF_readyVars(Runs("readiness") /\ BodyComes)
  /\ WF_readyVars(Runs("readiness") /\ LoadingGoesOn)
  /\ WF_readyVars(Runs("readiness") /\ Completed)
  /\ WF_readyVars(Runs("readiness") /\ DoScrollCheck)
  /\ WF_readyVars(Runs("readiness") /\ TimeoutOfReady)

TimedScriptsSpec == TimedScriptsInit /\ [][TimedScriptsNext]_scriptVars /\ TimedScriptsFairness
=============================================================================
