----------------------------- MODULE AjaxRequests -----------------------------
(***************************************************************************)
(* jQuery.ajax of jquery-1.9.1.js with its transports: XMLHttpRequest and, *)
(* for jsonp, a script element.                                            *)
(*                                                                         *)
(* The handlers of events and the callbacks of a request may start and     *)
(* abort requests while they run.  A frame of the stack is a call of ajax  *)
(* or of its inner function done, at the event whose handlers run.         *)
(***************************************************************************)
EXTENDS Integers, Sequences, SequencesExt, FiniteSets

CONSTANTS
  Requests, \* 1..n, the requests that scripts make
  Options   \* with which options

ASSUME RequestsAssumption ==
  /\ Requests \subseteq Nat \ {0}
  /\ Options \subseteq [transport : {"xhr", "jsonp", "none"},
                        global : BOOLEAN, timeout : BOOLEAN]

Nobody == 0

VARIABLES
  s,       \* the options of the requests
  jqXHR,   \* the variables of the calls of ajax
  active,  \* jQuery.active
  stack,   \* the calls under way, the inner one last
  log,     \* events and callbacks
  network, \* requests whose answer or script is still to come
  window,  \* whose jsonp function a name stands for
  oldCallbacks, \* names that can be used again
  twice    \* requests that were aborted while handlers of ajaxSend ran

avars == << s, jqXHR, active, stack, log, network, window, oldCallbacks, twice >>

\* state: -1 before ajax is called, then 0, 1 (sent) and 2 (done); callback: the
\* transport was sent and waits; name, container: of jsonp.
NotCalled ==
  [state |-> -1, transport |-> FALSE, callback |-> FALSE, timer |-> FALSE,
   deferred |-> "pending", installed |-> FALSE, completed |-> FALSE,
   name |-> 0, container |-> Nobody]

AjaxInit ==
  /\ s \in [Requests -> Options]
  /\ jqXHR = [r \in Requests |-> NotCalled]
  /\ active = 0
  /\ stack = << >>
  /\ log = << >>
  /\ network = {}
  /\ window = [n \in Requests |-> Nobody]
  /\ oldCallbacks = << >>
  /\ twice = {}

Frame(r, at, success) == [r |-> r, at |-> at, success |-> success]

Top == Last(stack)

\* The top call comes to its next event.
Continue(at) ==
  /\ stack' = Append(Front(stack), [Top EXCEPT !.at = at])
  /\ log' = Append(log, << at, Top.r >>)

Leave == stack' = Front(stack) /\ UNCHANGED log

At(event) == stack # << >> /\ Top.at = event

-----------------------------------------------------------------------------
(* done                                                                    *)

\* The clean-up that the jsonp prefilter has put on the deferred.
FreeName(r) ==
  IF s[r].transport = "jsonp" /\ jqXHR[r].deferred = "pending"
  THEN /\ window' = [window EXCEPT ![jqXHR[r].name] = Nobody]
       /\ oldCallbacks' = Append(oldCallbacks, jqXHR[r].name)
  ELSE UNCHANGED << window, oldCallbacks >>

\* From its beginning to the callbacks of the deferred.  A call that ends with done
\* is not among the calls below.
Done(r, calls, success, below) ==
  /\ jqXHR' = [calls EXCEPT ![r] =
       [@ EXCEPT !.state = 2, !.transport = FALSE, !.callback = FALSE, !.timer = FALSE,
                 !.deferred = IF @ # "pending" THEN @
                              ELSE IF success THEN "resolved" ELSE "rejected"]]
  /\ FreeName(r)
  /\ stack' = Append(below, Frame(r, "settled", success))
  /\ log' = IF calls[r].installed /\ calls[r].deferred = "pending"
            THEN Append(log, << IF success THEN "success" ELSE "error", r >>) ELSE log
  /\ UNCHANGED << s, active >>

\* ajaxSuccess or ajaxError
TriggerResult ==
  /\ At("settled")
  /\ s[Top.r].global
  /\ Continue("ajaxResult")
  /\ UNCHANGED << s, jqXHR, active, network, window, oldCallbacks, twice >>

\* completeDeferred
Complete ==
  /\ At("ajaxResult") \/ (At("settled") /\ ~s[Top.r].global)
  /\ IF jqXHR[Top.r].completed
     THEN stack' = Append(Front(stack), [Top EXCEPT !.at = "complete"]) /\ UNCHANGED log
     ELSE Continue("complete")
  /\ jqXHR' = [jqXHR EXCEPT ![Top.r].completed = TRUE]
  /\ UNCHANGED << s, active, network, window, oldCallbacks, twice >>

TriggerComplete ==
  /\ At("complete")
  /\ IF s[Top.r].global THEN Continue("ajaxComplete") ELSE Leave
  /\ UNCHANGED << s, jqXHR, active, network, window, oldCallbacks, twice >>

\* Mutant: jQuery.active is looked at before it is counted down.
StopWhenOneIsLeft ==
  /\ At("ajaxComplete")
  /\ active' = active - 1
  /\ IF active = 1 /\ Len(stack) > 1 THEN Leave ELSE Continue("ajaxStop")
  /\ UNCHANGED << s, jqXHR, network, window, oldCallbacks, twice >>

CountDown ==
  /\ At("ajaxComplete")
  /\ active' = active - 1
  /\ IF active' = 0 THEN Continue("ajaxStop") ELSE Leave
  /\ UNCHANGED << s, jqXHR, network, window, oldCallbacks, twice >>

DoneReturns ==
  /\ At("ajaxStop")
  /\ Leave
  /\ UNCHANGED << s, jqXHR, active, network, window, oldCallbacks, twice >>

-----------------------------------------------------------------------------
(* ajax                                                                    *)

\* The prefilter of jsonp takes a name that is free, or a new one.
NewName == IF oldCallbacks = << >>
           THEN Min(Requests \ {jqXHR[r].name : r \in Requests}) ELSE Last(oldCallbacks)

InstallCallback(r) ==
  IF s[r].transport # "jsonp"
  THEN /\ jqXHR' = [jqXHR EXCEPT ![r].state = 0]
       /\ UNCHANGED << window, oldCallbacks >>
  ELSE /\ jqXHR' = [jqXHR EXCEPT ![r].state = 0, ![r].name = NewName]
       /\ window' = [window EXCEPT ![NewName] = r]
       /\ oldCallbacks' = IF oldCallbacks = << >> THEN << >> ELSE Front(oldCallbacks)

\* Any script or handler may call ajax; up to ajaxStart or beforeSend.
Ajax ==
  \E r \in Requests :
    /\ jqXHR[r].state = -1
    /\ InstallCallback(r)
    /\ active' = IF s[r].global THEN active + 1 ELSE active
    /\ LET event == IF s[r].global /\ active = 0 THEN "ajaxStart" ELSE "beforeSend"
       IN  /\ stack' = Append(stack, Frame(r, event, FALSE))
           /\ log' = Append(log, << event, r >>)
    /\ UNCHANGED << s, network, twice >>

CallBeforeSend ==
  /\ At("ajaxStart")
  /\ Continue("beforeSend")
  /\ UNCHANGED << s, jqXHR, active, network, window, oldCallbacks, twice >>

\* beforeSend returned FALSE, or has aborted the request.
Cancel ==
  /\ At("beforeSend")
  /\ IF jqXHR[Top.r].state = 2
     THEN Leave /\ UNCHANGED << s, jqXHR, active, window, oldCallbacks >>
     ELSE Done(Top.r, jqXHR, FALSE, Front(stack))
  /\ UNCHANGED << network, twice >>

\* The callbacks are put on the deferred and a transport is looked for.
FindTransport ==
  LET r        == Top.r
      prepared == [jqXHR EXCEPT ![r].installed = TRUE,
                                ![r].transport = s[r].transport # "none"]
  IN  /\ At("beforeSend")
      /\ jqXHR[r].state # 2
      /\ IF ~prepared[r].transport THEN Done(r, prepared, FALSE, Front(stack))
         ELSE /\ jqXHR' = prepared
              /\ IF s[r].global THEN Continue("ajaxSend")
                 ELSE /\ stack' = Append(Front(stack), [Top EXCEPT !.at = "ajaxSend"])
                      /\ UNCHANGED log
              /\ UNCHANGED << s, active, window, oldCallbacks >>
      /\ UNCHANGED << network, twice >>

\* The timer is set and the transport sent, or fails to be.  When the request was
\* aborted in ajaxSend there is no transport any more: that is an exception too, and
\* the state, which is 1 again, does not keep done from being called again.
Send ==
  LET r    == Top.r
      sent == [jqXHR EXCEPT ![r].timer = s[r].timeout, ![r].state = 1]
  IN  /\ At("ajaxSend")
      /\ \/ /\ jqXHR[r].transport
            /\ jqXHR' = [sent EXCEPT ![r].callback = TRUE]
            /\ network' = network \cup {r}
            /\ Leave
            /\ UNCHANGED << s, active, window, oldCallbacks, twice >>
         \/ /\ s[r].transport = "xhr" \/ ~jqXHR[r].transport
            /\ Done(r, sent, FALSE, Front(stack))
            /\ twice' = IF jqXHR[r].state = 2 THEN twice \cup {r} ELSE twice
            /\ UNCHANGED network

\* abort, called by a script, a handler or the timer.  Taking away the element of a
\* script that is being loaded does not keep it from running.
Abort(r) ==
  /\ jqXHR[r].state \in {0, 1}
  /\ Done(r, jqXHR, FALSE, stack)
  /\ network' = IF s[r].transport = "jsonp" THEN network ELSE network \ {r}
  /\ UNCHANGED twice

\* Handlers of ajaxStart and whoever comes before do not have the jqXHR.
AbortRequest ==
  \E r \in Requests :
    /\ \A i \in DOMAIN stack : stack[i] # Frame(r, "ajaxStart", FALSE)
    /\ Abort(r)

TimeoutFires ==
  \E r \in Requests : stack = << >> /\ jqXHR[r].timer /\ Abort(r)

-----------------------------------------------------------------------------
(* What comes from outside, when no script runs                            *)

\* An answer, readable or not, or the failure of the connection.
Answer ==
  \E r \in network, success \in BOOLEAN :
    /\ stack = << >>
    /\ s[r].transport = "xhr"
    /\ network' = network \ {r}
    /\ Done(r, jqXHR, success, << >>)
    /\ UNCHANGED twice

\* A script runs: it calls the function of its name, which the converter then looks
\* for in the container; onload follows if the request was not aborted.
ScriptRuns ==
  \E r \in network :
    LET owner == window[jqXHR[r].name]
        named == IF owner = Nobody THEN jqXHR
                 ELSE [jqXHR EXCEPT ![owner].container = r]
    IN  /\ stack = << >>
        /\ s[r].transport = "jsonp"
        /\ network' = network \ {r}
        /\ IF jqXHR[r].callback
           THEN Done(r, named, named[r].container # Nobody, << >>)
           ELSE jqXHR' = named /\ UNCHANGED << s, active, stack, log, window, oldCallbacks >>
        /\ UNCHANGED twice

\* A script that cannot be loaded is not heard of.
ScriptFails ==
  \E r \in network :
    /\ stack = << >>
    /\ s[r].transport = "jsonp"
    /\ network' = network \ {r}
    /\ UNCHANGED << s, jqXHR, active, stack, log, window, oldCallbacks, twice >>

CallGoesOn ==
  \/ TriggerResult \/ Complete \/ TriggerComplete \/ CountDown \/ DoneReturns
  \/ CallBeforeSend \/ Cancel \/ FindTransport \/ Send

AjaxNext ==
  CallGoesOn \/ Ajax \/ AbortRequest \/ TimeoutFires \/ Answer \/ ScriptRuns \/ ScriptFails

AjaxSpec == AjaxInit /\ [][AjaxNext]_avars

-----------------------------------------------------------------------------
(* Correctness.  A request that is aborted by a handler of ajaxSend is done twice, *)
(* and counted down twice.                                                 *)

Marks == {i \in DOMAIN log : log[i][1] \in {"ajaxStart", "ajaxStop"}}

\* jquery-1.9.1.js:7877-7880, 8093-8096.  ajaxStart and ajaxStop are triggered in
\* turn, also by requests that handlers of these events start.
StartsAndStopsAlternate ==
  twice = {} =>
    \A i \in Marks :
      /\ (\A j \in Marks : i <= j) => log[i][1] = "ajaxStart"
      /\ \A j \in Marks : (i < j /\ \A k \in Marks : k <= i \/ j <= k) => log[i][1] # log[j][1]
=============================================================================
