---------------------------- MODULE EffectQueues -----------------------------
(***************************************************************************)
(* The queues of functions and the animations of jquery-1.9.1.js: animate, *)
(* delay, stop, finish, clearQueue and promise, for the queue "fx".        *)
(*                                                                         *)
(* Calls that the code makes in turn are the tasks of "work", the next one *)
(* first; what a call makes itself is put before them.  A size is that of  *)
(* the style property an effect changes: 2 is the element's own.           *)
(***************************************************************************)
EXTENDS Integers, Sequences, SequencesExt, FiniteSets

CONSTANTS
  Animated,    \* elements
  Effects,     \* the animations and delays that scripts ask for
  MaxEffects,  \* bound: of them
  MaxStops,    \* bound: calls of stop, finish and clearQueue
  MaxPromises  \* bound: calls of promise

ASSUME EffectsAssumption ==
  Effects \subseteq [elem : Animated, kind : {"move", "show", "hide", "toggle", "delay"},
                     duration : Nat, queued : BOOLEAN]

VARIABLES
  queue,      \* the fx queues; 0 is "inprogress"
  hooks,      \* their queueHooks
  effects,    \* what was asked for, by number
  timers, ticking,  \* jQuery.timers, and whether the interval is set
  timeouts,   \* delays that wait
  finishing,  \* elements with data "finish"
  display, size, fxshow,  \* style, and data "fxshow"
  promises,   \* promises, by number
  work,       \* the calls to be made
  upset,      \* elements that a call came to at a bad time
  stops       \* counter for the bound

xvars == << queue, hooks, effects, timers, ticking, timeouts, finishing, display, size, fxshow,
            promises, work, upset, stops >>
style == << display, size, fxshow >>
clock == << timers, ticking, timeouts >>
asked == << promises, upset, stops >>

NoHooks == [there |-> FALSE, cur |-> 0, stop |-> 0, unqueued |-> 0, waiting |-> {}]
NoShow  == [there |-> FALSE, hidden |-> {}, size |-> {}]

EffectsInit ==
  /\ queue = [e \in Animated |-> << >>]
  /\ hooks = [e \in Animated |-> NoHooks]
  /\ effects = << >> /\ promises = << >> /\ work = << >>
  /\ timers = << >> /\ ticking = FALSE /\ timeouts = {}
  /\ finishing = {} /\ upset = {} /\ stops = 0
  /\ display = [e \in Animated |-> TRUE]
  /\ size = [e \in Animated |-> 2]
  /\ fxshow = [e \in Animated |-> NoShow]

Elem(a) == effects[a].elem
Running(a) == effects[a].state \in {"starting", "running"}

Doing(call) == work # << >> /\ Head(work)[1] = call
Argument    == Head(work)[2]
Then(tasks) == work' = tasks \o Tail(work)

\* Scripts make calls from outside or in a complete callback.
ScriptsTurn == work # << >> => Head(work)[1] = "callback"

-----------------------------------------------------------------------------
(* What scripts ask for                                                    *)

\* An effect is queued, and called at once when nothing is in progress.
Animate ==
  /\ ScriptsTurn /\ Len(effects) < MaxEffects
  /\ \E x \in Effects :
       LET a == Len(effects) + 1
           e == x.elem
       IN  /\ effects' = Append(effects, x @@
                [state |-> "asked", remaining |-> x.duration, stopped |-> FALSE,
                 from |-> 2, to |-> 2, orig |-> 2, hides |-> FALSE, restores |-> FALSE,
                 attached |-> FALSE, returned |-> FALSE])
           /\ IF ~x.queued
              THEN work' = << << "call", a >> >> \o work /\ UNCHANGED << queue, hooks >>
              ELSE /\ queue' = [queue EXCEPT ![e] = Append(@, a)]
                   /\ hooks' = [hooks EXCEPT ![e].there = TRUE]
                   /\ work' = IF Head(queue'[e]) = 0 THEN work
                              ELSE << << "dequeue", e >> >> \o work
  /\ UNCHANGED << clock, finishing, style, asked >>

\* stop(clearQueue, gotoEnd), clearQueue() and finish() are made of these calls.
CallStop ==
  /\ ScriptsTurn /\ stops < MaxStops
  /\ stops' = stops + 1
  /\ \E e \in Animated, gotoEnd \in BOOLEAN :
       work' \in {<< << "stop", e, gotoEnd >> >> \o work,
                  << << "clear", e >>, << "stop", e, gotoEnd >> >> \o work,
                  << << "clear", e >> >> \o work,
                  << << "finish", e >> >> \o work}
  /\ UNCHANGED << queue, hooks, effects, clock, finishing, style, promises, upset >>

\* promise: resolved at once when there are no hooks.
Promise ==
  /\ ScriptsTurn /\ Len(promises) < MaxPromises
  /\ \E e \in Animated :
       LET p == Len(promises) + 1
       IN  /\ promises' = Append(promises, [elem |-> e, kept |-> ~hooks[e].there, asked |->
                {a \in DOMAIN effects : Elem(a) = e /\ (Running(a) \/ Contains(queue[e], a))}])
           /\ hooks' = IF hooks[e].there THEN [hooks EXCEPT ![e].waiting = @ \cup {p}] ELSE hooks
  /\ UNCHANGED << queue, effects, clock, finishing, style, work, upset, stops >>

\* A complete callback is done.
CallbackReturns ==
  /\ Doing("callback") /\ Then(<< >>)
  /\ UNCHANGED << queue, hooks, effects, clock, finishing, style, asked >>

-----------------------------------------------------------------------------
(* Queues                                                                  *)

InProgress(e) == queue[e] # << >> /\ Head(queue[e]) = 0
Behind(e)     == IF InProgress(e) THEN Tail(queue[e]) ELSE queue[e]

Dequeue ==
  /\ Doing("dequeue")
  /\ LET e == Argument
     IN  IF Behind(e) = << >>
         THEN /\ queue' = [queue EXCEPT ![e] = << >>]
              /\ hooks' = [hooks EXCEPT ![e].there = TRUE, ![e].cur = 0]
              /\ Then(<< << "empty", e >> >>)
         ELSE /\ queue' = [queue EXCEPT ![e] = << 0 >> \o Tail(Behind(e))]
              /\ hooks' = [hooks EXCEPT ![e].there = TRUE, ![e].cur = Head(Behind(e)),
                                        ![e].stop = 0]
              /\ Then(<< << "call", Head(Behind(e)) >> >>)
  /\ UNCHANGED << effects, clock, finishing, style, asked >>

\* hooks.empty.fire; not while effects run that are not of the queue.
Empty ==
  /\ Doing("empty")
  /\ LET e == Argument
     IN  IF hooks[e].unqueued > 0 THEN UNCHANGED << queue, hooks, promises >>
         ELSE /\ queue' = [queue EXCEPT ![e] = << >>]
              /\ hooks' = [hooks EXCEPT ![e] = NoHooks]
              /\ promises' = [p \in DOMAIN promises |->
                   IF p \in hooks[e].waiting THEN [promises[p] EXCEPT !.kept = TRUE]
                   ELSE promises[p]]
  /\ Then(<< >>)
  /\ UNCHANGED << effects, clock, finishing, style, upset, stops >>

\* A call is going to dequeue.
Due(e) == Contains(Tail(work), << "dequeue", e >>)

Busy(e) == Due(e) \/ \E a \in DOMAIN effects : Elem(a) = e /\ effects[a].queued /\ Running(a)

\* The queue becomes an empty array, which has no sentinel and is dequeued.
Clear ==
  /\ Doing("clear")
  /\ LET e == Argument
     IN  /\ queue' = [queue EXCEPT ![e] = << >>]
         /\ hooks' = [hooks EXCEPT ![e].there = TRUE]
         /\ upset' = IF Busy(e) THEN upset \cup {e} ELSE upset
         /\ Then(<< << "dequeue", e >> >>)
  /\ UNCHANGED << effects, clock, finishing, style, promises, stops >>

-----------------------------------------------------------------------------
(* Animations                                                              *)

\* show, hide and toggle of an element that is not so yet.  What was shown of an
\* effect that was stopped is remembered in fxshow.
Prepared(x) ==
  LET e      == x.elem
      hidden == IF fxshow[e].hidden = {} THEN ~display[e] ELSE TRUE \in fxshow[e].hidden
      known  == fxshow[e].size # {}
      own    == IF known THEN CHOOSE n \in fxshow[e].size : TRUE ELSE size[e]
  IN  IF x.kind = "move" THEN x
      ELSE IF x.kind = (IF display[e] THEN "show" ELSE "hide")
      THEN [x EXCEPT !.remaining = 0]
      ELSE [x EXCEPT !.from = IF hidden /\ ~known THEN 0 ELSE size[e],
                     !.to = IF hidden THEN own ELSE 0,
                     !.orig = own, !.hides = ~hidden, !.restores = TRUE]

Shown(x) ==
  LET e      == x.elem
      hidden == IF fxshow[e].hidden = {} THEN ~display[e] ELSE TRUE \in fxshow[e].hidden
  IN  [there |-> TRUE, hidden |-> IF x.kind = "toggle" THEN {~hidden} ELSE fxshow[e].hidden,
       size |-> IF fxshow[e].size = {} THEN {size[e]} ELSE fxshow[e].size]

\* always comes before complete when the effect ends before its callbacks are there.
Ended(a) == IF effects[a].queued THEN << >> ELSE << << "always", a >> >>

CompleteTasks(a) ==
  << << "callback", a >> >>
    \o (IF effects[a].queued THEN << << "dequeue", Elem(a) >> >> ELSE << >>)

\* The function of the queue: Animation, up to its first tick.
CallEffect ==
  /\ Doing("call") /\ effects[Argument].kind # "delay"
  /\ LET a == Argument
         e == Elem(a)
         x == Prepared([effects[a] EXCEPT !.remaining = effects[a].duration, !.stopped = FALSE,
                          !.attached = FALSE, !.returned = FALSE])
     IN  /\ effects' = [effects EXCEPT ![a] = [x EXCEPT !.state = "starting"]]
         /\ fxshow' = IF x.restores THEN [fxshow EXCEPT ![e] = Shown(effects[a])] ELSE fxshow
         /\ display' = IF x.restores /\ ~x.hides THEN [display EXCEPT ![e] = TRUE] ELSE display
         /\ size' = IF x.restores THEN [size EXCEPT ![e] = x.from] ELSE size
         /\ hooks' = IF x.queued THEN hooks
                     ELSE [hooks EXCEPT ![e].there = TRUE, ![e].unqueued = @ + 1]
         /\ IF x.remaining = 0
            THEN /\ Then(<< << "settle", a, TRUE >>, << "attach", a >> >>)
                 /\ UNCHANGED << timers, ticking >>
            ELSE /\ Then(<< << "attach", a >> >>)
                 /\ timers' = Append(timers, a)
                 /\ ticking' = TRUE
  /\ UNCHANGED << queue, timeouts, finishing, asked >>

CallDelay ==
  /\ Doing("call") /\ effects[Argument].kind = "delay"
  /\ effects' = [effects EXCEPT ![Argument].state = "running"]
  /\ timeouts' = timeouts \cup {Argument}
  /\ hooks' = [hooks EXCEPT ![Elem(Argument)].stop = Argument]
  /\ Then(<< >>)
  /\ UNCHANGED << queue, timers, ticking, finishing, style, asked >>

\* The callbacks of the options are added.
Attach ==
  /\ Doing("attach")
  /\ LET a == Argument
     IN  /\ effects' = [effects EXCEPT ![a].attached = TRUE,
                          ![a].state = IF @ = "starting" THEN "running" ELSE @]
         /\ Then((IF effects[a].state = "done" THEN CompleteTasks(a) ELSE << >>)
                 \o << << "returned", a >> >>)
  /\ UNCHANGED << queue, hooks, clock, finishing, style, asked >>

\* The function of the queue has its animation, and an element that is being
\* finished does not wait.
AnimationReturned ==
  /\ Doing("returned")
  /\ effects' = [effects EXCEPT ![Argument].returned = TRUE]
  /\ Then(IF Elem(Argument) \in finishing THEN << << "end", Argument, TRUE >> >> ELSE << >>)
  /\ UNCHANGED << queue, hooks, clock, finishing, style, asked >>

\* animation.stop(gotoEnd): the tweens are run to the end, also of an animation that
\* has come to its end by itself.
EndAnimation ==
  /\ Doing("end")
  /\ LET a       == Argument
         gotoEnd == Head(work)[3]
         runs    == ~effects[a].stopped /\ gotoEnd /\ effects[a].restores
     IN  /\ effects' = [effects EXCEPT ![a].stopped = TRUE]
         /\ size' = IF runs THEN [size EXCEPT ![Elem(a)] = effects[a].to] ELSE size
         /\ upset' = IF runs /\ ~Running(a) THEN upset \cup {Elem(a)} ELSE upset
         /\ Then(IF effects[a].stopped THEN << >> ELSE << << "settle", a, gotoEnd >> >>)
  /\ UNCHANGED << queue, hooks, clock, finishing, display, fxshow, promises, stops >>

\* The deferred is resolved or rejected, once; done restores the style.
Settle ==
  /\ Doing("settle")
  /\ LET a  == Argument
         e  == Elem(a)
         x  == effects[a]
         ok == Head(work)[3]
     IN  IF ~Running(a) THEN Then(<< >>) /\ UNCHANGED << effects, style >>
         ELSE /\ effects' = [effects EXCEPT ![a].state = IF ok THEN "done" ELSE "failed"]
              /\ IF ok /\ x.restores
                 THEN /\ size' = [size EXCEPT ![e] = x.orig]
                      /\ display' = IF x.hides THEN [display EXCEPT ![e] = FALSE] ELSE display
                      /\ fxshow' = [fxshow EXCEPT ![e] = NoShow]
                 ELSE UNCHANGED style
              /\ Then(IF ok /\ x.attached THEN CompleteTasks(a) \o Ended(a) ELSE Ended(a))
  /\ UNCHANGED << queue, hooks, clock, finishing, asked >>

\* An effect that was not queued is over.
Always ==
  /\ Doing("always")
  /\ LET e == Elem(Argument)
     IN  /\ hooks' = [hooks EXCEPT ![e].unqueued = @ - 1]
         /\ Then(IF queue[e] = << >> THEN << << "empty", e >> >> ELSE << >>)
  /\ UNCHANGED << queue, effects, clock, finishing, style, asked >>

-----------------------------------------------------------------------------
(* stop and finish                                                         *)

\* The timeout of a delay is cleared if the hooks still know of it.
Stop ==
  /\ Doing("stop")
  /\ LET e == Argument
         d == hooks[e].stop
     IN  /\ timeouts' = timeouts \ {d}
         /\ effects' = IF d = 0 THEN effects ELSE [effects EXCEPT ![d].state = "failed"]
         /\ hooks' = [hooks EXCEPT ![e].stop = 0]
         /\ upset' = IF Due(e) THEN upset \cup {e} ELSE upset
         /\ Then(<< << "timers", e, Head(work)[3], Len(timers), TRUE, d # 0 >> >>)
  /\ UNCHANGED << queue, timers, ticking, finishing, style, promises, stops >>

\* From the last timer to the first; afterwards stop dequeues what the callbacks have
\* not.  A callback may have taken timers away: then there is an exception.
StopTimers ==
  /\ Doing("timers")
  /\ LET e       == Argument
         gotoEnd == Head(work)[3]
         i       == Head(work)[4]
         dequeue == Head(work)[5]
         delay   == Head(work)[6]
     IN  /\ IF i = 0
            THEN Then(IF dequeue \/ ~gotoEnd THEN << << "dequeue", e >> >> ELSE << >>)
            ELSE IF i > Len(timers) THEN work' = << >>
            ELSE IF Elem(timers[i]) = e /\ Running(timers[i])
            THEN Then(<< << "end", timers[i], gotoEnd >>, << "splice", i, timers[i] >>,
                         << "timers", e, gotoEnd, i - 1, FALSE, delay >> >>)
            ELSE Then(<< << "timers", e, gotoEnd, i - 1, dequeue, delay >> >>)
         /\ upset' = IF i > Len(timers) THEN Animated
                     ELSE IF i = 0 /\ ~dequeue /\ gotoEnd /\ delay THEN upset \cup {e} ELSE upset
  /\ UNCHANGED << queue, hooks, effects, clock, finishing, style, promises, stops >>

\* Whatever has come to the place of the timer is taken out of the list.
Splice ==
  /\ Doing("splice")
  /\ LET i == Argument
     IN  /\ timers' = IF i \in DOMAIN timers THEN RemoveAt(timers, i) ELSE timers
         /\ upset' = IF i \in DOMAIN timers /\ timers[i] = Head(work)[3] THEN upset ELSE Animated
  /\ Then(<< >>)
  /\ UNCHANGED << queue, hooks, effects, ticking, timeouts, finishing, style, promises, stops >>

\* finish: the queue is emptied, the effect in progress, those with timers and those
\* that were queued are all gone through to their end.
FinishQueue ==
  /\ Doing("finish")
  /\ LET e    == Argument
         cur  == hooks[e].cur
         each == [i \in DOMAIN Behind(e) |-> << "call", Behind(e)[i] >>]
     IN  /\ finishing' = finishing \cup {e}
         /\ queue' = [queue EXCEPT ![e] = << >>]
         /\ upset' = IF Busy(e) THEN upset \cup {e} ELSE upset
         /\ Then((IF cur = 0 \/ effects[cur].kind = "delay" THEN << >>
                  ELSE IF effects[cur].returned THEN << << "end", cur, TRUE >> >>
                  ELSE << << "call", cur >> >>)
                 \o << << "finishTimers", e, Len(timers) >> >>
                 \o SelectSeq(each, LAMBDA task : effects[task[2]].kind # "delay")
                 \o << << "finished", e >> >>)
  /\ UNCHANGED << hooks, effects, clock, style, promises, stops >>

\* Only effects of the queue.
FinishTimers ==
  /\ Doing("finishTimers")
  /\ LET e == Argument
         i == Head(work)[3]
     IN  /\ upset' = IF i > Len(timers) THEN Animated ELSE upset
         /\ IF i = 0 THEN Then(<< >>)
            ELSE IF i > Len(timers) THEN work' = << >>
            ELSE IF Elem(timers[i]) = e /\ Running(timers[i]) /\ effects[timers[i]].queued
            THEN Then(<< << "end", timers[i], TRUE >>, << "splice", i, timers[i] >>,
                         << "finishTimers", e, i - 1 >> >>)
            ELSE Then(<< << "finishTimers", e, i - 1 >> >>)
  /\ UNCHANGED << queue, hooks, effects, clock, finishing, style, promises, stops >>

Finished ==
  /\ Doing("finished")
  /\ finishing' = finishing \ {Argument}
  /\ Then(<< >>)
  /\ UNCHANGED << queue, hooks, effects, clock, style, asked >>

-----------------------------------------------------------------------------
(* Time                                                                    *)

Interval ==
  /\ work = << >> /\ ticking
  /\ work' = << << "tick", 1 >> >>
  /\ UNCHANGED << queue, hooks, effects, clock, finishing, style, asked >>

\* Mutant: the last timer is left out.
AllButLast(i) == i < Len(timers)

MoreTimers(i) == i <= Len(timers)

\* jQuery.fx.tick: the timers one after another, those added under way too.
Tick ==
  /\ Doing("tick")
  /\ LET i == Argument
         a == timers[i]
     IN  IF ~MoreTimers(i)
         THEN ticking' = (timers # << >>) /\ Then(<< >>) /\ UNCHANGED << effects, size >>
         ELSE IF effects[a].stopped
         THEN Then(<< << "ticked", i, a >> >>) /\ UNCHANGED << effects, size, ticking >>
         ELSE /\ effects' = [effects EXCEPT ![a].remaining = Max({0, @ - 1})]
              /\ size' = IF effects[a].restores
                         THEN [size EXCEPT ![Elem(a)] = IF effects[a].remaining > 1 THEN 1
                                                        ELSE effects[a].to]
                         ELSE size
              /\ Then(IF effects[a].remaining > 1 THEN << << "tick", i + 1 >> >>
                      ELSE << << "settle", a, TRUE >>, << "ticked", i, a >> >>)
              /\ UNCHANGED ticking
  /\ UNCHANGED << queue, hooks, timers, timeouts, finishing, display, fxshow, asked >>

\* A timer that is over is taken out if it is still in its place.
Ticked ==
  /\ Doing("ticked")
  /\ LET i    == Argument
         here == i \in DOMAIN timers /\ timers[i] = Head(work)[3]
     IN  /\ timers' = IF here THEN RemoveAt(timers, i) ELSE timers
         /\ upset' = IF here THEN upset ELSE Animated
         /\ Then(<< << "tick", IF here THEN i ELSE i + 1 >> >>)
  /\ UNCHANGED << queue, hooks, effects, ticking, timeouts, finishing, style, promises, stops >>

DelayEnds ==
  /\ work = << >>
  /\ \E d \in timeouts :
       /\ timeouts' = timeouts \ {d}
       /\ effects' = [effects EXCEPT ![d].state = "done"]
       /\ work' = << << "dequeue", Elem(d) >> >>
  /\ UNCHANGED << queue, hooks, timers, ticking, finishing, style, asked >>

Call ==
  \/ Dequeue \/ Empty \/ Clear \/ CallEffect \/ CallDelay \/ Attach \/ AnimationReturned
  \/ EndAnimation
  \/ Settle \/ Always \/ Stop \/ StopTimers \/ Splice \/ FinishQueue \/ FinishTimers
  \/ Finished \/ Tick \/ Ticked \/ CallbackReturns

EffectsNext == Animate \/ CallStop \/ Promise \/ Call \/ Interval \/ DelayEnds

\* Scripts run to their end, and the browser's timers go off.
EffectsFairness == WF_xvars(Call) /\ WF_xvars(Interval) /\ WF_xvars(DelayEnds)

EffectsSpec == EffectsInit /\ [][EffectsNext]_xvars /\ EffectsFairness

-----------------------------------------------------------------------------
(* Correctness.  Upset is an element whose queue was emptied while an effect of it  *)
(* ran; whose delay was given up by a stop that then left it to another effect to *)
(* dequeue; or that was stopped or finished in a callback of stop, finish or tick. *)

\* jquery-1.9.1.js:9307-9326.  Every effect that was begun ends.
EffectsEnd ==
  \A n \in 1..MaxEffects :
    LET begun == n \in DOMAIN effects
    IN  (begun /\ Running(n)) ~> (begun /\ (Running(n) => Elem(n) \in upset))
=============================================================================
