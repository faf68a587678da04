------------------------------ MODULE MouseDrags -----------------------------
(***************************************************************************)
(* Dragging with the widgets mouse and draggable of                        *)
(* jquery-ui-1.10.2.custom.js: press, move, release and the click after    *)
(* it, with delays, drags that revert, vetoes of the page's handlers,      *)
(* buttons released outside of the window, cancel and destroy.             *)
(*                                                                         *)
(* A drag is told to the page by the events start and stop. Distances are  *)
(* moved or not: options.distance is 1.                                    *)
(***************************************************************************)
EXTENDS Integers, Sequences, FiniteSets

CONSTANTS
  Draggables, \* elements that are made draggable
  Targets,    \* elements the mouse can be on
  Chain,      \* the draggables that hear of a mouse event on a target, inner ones first
  Grips,      \* targets that a draggable can be dragged by: handle and cancel
  Delayed,    \* draggables with a delay
  Reverting,  \* draggables that revert
  NoTarget,
  MaxTimers   \* bound: timers of a draggable under way

ASSUME DragsAssumption ==
  /\ Chain \in [Targets -> Seq(Draggables)]
  /\ \A w \in Draggables : Grips[w] \subseteq Targets
  /\ NoTarget \notin Targets

VARIABLES
  mouseHandled,
  pressedOn,   \* where the button of the mouse went down; NoTarget: it is up
  held,        \* the draggables that exist
  mouseDown,   \* targets of _mouseDownEvent
  following,   \* draggables whose delegates are bound to the document
  mouseStarted,
  mouseDelayMet,
  delayTimers, \* timeouts that have not been reached
  helper,      \* "none", "dragged", "reverts", or "kept" when it was not cleared
  prevented,   \* targets with the data preventClickEvent, one for all draggables
  lastClick    \* whether the last click was swallowed, and the drags of its press

mvars == << mouseHandled, pressedOn, held, mouseDown, following, mouseStarted, mouseDelayMet,
            delayTimers, helper, prevented, lastClick >>

NoClick == [swallowed |-> FALSE, dragged |-> {}, taken |-> {}]

DragsInit ==
  /\ mouseHandled = FALSE
  /\ pressedOn = NoTarget
  /\ held = Draggables
  /\ mouseDown = [w \in Draggables |-> NoTarget]
  /\ following = {}
  /\ mouseStarted = {}
  /\ mouseDelayMet = {}
  /\ delayTimers = [w \in Draggables |-> 0]
  /\ helper = [w \in Draggables |-> "none"]
  /\ prevented = {}
  /\ lastClick = NoClick

\* _mouseCapture, and the closest of options.cancel
Captures(w, t) == w \in held /\ t \in Grips[w] /\ helper[w] = "none"

\* The one that takes the press on t: the first that captures it.
TakesPress(w, t) ==
  \E i \in DOMAIN Chain[t] :
    /\ Chain[t][i] = w
    /\ Captures(w, t)
    /\ \A j \in 1 .. i - 1 : ~Captures(Chain[t][j], t)

\* Mutant: an old preventClickEvent stays.
FlagsAsTheyAre(t) == prevented

\* Its click may never have come.
FlagsWithout(t) == prevented \ {t}

\* _mouseDown of the one that takes it. (The drag that is still started there,
\* its mouseup missed, does not occur: mouseHandled would be set.)
Take(w, t) ==
  /\ mouseHandled' = TRUE
  /\ mouseDown' = [mouseDown EXCEPT ![w] = t]
  /\ following' = following \cup {w}
  /\ mouseDelayMet' = IF w \in Delayed THEN mouseDelayMet \ {w} ELSE mouseDelayMet \cup {w}
  /\ delayTimers' = [delayTimers EXCEPT ![w] = @ + (IF w \in Delayed THEN 1 ELSE 0)]
  /\ delayTimers'[w] <= MaxTimers
  /\ prevented' = FlagsWithout(t)
  /\ UNCHANGED << mouseStarted, helper >>

Press(t) ==
  /\ pressedOn = NoTarget
  /\ pressedOn' = t
  /\ UNCHANGED << held, lastClick >>
  /\ \/ /\ mouseHandled \/ \A w \in Draggables : ~TakesPress(w, t)
        /\ UNCHANGED << mouseHandled, mouseDown, following, mouseDelayMet, delayTimers, prevented,
                        mouseStarted, helper >>
     \/ ~mouseHandled /\ \E w \in Draggables : TakesPress(w, t) /\ Take(w, t)

\* clearTimeout is not called when the button is released.
DelayMet(w) ==
  /\ delayTimers[w] > 0
  /\ delayTimers' = [delayTimers EXCEPT ![w] = @ - 1]
  /\ mouseDelayMet' = mouseDelayMet \cup {w}
  /\ UNCHANGED << mouseHandled, pressedOn, held, mouseDown, following, mouseStarted, helper,
                  prevented, lastClick >>

\* The event stop, then _clear unless the page's handler returns false.
ToldStop(w) ==
  helper' \in {[helper EXCEPT ![w] = "none"], [helper EXCEPT ![w] = "kept"]}

\* _mouseStop
StopDrag(w) ==
  IF w \in Reverting
  THEN helper' = [helper EXCEPT ![w] = "reverts"]
  ELSE ToldStop(w)

\* _mouseUp on a target, or of an event without one.
Release(w, t) ==
  /\ following' = following \ {w}
  /\ mouseStarted' = mouseStarted \ {w}
  /\ IF w \in mouseStarted
     THEN /\ prevented' = IF t = mouseDown[w] THEN prevented \cup {t} ELSE prevented
          /\ StopDrag(w)
     ELSE UNCHANGED << prevented, helper >>

\* mousemove of a draggable that follows the mouse, with or without a button.
Move(w) ==
  /\ w \in following
  /\ \/ w \in mouseStarted /\ Release(w, NoTarget)    \* the event drag is vetoed
     \/ /\ w \notin mouseStarted /\ w \in mouseDelayMet
        /\ mouseStarted' = mouseStarted \cup {w}
        /\ helper' = [helper EXCEPT ![w] = "dragged"]
        /\ UNCHANGED << following, prevented >>
     \/ w \notin mouseStarted /\ w \in mouseDelayMet /\ Release(w, NoTarget)  \* start is vetoed
  /\ UNCHANGED << mouseHandled, pressedOn, held, mouseDown, mouseDelayMet, delayTimers, lastClick >>

\* The click of a press and a release on the same target. The innermost draggable that hears
\* of it takes the flag, whoever set it, and keeps the click from everybody else.
Clicked(t, flags) ==
  LET swallowed == t \in flags /\ \E i \in DOMAIN Chain[t] : Chain[t][i] \in held
      OfPress(widgets) == {w \in widgets : mouseDown[w] = t}
  IN  /\ lastClick' = [swallowed |-> swallowed, dragged |-> OfPress(mouseStarted),
                       taken |-> OfPress(following)]
      /\ prevented' = IF swallowed THEN flags \ {t} ELSE flags

\* The button is released on t. Some browsers send no click after a drag.
ReleaseButton(t) ==
  /\ pressedOn # NoTarget
  /\ pressedOn' = NoTarget
  /\ mouseHandled' = FALSE
  /\ following' = {}
  /\ mouseStarted' = {}
  /\ LET flags == prevented \cup (IF \E w \in mouseStarted : mouseDown[w] = t THEN {t} ELSE {})
     IN  \/ t = pressedOn /\ Clicked(t, flags)
         \/ (t = pressedOn => mouseStarted # {}) /\ prevented' = flags /\ UNCHANGED lastClick
  /\ IF mouseStarted = {} THEN UNCHANGED helper ELSE \E w \in mouseStarted : StopDrag(w)
  /\ UNCHANGED << held, mouseDown, mouseDelayMet, delayTimers >>

\* It is released where the document does not hear of it.
ReleaseOutside ==
  /\ pressedOn # NoTarget
  /\ pressedOn' = NoTarget
  /\ UNCHANGED << mouseHandled, held, mouseDown, following, mouseStarted, mouseDelayMet, delayTimers,
                  helper, prevented, lastClick >>

RevertEnds(w) ==
  /\ helper[w] = "reverts"
  /\ ToldStop(w)
  /\ UNCHANGED << mouseHandled, pressedOn, held, mouseDown, following, mouseStarted, mouseDelayMet,
                  delayTimers, prevented, lastClick >>

CancelDrag(w) ==
  /\ w \in held /\ helper[w] # "none"
  /\ Release(w, NoTarget)
  /\ UNCHANGED << mouseHandled, pressedOn, held, mouseDown, mouseDelayMet, delayTimers, lastClick >>

\* destroy: the timers and the animation of the old widget change nothing more.
DestroyDraggable(w) ==
  /\ w \in held
  /\ held' = held \ {w}
  /\ mouseDown' = [mouseDown EXCEPT ![w] = NoTarget]
  /\ following' = following \ {w}
  /\ mouseStarted' = mouseStarted \ {w}
  /\ mouseDelayMet' = mouseDelayMet \ {w}
  /\ delayTimers' = [delayTimers EXCEPT ![w] = 0]
  /\ helper' = [helper EXCEPT ![w] = "none"]
  /\ UNCHANGED << mouseHandled, pressedOn, prevented, lastClick >>

CreateDraggable(w) ==
  /\ w \notin held
  /\ held' = held \cup {w}
  /\ UNCHANGED << mouseHandled, pressedOn, mouseDown, following, mouseStarted, mouseDelayMet,
                  delayTimers, helper, prevented, lastClick >>

DragsNext ==
  \/ \E t \in Targets : Press(t) \/ ReleaseButton(t)
  \/ ReleaseOutside
  \/ \E w \in Draggables : \/ DelayMet(w)
                           \/ Move(w)
                           \/ RevertEnds(w)
                           \/ CancelDrag(w)
                           \/ DestroyDraggable(w)
                           \/ CreateDraggable(w)

DragsSpec == DragsInit /\ [][DragsNext]_mvars

-----------------------------------------------------------------------------
(* Correctness                                                             *)

\* jquery-ui-1.10.2.custom.js:848-854, 904-906, 952-955.  When a draggable took a press, its
\* click is swallowed if and only if the press became a drag: the flag of an older drag whose
\* click never came, of whichever draggable, does not count.  (A press that none took finds
\* the old flag, and loses its click to it.)
OnlyDragsSwallowClicks ==
  /\ lastClick.taken # {} /\ lastClick.swallowed => lastClick.dragged # {}
  /\ lastClick.dragged # {} => lastClick.swallowed
=============================================================================
