---------------------------- MODULE EventHandlers ----------------------------
(***************************************************************************)
(* The events of jquery-1.9.1.js: on, one, off, trigger and dispatch, with *)
(* delegation, namespaces and the focusin that focus is turned into.       *)
(*                                                                         *)
(* What a handler does is up to its author: between its call and its       *)
(* return it may do whatever any script may.                               *)
(***************************************************************************)
EXTENDS Orders, Integers, SequencesExt

CONSTANTS
  Elements,     \* of the page
  ParentElement, \* their parents; the outermost's is NoElement
  NoElement,
  Attributed,   \* elements with an attribute onclick
  Bindings,     \* the calls of on and one that scripts make
  Removals,     \* their calls of off
  MaxBound,     \* bound: calls of on, one and off
  MaxTriggered  \* bound: events

EventTypes == {"click", "focusin"}

ASSUME EventsAssumption ==
  /\ NoElement \notin Elements
  /\ ParentElement \in [Elements -> Elements \cup {NoElement}]
  /\ Attributed \subseteq Elements
  /\ \A b \in Bindings : b.elem \in Elements /\ b.type \in EventTypes

VARIABLES
  events,     \* handlers and delegateCount for every element and type
  listening,  \* elements with a listener of the browser for clicks
  attaches,   \* how many elements want focusin
  dispatches, \* the events under way, the inner one last
  triggered,  \* jQuery.event.triggered
  called,     \* the calls of handlers
  spoiled,    \* a trigger ended inside the default action of another
  bound       \* counter for the bound, and name of the next handleObj

evars == << events, listening, attaches, dispatches, triggered, called, spoiled, bound >>

None == [handleObj |-> 0]
NoType == "none"
NoHandlers == [list |-> << >>, delegateCount |-> 0]

EventsInit ==
  /\ events = [e \in Elements |-> [t \in EventTypes |-> NoHandlers]]
  /\ listening = {}
  /\ attaches = 0
  /\ dispatches = << >>
  /\ triggered = NoType
  /\ called = << >>
  /\ spoiled = FALSE
  /\ bound = 0

\* An element, its parent, and so on.
Path[e \in Elements \cup {NoElement}] == IF e = NoElement THEN << >> ELSE << e >> \o Path[ParentElement[e]]

\* No element of the document is its own ancestor.
ASSUME TreeAssumption ==
  \A e \in Elements : Path[e] \in Seq(Elements) /\ IsInjective(Path[e])

Event == Last(dispatches)
ChangeEvent(event) == dispatches' = Append(Front(dispatches), event)

\* Code of the page may run now: between two events or in a handler.
PageRuns == dispatches # << >> => Event.running # None

-----------------------------------------------------------------------------
(* Binding                                                                 *)

\* Delegated handlers come before the others.
WithHandler(h, handleObj) ==
  IF handleObj.selector = NoElement
  THEN [h EXCEPT !.list = Append(@, handleObj)]
  ELSE [list |-> InsertAt(h.list, h.delegateCount + 1, handleObj),
        delegateCount |-> h.delegateCount + 1]

AddHandler(e, type, handleObj) ==
  /\ events' = [events EXCEPT ![e][type] = WithHandler(@, handleObj)]
  /\ LET first == events[e][type].list = << >>
     IN  /\ listening' = IF first /\ type = "click" THEN listening \cup {e} ELSE listening
         /\ attaches' = IF first /\ type = "focusin" THEN attaches + 1 ELSE attaches

\* handler, selector and namespace are compared when they are given.
Matches(handleObj, guid, selector, namespace) ==
  /\ guid \in {NoElement, handleObj.guid}
  /\ selector \in {NoElement, handleObj.selector}
  /\ namespace = "" \/ namespace = handleObj.namespace

WithoutHandlers(h, guid, selector, namespace) ==
  LET list == Chosen(h.list, {i \in DOMAIN h.list : ~Matches(h.list[i], guid, selector, namespace)})
  IN  [list |-> list,
       delegateCount |-> Cardinality({i \in DOMAIN list : list[i].selector # NoElement})]

RemoveHandlers(e, types, guid, selector, namespace) ==
  /\ events' = [events EXCEPT ![e] =
       [t \in EventTypes |-> IF t \in types THEN WithoutHandlers(@[t], guid, selector, namespace)
                             ELSE @[t]]]
  /\ LET last(t) == /\ events[e][t].list # << >>
                    /\ events'[e][t].list = << >>
     IN  /\ listening' = IF last("click") THEN listening \ {e} ELSE listening
         /\ attaches' = IF last("focusin") THEN attaches - 1 ELSE attaches

\* on and one; a selector names the descendant that it selects.
On ==
  /\ PageRuns /\ bound < MaxBound
  /\ \E b \in Bindings :
       AddHandler(b.elem, b.type, [handleObj |-> bound + 1, guid |-> b.guid, one |-> b.one,
                            selector |-> b.selector, namespace |-> b.namespace])
  /\ bound' = bound + 1
  /\ UNCHANGED << dispatches, triggered, called, spoiled >>

Off ==
  /\ PageRuns /\ bound < MaxBound
  /\ \E r \in Removals :
       RemoveHandlers(r.elem, r.types, r.guid, r.selector, r.namespace)
  /\ events' # events
  /\ bound' = bound + 1
  /\ UNCHANGED << dispatches, triggered, called, spoiled >>

-----------------------------------------------------------------------------
(* Events.  native: the browser's; default: its click is the default action of a *)
(* trigger; path: elements to come; at: what is left to call at current, the  *)
(* element that has the turn; queue: what dispatch has found there; group: the *)
(* element whose handlers run.                                             *)

StartEvent(native, type, target, path, namespace) ==
  [native |-> native, default |-> FALSE, type |-> type, target |-> target, path |-> path,
   namespace |-> namespace, number |-> bound, only |-> FALSE, current |-> NoElement,
   at |-> << >>, queue |-> << >>, group |-> NoElement, running |-> None,
   prevented |-> FALSE, stopped |-> FALSE, immediate |-> FALSE]

\* trigger and triggerHandler.
Trigger ==
  /\ PageRuns /\ bound < MaxBound + MaxTriggered
  /\ \E e \in Elements, type \in EventTypes, namespace \in {"", "name"}, only \in BOOLEAN :
       dispatches' = Append(dispatches,
         [StartEvent(FALSE, type, e, IF only THEN << e >> ELSE Path[e], namespace)
            EXCEPT !.only = only])
  /\ bound' = bound + 1
  /\ UNCHANGED << events, listening, attaches, triggered, called, spoiled >>

\* A click, or a focus that document's capturing handler simulates focusin for.
UserActs ==
  /\ dispatches = << >> /\ bound < MaxBound + MaxTriggered
  /\ \E e \in Elements :
       \/ dispatches' = << StartEvent(TRUE, "click", e, Path[e], "") >>
       \/ attaches > 0 /\ dispatches' = << StartEvent(FALSE, "focusin", e, Path[e], "") >>
  /\ bound' = bound + 1
  /\ UNCHANGED << events, listening, attaches, triggered, called, spoiled >>

Between == dispatches # << >> /\ Event.running = None

\* The event comes to the next element.  An attribute is older than a handler for the
\* browser, and comes after it in trigger, which hides that of its target from the
\* default action.
Propagate ==
  /\ Between /\ Event.at = << >> /\ Event.queue = << >>
  /\ ~Event.stopped /\ Event.path # << >>
  /\ LET e         == Head(Event.path)
         attribute == IF e \notin Attributed \/ Event.type # "click"
                         \/ (Event.default /\ e = Event.target)
                      THEN << >> ELSE << "attribute" >>
     IN  ChangeEvent([Event EXCEPT !.path = Tail(@), !.current = e, !.group = NoElement,
                   !.at = IF Event.native THEN attribute \o << "handle" >>
                          ELSE << "handle" >> \o attribute])
  /\ UNCHANGED << events, listening, attaches, triggered, called, spoiled, bound >>

CallAttribute ==
  /\ Between /\ Event.queue = << >> /\ Event.at # << >> /\ Head(Event.at) = "attribute"
  /\ ChangeEvent([Event EXCEPT !.at = Tail(@), !.running = [handleObj |-> -1]])
  /\ UNCHANGED << events, listening, attaches, triggered, called, spoiled, bound >>

\* event.handlers: for every element from the target up to this one the delegated
\* handlers that select it, and then this element's own.
HandlerQueue(event, e) ==
  LET h     == events[e][event.type]
      path  == Path[event.target]
      found == {p \in (DOMAIN path) \X (1..h.delegateCount) :
                  /\ ~Contains(Path[e], path[p[1]])
                  /\ h.list[p[2]].selector = path[p[1]]}
      innerFirst == {q \in found \X found : \/ q[1][1] < q[2][1]
                                            \/ q[1][1] = q[2][1] /\ q[1][2] < q[2][2]}
      own   == SubSeq(h.list, h.delegateCount + 1, Len(h.list))
  IN  InOrder([p \in found |-> << path[p[1]], h.list[p[2]] >>], found, innerFirst)
        \o [i \in DOMAIN own |-> << e, own[i] >>]

\* The element's handle.  The event that the default action of trigger makes is
\* discarded.
Dispatch ==
  /\ Between /\ Event.queue = << >> /\ Event.at # << >> /\ Head(Event.at) = "handle"
  /\ ChangeEvent([Event EXCEPT !.at = Tail(@),
               !.queue = IF triggered = Event.type THEN << >>
                         ELSE HandlerQueue(Event, Event.current)])
  /\ UNCHANGED << events, listening, attaches, triggered, called, spoiled, bound >>

\* Another group is not begun once propagation is stopped, nor a group gone on with
\* once it is stopped immediately.
Goes(event) ==
  ~event.immediate /\ (~event.stopped \/ Head(event.queue)[1] = event.group)

Drop ==
  /\ Between /\ Event.queue # << >> /\ ~Goes(Event)
  /\ ChangeEvent([Event EXCEPT !.queue = << >>])
  /\ UNCHANGED << events, listening, attaches, triggered, called, spoiled, bound >>

\* A handler that was bound with one first takes itself, and whatever off takes for
\* it, off the element.
CallNext ==
  LET e == Head(Event.queue)[1]
      o == Head(Event.queue)[2]
      named == Event.namespace \in {"", o.namespace}
  IN  /\ Between /\ Event.queue # << >> /\ Goes(Event)
      /\ ChangeEvent([Event EXCEPT !.queue = Tail(@), !.group = e,
                              !.running = IF named THEN o ELSE None])
      /\ called' = IF ~named THEN called
                   ELSE Append(called, [event |-> Event.number, elem |-> e, handler |-> o])
      /\ IF named /\ o.one
         THEN RemoveHandlers(Event.current, {Event.type}, o.guid, o.selector, o.namespace)
         ELSE UNCHANGED << events, listening, attaches >>
      /\ UNCHANGED << triggered, spoiled, bound >>

\* stopPropagation, stopImmediatePropagation and preventDefault, by a handler that
\* jQuery calls.
StopEvent ==
  /\ dispatches # << >> /\ Event.running \notin {None, [handleObj |-> -1]}
  /\ \/ ChangeEvent([Event EXCEPT !.stopped = TRUE])
     \/ ChangeEvent([Event EXCEPT !.stopped = TRUE, !.immediate = TRUE])
     \/ ChangeEvent([Event EXCEPT !.prevented = TRUE])
  /\ UNCHANGED << events, listening, attaches, triggered, called, spoiled, bound >>

\* FALSE prevents the default, and stops the event unless an attribute says so.
HandlerReturns ==
  /\ dispatches # << >> /\ Event.running # None
  /\ \E result \in BOOLEAN :
       ChangeEvent([Event EXCEPT !.running = None, !.prevented = @ \/ ~result,
                 !.stopped = @ \/ (~result /\ Event.running # [handleObj |-> -1])])
  /\ UNCHANGED << events, listening, attaches, triggered, called, spoiled, bound >>

EventFinished ==
  /\ Between /\ Event.queue = << >> /\ Event.at = << >>
  /\ Event.path = << >> \/ Event.stopped

HasDefault == Event.type = "click" /\ ~Event.native /\ ~Event.only /\ ~Event.prevented

\* Mutant: the default action's own event is not told from others.
ActUntold ==
  /\ EventFinished /\ HasDefault
  /\ ChangeEvent([StartEvent(TRUE, "click", Event.target, Path[Event.target], "")
               EXCEPT !.default = TRUE, !.number = Event.number])
  /\ UNCHANGED << events, listening, attaches, triggered, called, spoiled, bound >>

\* trigger calls the method click of the element, which is no link or checkbox.
Act ==
  /\ EventFinished /\ HasDefault
  /\ ChangeEvent([StartEvent(TRUE, "click", Event.target, Path[Event.target], "")
               EXCEPT !.default = TRUE, !.number = Event.number])
  /\ triggered' = Event.type
  /\ UNCHANGED << events, listening, attaches, called, spoiled, bound >>

\* After the default action nothing is triggered any more, also if this was inside
\* the default action of another trigger.
FinishTrigger ==
  /\ EventFinished /\ ~HasDefault
  /\ dispatches' = Front(dispatches)
  /\ triggered' = IF Event.default THEN NoType ELSE triggered
  /\ spoiled' = (spoiled \/ (Event.default /\ \E i \in DOMAIN dispatches' : dispatches'[i].default))
  /\ UNCHANGED << events, listening, attaches, called, bound >>

EventsNext ==
  \/ On \/ Off \/ Trigger \/ UserActs \/ Propagate \/ CallAttribute \/ Dispatch
  \/ Drop \/ CallNext \/ StopEvent \/ HandlerReturns \/ Act \/ FinishTrigger

EventsSpec == EventsInit /\ [][EventsNext]_evars

-----------------------------------------------------------------------------
(* Correctness                                                             *)

Earlier(i, j) == i < j /\ called[i].event = called[j].event

\* jquery-1.9.1.js:2746-2752, 3008-3028.  A handler has one call for an event that was
\* triggered, though the default action makes the browser send the event again; but
\* not after the default action of another trigger inside that one.
CalledOncePerEvent ==
  ~spoiled => \A i, j \in DOMAIN called :
    Earlier(i, j) => << called[i].handler, called[i].elem >> # << called[j].handler, called[j].elem >>
=============================================================================
