--------------------------- MODULE WidgetInstances ---------------------------
(***************************************************************************)
(* The instances that jquery-ui-1.10.2.custom.js makes of a widget: when   *)
(* the plugin makes one, what destroy and the removal of its element leave *)
(* of it, and when its handlers are called.                                *)
(*                                                                         *)
(* An instance binds a handler to its element and, with _on, to another    *)
(* one. What a handler does is up to the page, and so is what _create and  *)
(* _destroy do: they may throw.                                            *)
(***************************************************************************)
EXTENDS Naturals, Sequences

CONSTANTS
  Hosts,       \* elements that are made widgets
  Other,       \* the other element an instance of a host binds to
  MaxInstances \* bound: instances

ASSUME InstancesAssumption == Other \in [Hosts -> Hosts]

VARIABLES
  uuid,     \* of the last instance
  instance, \* the data of the hosts: the uuid of their instance, 0: none
  host,     \* the element of every instance
  bindings, \* handlers: << element, uuid >>; an element calls them in the order of their uuid
  disabled, \* options.disabled
  torn,     \* instances whose _create or _destroy threw
  event,    \* the handlers that the event under way is still to call
  gone,     \* instances that were destroyed during this event
  spoken    \* instances whose handler was called last

ivars == << uuid, instance, host, bindings, disabled, torn, event, gone, spoken >>

InstancesInit ==
  /\ uuid = 0
  /\ instance = [e \in Hosts |-> 0]
  /\ host = << >>
  /\ bindings = {}
  /\ disabled = {}
  /\ torn = {}
  /\ event = {}
  /\ gone = {}
  /\ spoken = 0

\* .widget(options) of an element without an instance: its data and the handler
\* of "remove" are there before _create is called, and stay if _create throws.
CreateInstance(e) ==
  /\ instance[e] = 0
  /\ uuid < MaxInstances
  /\ uuid' = uuid + 1
  /\ instance' = [instance EXCEPT ![e] = uuid']
  /\ host' = Append(host, e)
  /\ \/ /\ bindings' = bindings \cup {<< e, uuid' >>, << Other[e], uuid' >>}
        /\ UNCHANGED torn
     \/ /\ bindings' = bindings \cup {<< e, uuid' >>}
        /\ torn' = torn \cup {uuid'}
  /\ UNCHANGED << disabled, event, gone, spoken >>

\* .widget("disable") and .widget("enable"); an element without an instance
\* makes it throw.
ToggleDisabled(e) ==
  /\ instance[e] # 0
  /\ disabled' = IF instance[e] \in disabled THEN disabled \ {instance[e]} ELSE disabled \cup {instance[e]}
  /\ UNCHANGED << uuid, instance, host, bindings, torn, event, gone, spoken >>

\* Mutant: destroy unbinds the element only.
UnboundFromElement(u) == bindings \ {<< host[u], u >>}

\* The end of destroy: the namespace of an instance is its own.
Unbound(u) == {binding \in bindings : binding[2] # u}

DataRemoved(e) == [instance EXCEPT ![e] = 0]

DestroyInstance(e) ==
  /\ instance[e] # 0
  /\ \/ /\ bindings' = Unbound(instance[e])
        /\ instance' = DataRemoved(e)
        /\ gone' = gone \cup {instance[e]}
        /\ UNCHANGED torn
     \/ torn' = torn \cup {instance[e]} /\ UNCHANGED << bindings, instance, gone >>  \* _destroy throws
  /\ UNCHANGED << uuid, host, disabled, event, spoken >>

\* cleanData: the handlers of "remove" destroy the instance, and whatever they
\* throw is caught; then the element loses its handlers and its data.
RemoveHost(e) ==
  /\ LET u == instance[e]
         OfOthers(handlers) == {binding \in handlers : binding[1] # e}
     IN  \/ /\ u # 0
            /\ bindings' = OfOthers(Unbound(u))
            /\ gone' = gone \cup {u}
            /\ UNCHANGED torn
         \/ /\ u # 0
            /\ bindings' = OfOthers(bindings)
            /\ torn' = torn \cup {u}
            /\ UNCHANGED gone
         \/ /\ u = 0
            /\ bindings' = OfOthers(bindings)
            /\ UNCHANGED << torn, gone >>
  /\ instance' = [instance EXCEPT ![e] = 0]
  /\ UNCHANGED << uuid, host, disabled, event, spoken >>

\* An event on e: the handlers it will call are found now.
EventOn(e) ==
  /\ event = {}
  /\ event' = {binding \in bindings : binding[1] = e}
  /\ event' # {}
  /\ gone' = {}
  /\ spoken' = 0
  /\ UNCHANGED << uuid, instance, host, bindings, disabled, torn >>

\* handlerProxy
CallHandler ==
  /\ \E first \in event :
       /\ \A binding \in event : first[2] <= binding[2]
       /\ event' = event \ {first}
       /\ spoken' = IF first[2] \in disabled THEN 0 ELSE first[2]
  /\ gone' = IF event' = {} THEN gone \cap {spoken'} ELSE gone
  /\ UNCHANGED << uuid, instance, host, bindings, disabled, torn >>

\* The page acts between two events and in every handler.
InstancesNext ==
  \/ \E e \in Hosts : \/ CreateInstance(e)
                      \/ ToggleDisabled(e)
                      \/ DestroyInstance(e)
                      \/ RemoveHost(e)
                      \/ EventOn(e)
  \/ CallHandler

InstancesSpec == InstancesInit /\ [][InstancesNext]_ivars

-----------------------------------------------------------------------------
(* Correctness                                                             *)

Live == {instance[e] : e \in Hosts} \ {0}

\* jquery-ui-1.10.2.custom.js:569-593, 667-719.  A handler stays bound no longer than its
\* instance is the element's, on every element that the instance bound to: only an
\* instance whose _create or _destroy threw leaves some behind.  Nor is an instance that
\* was destroyed called any more, but by the event in which this happened.
NoHandlerOutlivesItsWidget ==
  /\ \A binding \in bindings : binding[2] \in Live \cup torn
  /\ spoken # 0 => spoken \in Live \cup torn \cup gone
=============================================================================
