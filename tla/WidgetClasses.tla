---------------------------- MODULE WidgetClasses ----------------------------
(***************************************************************************)
(* $.widget of jquery-ui-1.10.2.custom.js: constructors that inherit from  *)
(* one another, what becomes of them when a widget is defined again, and   *)
(* the _super that every method finds while it runs.                       *)
(***************************************************************************)
EXTENDS Integers, Sequences, SequencesExt, FiniteSets

CONSTANTS
  WidgetNames,
  Levels,         \* 1 .. n: a method that is overridden n - 1 times
  MaxDefinitions, \* bound: calls of $.widget by scripts
  MaxFrames       \* bound: nested calls of methods

ASSUME ClassesAssumption ==
  IsFiniteSet(Levels) /\ Levels = 1 .. Cardinality(Levels) /\ Levels # {}

Widget == 0  \* $.Widget, the base of all

VARIABLES
  constructors, \* of all definitions: name, base and _childConstructors
  current,      \* $.ui[name]; Widget: not defined
  redefined,    \* the definitions of children that are still to be made
  definitions,  \* counter for the bound
  frames,       \* methods that run on an instance, the innermost last
  super         \* its _super: that of the method at a level; 0: undefined

cvars == << constructors, current, redefined, definitions, frames, super >>

ClassesInit ==
  /\ constructors = << >>
  /\ current = [n \in WidgetNames |-> Widget]
  /\ redefined = << >>
  /\ definitions = 0
  /\ frames = << >>
  /\ super = 0

\* The children of the old constructor are to be defined again, with the new
\* one as their base.
ChildrenOf(old, new) ==
  LET Child(c) == [name |-> constructors[c].name, base |-> new]
  IN  [i \in DOMAIN constructors[old].children |-> Child(constructors[old].children[i])]

\* One call of $.widget: only a name that is new is told to its base.
Defined(name, base) ==
  LET new == Len(constructors) + 1
      old == current[name]
      made == Append(constructors, [name |-> name, base |-> base, children |-> << >>])
  IN  /\ current' = [current EXCEPT ![name] = new]
      /\ IF old # Widget
         THEN /\ constructors' = [made EXCEPT ![old].children = << >>]
              /\ redefined' = ChildrenOf(old, new) \o redefined
         ELSE /\ constructors' = IF base = Widget THEN made
                                 ELSE [made EXCEPT ![base].children = Append(@, new)]
              /\ UNCHANGED redefined

\* A script defines a widget, from one that exists or, as ui.dialog is, again
\* from itself.
Define(name) ==
  /\ redefined = << >>
  /\ definitions < MaxDefinitions
  /\ definitions' = definitions + 1
  /\ \E base \in {Widget} \cup {current[n] : n \in WidgetNames} :
       \* from itself or from a widget that is not its own descendant
       /\ \A n \in WidgetNames : base # Widget /\ current[n] = base => n <= name
       /\ Defined(name, base)
  /\ UNCHANGED << frames, super >>

DefineChild ==
  /\ redefined # << >>
  /\ LET child == Head(redefined)
         rest  == Tail(redefined)
         new   == Len(constructors) + 1
         old   == current[child.name]
     IN  /\ current' = [current EXCEPT ![child.name] = new]
         /\ constructors' = Append([constructors EXCEPT ![old].children = << >>],
                                   [name |-> child.name, base |-> child.base, children |-> << >>])
         /\ redefined' = ChildrenOf(old, new) \o rest
  /\ UNCHANGED << definitions, frames, super >>

-----------------------------------------------------------------------------
\* A method of the most derived class is called, from outside or by a method.
CallMethod ==
  /\ Len(frames) < MaxFrames
  /\ frames' = Append(frames, [level |-> Cardinality(Levels), saved |-> super, caught |-> FALSE])
  /\ super' = Cardinality(Levels)
  /\ UNCHANGED << constructors, current, redefined, definitions >>

\* this._super(): the same method of the base of the class it is of.
CallSuper ==
  /\ frames # << >>
  /\ Len(frames) < MaxFrames
  /\ super > 1
  /\ frames' = Append(frames, [level |-> super - 1, saved |-> super, caught |-> FALSE])
  /\ super' = super - 1
  /\ UNCHANGED << constructors, current, redefined, definitions >>

\* Mutant: _super is left to the next caller.
SuperStays == super

SuperRestored == Last(frames).saved

ReturnFromMethod ==
  /\ frames # << >>
  /\ super' = SuperRestored
  /\ frames' = Front(frames)
  /\ UNCHANGED << constructors, current, redefined, definitions >>

\* A method throws and one that called it, or the page, catches: nothing is
\* put back on the way.
Throw ==
  /\ frames # << >>
  /\ \E n \in 0 .. Len(frames) - 1 :
       frames' = IF n = 0 THEN << >> ELSE [SubSeq(frames, 1, n) EXCEPT ![n].caught = TRUE]
  /\ UNCHANGED << constructors, current, redefined, definitions, super >>

ClassesNext ==
  \/ \E name \in WidgetNames : Define(name)
  \/ DefineChild
  \/ CallMethod
  \/ CallSuper
  \/ ReturnFromMethod
  \/ Throw

ClassesSpec == ClassesInit /\ [][ClassesNext]_cvars

-----------------------------------------------------------------------------
(* Correctness                                                             *)

\* jquery-ui-1.10.2.custom.js:386-407.  A method that caught no exception itself finds
\* its own _super whenever it goes on, after calls of _super, of other methods, and of
\* itself.
SuperIsOwn ==
  frames # << >> /\ ~Last(frames).caught => super = Last(frames).level
=============================================================================
