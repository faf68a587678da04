----------------------------- MODULE MCScripts ------------------------------
(***************************************************************************)
(* The scripts of the pages that only answer to calls and events, each in  *)
(* its small instance.  They share no state, so a behaviour is one of one  *)
(* of them while the others stay as they were loaded: they are checked as  *)
(* one system without the product of their states.                         *)
(***************************************************************************)
EXTENDS SortableTables, CallbackLists, AjaxConversions, EventHandlers, DomTree, Dialogs,
        MouseDrags, Placement, Resizing, WidgetClasses, WidgetInstances, Buttons

CONSTANTS
  r1, r2, r3, r4,                       \* SortableTables
  callback1, callback2,                 \* CallbackLists
  row1, button1, onButton, onRow,       \* EventHandlers
  d1, d2,                               \* Dialogs
  title1, window1, text1, bar1,         \* MouseDrags
  buttonset1, button2,                  \* WidgetInstances
  tick1, radio1, radio2, link1, link2   \* Buttons

(* SortableTables: three rows and a last one.                              *)

Text(parts, kind, alpha, number, first, second) ==
  [parts |-> parts, kind |-> kind, alpha |-> alpha, number |-> number,
   first |-> first, second |-> second]

NoText == Text({}, "blank", 0, 0, 0, 0)
One     == Text({"1"}, "number", 1, 1, 0, 0)
Ten     == Text({"1", "10"}, "number", 2, 10, 0, 0)
March   == Text({"1", "3/4/13"}, "date", 3, 34, 3, 4)
May     == Text({"1", "5/2/13"}, "date", 4, 52, 5, 2)
June    == Text({"1", "6/20/13"}, "date", 5, 620, 6, 20)
Ann     == Text({"ann"}, "word", 6, 0, 0, 0)
Bob     == Text({"bob"}, "word", 7, 0, 0, 0)

Plain(text)        == [customkey |-> NoKey, text |-> text]
Keyed(own, text)   == [customkey |-> own, text |-> text]
Column(x, y, z)    == (r1 :> x) @@ (r2 :> y) @@ (r3 :> z) @@ (r4 :> Plain(NoText))
Contents2(one, two) == [r \in Rows |-> << one[r], two[r] >>]

MCContents ==
  LET people  == Column(Plain(Bob), Plain(Ann), Plain(Bob))
      mixed   == Column(Plain(Ten), Plain(Ann), Plain(One))
      dates   == Column(Plain(May), Plain(June), Plain(March))
      dates2  == Column(Plain(May), Plain(NoText), Plain(March))
      custom  == Column(Keyed(Ten, Bob), Keyed(One, Ann), Keyed(Ten, Ann))
  IN  {Contents2(people, mixed), Contents2(people, dates), Contents2(dates2, custom)}

MCHeaderTypes == {<< "guess", "guess" >>, << "alpha", "guess" >>, << "guess", "nosort" >>}

MCDefaults == {<< "", "" >>, << "", "asc" >>, << "desc", "" >>}

MCPhrases ==
  {<< {[text |-> "", negated |-> FALSE]} >>,
   << {[text |-> "ann", negated |-> FALSE], [text |-> "1", negated |-> FALSE]} >>,
   << {[text |-> "bob", negated |-> FALSE]}, {[text |-> "10", negated |-> TRUE]} >>}

(* AjaxConversions: a page with a type of its own.                         *)

MCTypes == {"text", "json", "xml", "own"}
\* What a page may have put into s.converters: up to three of these.
MCHops == {<< "text", "json" >>, << "*", "text" >>, << "xml", "own" >>, << "json", "own" >>,
           << "own", "text" >>}
MCConverters ==
  UNION {[hops -> {"same", "makes"}] : hops \in {h \in SUBSET MCHops : Cardinality(h) <= 3}}
MCAsked ==
  {<< "*" >>, << "json" >>, << "own" >>, << "*", "xml" >>, << "text", "own" >>, << "json", "text" >>}
MCResponses == {<< "text" >>, << "xml", "text" >>, << "text", "xml" >>, << "own" >>}

(* EventHandlers: a button in a table row that has an attribute onclick.   *)

MCParentElement == (button1 :> row1) @@ (row1 :> NoElement)

Bound(elem, type, guid, one, selector, namespace) ==
  [elem |-> elem, type |-> type, guid |-> guid, one |-> one, selector |-> selector,
   namespace |-> namespace]

MCBindings ==
  {Bound(button1, "click", onButton, FALSE, NoElement, "name"),
   Bound(button1, "click", onButton, TRUE, NoElement, ""),
   Bound(row1, "click", onRow, FALSE, NoElement, ""),
   Bound(row1, "click", onButton, TRUE, button1, "name"),
   Bound(row1, "focusin", onRow, TRUE, button1, ""),
   Bound(button1, "focusin", onRow, FALSE, NoElement, "")}

Removed(elem, types, guid, selector, namespace) ==
  [elem |-> elem, types |-> types, guid |-> guid, selector |-> selector, namespace |-> namespace]

MCRemovals ==
  {Removed(button1, {"click"}, onButton, NoElement, ""),
   Removed(row1, {"click", "focusin"}, NoElement, NoElement, ""),
   Removed(row1, {"click"}, NoElement, button1, ""),
   Removed(button1, {"click", "focusin"}, NoElement, NoElement, "name")}

(* DomTree: a body with two elements, the first with a child, and copies.  *)

MCFirstNodes == [n \in Nodes |-> CASE n = 1 -> << 2, 4 >> [] n = 2 -> << 3 >> [] OTHER -> << >>]

MCSelections == {<< 1 >>, << 3 >>, << 2, 3 >>, << 1, 4 >>, << 4, 2 >>}

(* MouseDrags: a draggable title in a draggable window.                    *)

MCChain == (bar1 :> << title1, window1 >>) @@ (text1 :> << window1 >>)
MCGrips == (title1 :> {bar1}) @@ (window1 :> {bar1, text1})

(* Placement: windows and elements a few pixels wide.                      *)

MCPlaces ==
  [way : {"position"}, dir : {"left", "top"}, collision : {"fit", "flip", "flipfit", "none"},
   my : Sides, at : Sides, offset : {-1, 0, 1}, targetOffset : {-3, 0, 2, 3, 6},
   targetWidth : {2, 4}, elemWidth : {2, 4, 8}, margin : {0, 1}, isWindow : BOOLEAN,
   withinOffset : {0}, scroll : {0, 2}, withinWidth : {6}]
    \cup
  [way : {"position"}, dir : {"left"}, collision : {"fit", "flip", "flipfit"}, my : Sides, at : Sides,
   offset : {0}, targetOffset : {-1, 3, 6}, targetWidth : {2}, elemWidth : {2, 4, 8},
   margin : {0, 1}, isWindow : {FALSE}, withinOffset : {2}, scroll : {0}, withinWidth : {6}]

MCDrags ==
  [way : {"drag"}, mouse : -2 .. 12, click : {0, 1}, original : {2, 9}, grid : {NoGrid, 0, 2, 3},
   first : {0, 1, 2}, last : {3, 6, 7}]

(* Resizing: boxes a few pixels wide.                                      *)

MCAxes == North \cup South \cup East \cup West
MCBoxes == [left : {3}, top : {4}, width : {4, 8}, height : {4}]
MCLimits == [minWidth : {2, 4}, maxWidth : {8, 12}, minHeight : {2, 4}, maxHeight : {6, 8}]
MCRatios == {[width |-> 1, height |-> 2]}
MCSteps == {-6, -4, -2, 0, 2, 4, 6}

(* WidgetInstances: a set of buttons and a button.                         *)

MCOther == (buttonset1 :> button2) @@ (button2 :> buttonset1)

(* Buttons: a form with a checkbox and two radios, or two links.           *)

MCFormOrder == << tick1, radio1, radio2 >>
MCRadios == {radio1, radio2}
MCLinks == {link1, link2}
MCPages == {{tick1, radio1, radio2}, {link1, link2}}
MCDisabling == {radio1, link1}

-----------------------------------------------------------------------------

VARIABLE script \* the one that runs

Runs(name) == script = name

scriptVars ==
  << script, tvars, lvars, qvars, evars, dvars, dialogVars, mvars, pvars, rvars, cvars,
     ivars, bvars >>

\* How a script that has several initial states is loaded when another one runs.
LoadedTables ==
  /\ cell = (CHOOSE c \in Contents : TRUE) /\ header = (CHOOSE h \in HeaderTypes : TRUE)
  /\ byDefault = (CHOOSE d \in Defaults : TRUE) /\ showFilter = FALSE
LoadedLists == use = "when"
LoadedConversions ==
  /\ converters = (CHOOSE c \in Converters : TRUE) /\ typesAsked = (CHOOSE a \in Asked : TRUE)
  /\ contentType = UnknownType /\ responses = (CHOOSE r \in Responses : TRUE)
LoadedResizing == original = (CHOOSE b \in Boxes : TRUE) /\ limits = (CHOOSE l \in Limits : TRUE)
LoadedButtons == page = (CHOOSE p \in Pages : TRUE) /\ checked = {}

ScriptsInit ==
  /\ script \in {"tables", "lists", "conversions", "events", "dom", "dialogs", "drags",
                 "placement", "resizing", "classes", "instances", "buttons"}
  /\ EventsInit /\ DomInit /\ DialogsInit /\ DragsInit /\ PlacementInit
  /\ ClassesInit /\ InstancesInit
  /\ (Runs("tables") \/ (~Runs("tables") /\ LoadedTables)) /\ TablesInit
  /\ (Runs("lists") \/ (~Runs("lists") /\ LoadedLists)) /\ ListsInit
  /\ (Runs("resizing") \/ (~Runs("resizing") /\ LoadedResizing)) /\ ResizingInit
  /\ (Runs("buttons") \/ (~Runs("buttons") /\ LoadedButtons)) /\ ButtonsInit
  /\ (Runs("conversions") \/ (~Runs("conversions") /\ LoadedConversions)) /\ ConversionsInit

\* A step of the script that runs leaves the others alone.
TablesStep ==
  /\ Runs("tables")
  /\ TablesNext
  /\ UNCHANGED << script, lvars, qvars, evars, dvars, dialogVars, mvars, pvars, rvars, cvars,
                  ivars, bvars >>

ListsStep ==
  /\ Runs("lists")
  /\ ListsNext
  /\ UNCHANGED << script, tvars, qvars, evars, dvars, dialogVars, mvars, pvars, rvars, cvars,
                  ivars, bvars >>

ConversionsStep ==
  /\ Runs("conversions")
  /\ ConversionsNext
  /\ UNCHANGED << script, tvars, lvars, evars, dvars, dialogVars, mvars, pvars, rvars, cvars,
                  ivars, bvars >>

EventsStep ==
  /\ Runs("events")
  /\ EventsNext
  /\ UNCHANGED << script, tvars, lvars, qvars, dvars, dialogVars, mvars, pvars, rvars, cvars,
                  ivars, bvars >>

DomStep ==
  /\ Runs("dom")
  /\ DomNext
  /\ UNCHANGED << script, tvars, lvars, qvars, evars, dialogVars, mvars, pvars, rvars, cvars,
                  ivars, bvars >>

DialogsStep ==
  /\ Runs("dialogs")
  /\ DialogsNext
  /\ UNCHANGED << script, tvars, lvars, qvars, evars, dvars, mvars, pvars, rvars, cvars, ivars,
                  bvars >>

DragsStep ==
  /\ Runs("drags")
  /\ DragsNext
  /\ UNCHANGED << script, tvars, lvars, qvars, evars, dvars, dialogVars, pvars, rvars, cvars,
                  ivars, bvars >>

PlacementStep ==
  /\ Runs("placement")
  /\ PlacementNext
  /\ UNCHANGED << script, tvars, lvars, qvars, evars, dvars, dialogVars, mvars, rvars, cvars,
                  ivars, bvars >>

ResizingStep ==
  /\ Runs("resizing")
  /\ ResizingNext
  /\ UNCHANGED << script, tvars, lvars, qvars, evars, dvars, dialogVars, mvars, pvars, cvars,
                  ivars, bvars >>

ClassesStep ==
  /\ Runs("classes")
  /\ ClassesNext
  /\ UNCHANGED << script, tvars, lvars, qvars, evars, dvars, dialogVars, mvars, pvars, rvars,
                  ivars, bvars >>

InstancesStep ==
  /\ Runs("instances")
  /\ InstancesNext
  /\ UNCHANGED << script, tvars, lvars, qvars, evars, dvars, dialogVars, mvars, pvars, rvars,
                  cvars, bvars >>

ButtonsStep ==
  /\ Runs("buttons")
  /\ ButtonsNext
  /\ UNCHANGED << script, tvars, lvars, qvars, evars, dvars, dialogVars, mvars, pvars, rvars,
                  cvars, ivars >>

ScriptsNext ==
  \/ TablesStep
  \/ ListsStep
  \/ ConversionsStep
  \/ EventsStep
  \/ DomStep
  \/ DialogsStep
  \/ DragsStep
  \/ PlacementStep
  \/ ResizingStep
  \/ ClassesStep
  \/ InstancesStep
  \/ ButtonsStep

ScriptsSpec == ScriptsInit /\ [][ScriptsNext]_scriptVars
=============================================================================
