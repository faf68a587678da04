------------------------------- MODULE Buttons -------------------------------
(***************************************************************************)
(* The widget button of jquery-ui-1.10.2.custom.js: checkboxes and the     *)
(* radios of a group, which look like their state, and links, which look   *)
(* pressed while they are. They are used by mouse, key and form reset, and *)
(* disabled, destroyed and made again meanwhile.                           *)
(*                                                                         *)
(* A button looks pressed when its buttonElement has ui-state-active. All  *)
(* radios of the group are buttons all the time.                           *)
(***************************************************************************)
EXTENDS Naturals, Sequences, SequencesExt, FiniteSets

CONSTANTS
  FormOrder, \* checkboxes and radios of a form, in document order
  Radios,    \* those that are the radios of one group
  Links,     \* the other buttons: elements that are no form controls
  Pages,     \* the sets of buttons that are on one page
  Disabling, \* those that scripts disable
  Nothing,   \* no button
  MaxResets  \* bound: resets whose timeout has not been reached

Toggles == Range(FormOrder)

ASSUME ButtonsAssumption ==
  /\ FormOrder \in Seq(Toggles)
  /\ Radios \subseteq Toggles
  /\ (Toggles \cup {Nothing}) \cap Links = {}
  /\ Nothing \notin Toggles
  /\ \A p \in Pages : p \subseteq Toggles \cup Links /\ (Radios \subseteq p \/ p \cap Radios = {})

VARIABLES
  page,        \* the elements there are
  widgets,     \* elements that have a button
  off,         \* form controls with the property disabled
  shut,        \* buttons with options.disabled
  checked,
  lit,         \* buttons with ui-state-active
  clickDragged,
  moved,       \* the mouse is not at startXPos, startYPos
  lastActive,
  down,        \* where the button of the mouse went down
  over,        \* where the mouse is
  key,         \* the link that space or enter is held on
  resets,      \* the buttons that timeouts of formResetHandler will refresh
  unheard,     \* toggles that changed and were not refreshed since
  missed       \* links that were disabled, or did not hear the release, while pressed

bvars == << page, widgets, off, shut, checked, lit, clickDragged, moved, lastActive, down, over,
            key, resets, unheard, missed >>

ButtonsInit ==
  /\ page \in Pages
  /\ widgets = page
  /\ off = {}
  /\ shut = {}
  /\ checked \in {c \in SUBSET (page \cap Toggles) : Cardinality(c \cap Radios) <= 1}
  /\ lit = checked
  /\ clickDragged = FALSE
  /\ moved = TRUE
  /\ lastActive = Nothing
  /\ down = Nothing
  /\ over = Nothing
  /\ key = Nothing
  /\ resets = << >>
  /\ unheard = {}
  /\ missed = {}

\* Mutant: only the radio that changed is looked at.
OfItself(t) == {t}

\* The toggles that refresh of one of them makes look like their state.
Refreshed(t) == IF t \in Radios THEN Radios ELSE {t}

\* refresh, once the state of the toggles is c.
Refresh(t, c) ==
  /\ lit' = (lit \ Refreshed(t)) \cup (Refreshed(t) \cap c)
  /\ shut' = (shut \ {t}) \cup ({t} \cap off)
  /\ unheard' = unheard \ Refreshed(t)

\* What the browser makes of a click on the control.
Clicking(t) ==
  IF t \in Radios THEN (checked \ Radios) \cup {t}
  ELSE IF t \in checked THEN checked \ {t} ELSE checked \cup {t}

\* The event change: a drag of any button makes all of them deaf to it.
Changed(t) ==
  /\ checked' = Clicking(t)
  /\ IF Clicking(t) # checked /\ t \in widgets /\ ~clickDragged'
     THEN Refresh(t, Clicking(t))
     ELSE /\ UNCHANGED << lit, shut >>
          /\ unheard' = IF Clicking(t) # checked THEN unheard \cup Refreshed(t) ELSE unheard

\* The click on a label: a radio looks checked before it is, and also if its
\* control was disabled without the button.
ClickLabel(t) ==
  CASE t \notin widgets -> IF t \in off THEN UNCHANGED << checked, lit, shut, unheard >>
                                        ELSE Changed(t)
    [] t \in widgets /\ (t \in shut \/ clickDragged') ->
         UNCHANGED << checked, lit, shut, unheard >>
    [] t \in widgets \ shut /\ ~clickDragged' /\ t \notin off -> Changed(t)
    [] t \in widgets \ shut /\ ~clickDragged' /\ t \in off ->
         /\ lit' = IF t \in Radios THEN (lit \ Radios) \cup {t} ELSE lit
         /\ unheard' = IF t \in Radios THEN unheard \cup Radios ELSE unheard
         /\ UNCHANGED << checked, shut >>

-----------------------------------------------------------------------------
Enabled(b) == b \in widgets \ shut

MouseDown ==
  /\ down = Nothing
  /\ over # Nothing
  /\ down' = over
  /\ IF over \in Toggles /\ Enabled(over)
     THEN clickDragged' = FALSE /\ moved' = FALSE
     ELSE UNCHANGED << clickDragged, moved >>
  /\ IF over \in Links /\ Enabled(over)
     THEN lit' = lit \cup {over} /\ lastActive' = over
     ELSE UNCHANGED << lit, lastActive >>
  /\ UNCHANGED << page, widgets, off, shut, checked, over, key, resets, unheard, missed >>

\* mouseleave of what the mouse was over
Left == IF over \in Links /\ Enabled(over) THEN lit \ {over} ELSE lit

MouseMove ==
  /\ over' \in page \cup {Nothing}
  /\ moved' \in BOOLEAN
  /\ lit' = IF over' = over THEN lit
               ELSE Left \cup {b \in {over'} \cap Links : Enabled(b) /\ lastActive = b}
  /\ UNCHANGED << page, widgets, off, shut, checked, clickDragged, lastActive, down, key, resets,
                  unheard, missed >>

\* mouseup, of a disabled link not heard by the document, and click.
MouseUp ==
  /\ down # Nothing
  /\ down' = Nothing
  /\ clickDragged' = (clickDragged \/ (over \in Toggles /\ Enabled(over) /\ moved))
  /\ IF over \in Links /\ over \in widgets /\ over \in shut
     THEN /\ missed' = missed \cup ({over, lastActive} \ {Nothing})
          /\ UNCHANGED lastActive
     ELSE lastActive' = Nothing /\ UNCHANGED missed
  /\ IF over \in Toggles /\ over = down THEN ClickLabel(over)
     ELSE /\ lit' = IF over \in Links /\ Enabled(over) THEN lit \ {over} ELSE lit
          /\ UNCHANGED << checked, shut, unheard >>
  /\ UNCHANGED << page, widgets, off, moved, over, key, resets >>

\* The button of the mouse is released where the document does not hear of it.
MouseLost ==
  /\ down # Nothing
  /\ down' = Nothing
  /\ missed' = missed \cup ({down, lastActive} \cap Links)
  /\ UNCHANGED << page, widgets, off, shut, checked, lit, clickDragged, moved, lastActive, over, key,
                  resets, unheard >>

\* A key changes the control itself.
KeyToggle(t) ==
  /\ t \notin off
  /\ UNCHANGED clickDragged
  /\ Changed(t)
  /\ UNCHANGED << page, widgets, off, moved, lastActive, down, over, key, resets, missed >>

KeyPressed(b) ==
  /\ key = Nothing
  /\ Enabled(b)
  /\ key' = b
  /\ lit' = lit \cup {b}
  /\ UNCHANGED << page, widgets, off, shut, checked, clickDragged, moved, lastActive, down, over, resets,
                  unheard, missed >>

\* keyup, or blur after which keyup goes elsewhere
KeyReleased ==
  /\ key # Nothing
  /\ key' = Nothing
  /\ lit' = IF key \in widgets THEN lit \ {key} ELSE lit
  /\ UNCHANGED << page, widgets, off, shut, checked, clickDragged, moved, lastActive, down, over, resets,
                  unheard, missed >>

-----------------------------------------------------------------------------
\* The form is reset, to no toggle checked; the buttons hear of it later.
ResetForm ==
  /\ Len(resets) < MaxResets
  /\ resets' = Append(resets, widgets \cap Toggles)
  /\ checked' = {}
  /\ UNCHANGED << page, widgets, off, shut, lit, clickDragged, moved, lastActive, down, over, key,
                  unheard, missed >>

\* refresh of several throws at the first that is no button any more.
UpToDestroyed(buttons) ==
  {FormOrder[n] : n \in {m \in DOMAIN FormOrder :
                           /\ FormOrder[m] \in buttons
                           /\ \A i \in 1 .. m : FormOrder[i] \in buttons => FormOrder[i] \in widgets}}

ResetTimeout ==
  /\ resets # << >>
  /\ resets' = Tail(resets)
  /\ LET ts   == UpToDestroyed(Head(resets))
         seen == UNION {Refreshed(t) : t \in ts}
     IN  /\ lit' = (lit \ seen) \cup (seen \cap checked)
         /\ shut' = (shut \ ts) \cup (ts \cap off)
         /\ unheard' = (unheard \cup Head(resets)) \ seen
  /\ UNCHANGED << page, widgets, off, checked, clickDragged, moved, lastActive, down, over, key, missed >>

\* The option disabled, which also sets the property.
DisableButton(b) ==
  /\ b \in widgets
  /\ shut' = IF b \in shut THEN shut \ {b} ELSE shut \cup {b}
  /\ off' = IF b \in shut THEN off \ {b} ELSE off \cup ({b} \cap Toggles)
  /\ missed' = missed \cup ({b} \cap lit \cap Links)
  /\ UNCHANGED << page, widgets, checked, lit, clickDragged, moved, lastActive, down, over, key, resets,
                  unheard >>

\* A script of the page sets the property alone.
DisableControl(t) ==
  /\ off' = IF t \in off THEN off \ {t} ELSE off \cup {t}
  /\ UNCHANGED << page, widgets, shut, checked, lit, clickDragged, moved, lastActive, down, over,
                  key, resets, unheard, missed >>

RefreshButton(t) ==
  /\ t \in widgets
  /\ Refresh(t, checked)
  /\ UNCHANGED << page, widgets, off, checked, clickDragged, moved, lastActive, down, over, key, resets,
                  missed >>

DestroyButton(b) ==
  /\ b \in widgets
  /\ widgets' = widgets \ {b}
  /\ lit' = lit \ {b}
  /\ shut' = shut \ {b}
  /\ UNCHANGED << page, off, checked, clickDragged, moved, lastActive, down, over, key, resets, unheard,
                  missed >>

CreateButton(b) ==
  /\ b \notin widgets
  /\ widgets' = widgets \cup {b}
  /\ lit' = lit \cup ({b} \cap checked)
  /\ shut' = shut \cup ({b} \cap off)
  /\ unheard' = unheard \ {b}
  /\ UNCHANGED << page, off, checked, clickDragged, moved, lastActive, down, over, key, resets, missed >>

ButtonsNext ==
  \/ MouseDown \/ MouseMove \/ MouseUp \/ MouseLost
  \/ KeyReleased
  \/ ResetForm \/ ResetTimeout
  \/ \E t \in page \cap Toggles : KeyToggle(t) \/ RefreshButton(t)
  \/ \E b \in page \cap Links : KeyPressed(b)
  \/ \E b \in page \cap Disabling : DisableButton(b)
  \/ \E t \in page \cap Disabling \cap Toggles : DisableControl(t)
  \/ \E b \in page \ Radios : DestroyButton(b) \/ CreateButton(b)

ButtonsSpec == ButtonsInit /\ [][ButtonsNext]_bvars

-----------------------------------------------------------------------------
(* Correctness                                                             *)

\* jquery-ui-1.10.2.custom.js:3347-3350, 3450-3535.  A checkbox or radio looks pressed if
\* and only if it is checked, whatever clicks, keys, resets and scripts did to it and its
\* group, but for a change it could not hear of: after a drag that was its group's or
\* another's, or in a reset that failed at a destroyed button.  A link looks pressed only
\* while the mouse or a key is held on it, unless it was disabled while it looked so or
\* the end of the press went unheard.
LooksFollowState ==
  /\ resets = << >> =>
       \A t \in (Toggles \cap widgets) \ unheard : t \in lit <=> t \in checked
  /\ \A b \in Links \cap widgets : b \in lit => b \in {down, key} \cup missed
=============================================================================
