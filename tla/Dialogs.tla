------------------------------- MODULE Dialogs -------------------------------
(***************************************************************************)
(* The dialogs of jquery-ui-1.10.2.custom.js: how they are opened, stacked *)
(* and closed, the overlay of the modal ones, and who has the focus.       *)
(*                                                                         *)
(* A dialog is its wrapper uiDialog; what is in it has the focus when the  *)
(* dialog has. The callbacks of the page (open, focus, beforeClose, close) *)
(* do nothing here.                                                        *)
(***************************************************************************)
EXTENDS Orders, SequencesExt

CONSTANTS
  Dialogs,   \* contents a dialog is made of
  Fading,  \* the dialogs with options show and hide
  Page,      \* a control of the page
  DocumentBody,      \* document.body, the activeElement when there is no other
  MaxDelays, \* bound: delays under way
  MaxShows   \* bound: effects in a dialog's queue

ASSUME DialogsAssumption ==
  /\ Fading \subseteq Dialogs
  /\ Page # DocumentBody
  /\ {Page, DocumentBody} \cap Dialogs = {}

VARIABLES
  modal,     \* options.modal of the dialogs that exist
  isOpen,    \* _isOpen of these
  opener,    \* what had the focus when a dialog was opened
  layers,    \* wrappers and overlays in document order
  shown,     \* the dialogs whose wrapper is visible
  fades,   \* their effects that have not ended, the first one runs
  overlayInstances,
  traps,     \* handlers of focusin.dialog
  delays,    \* calls of _createOverlay that wait to bind one
  checks,    \* dialogs whose checkFocus waits
  activeElement

dialogVars == << modal, isOpen, opener, layers, shown, fades, overlayInstances, traps, delays,
            checks, activeElement >>

Box(d)  == [of |-> d, overlay |-> FALSE]
Veil(d) == [of |-> d, overlay |-> TRUE]

Created == DOMAIN modal
Modal(d) == d \in Created /\ modal[d]

DialogsInit ==
  /\ modal = << >>
  /\ isOpen = << >>
  /\ opener = << >>
  /\ layers = << >>
  /\ shown = {}
  /\ fades = [d \in Dialogs |-> << >>]
  /\ overlayInstances = 0
  /\ traps = 0
  /\ delays = 0
  /\ checks = {}
  /\ activeElement = Page

Visible(layer) == layer.overlay \/ layer.of \in shown

\* _moveToTop: the visible ones behind it go in front of it.
Raised(ls, d) ==
  LET at       == CHOOSE i \in DOMAIN ls : ls[i] = Box(d)
      Level(i) == IF i < at THEN 1 ELSE IF i = at THEN 3 ELSE IF Visible(ls[i]) THEN 2 ELSE 4
  IN  InOrder(ls, DOMAIN ls, {p \in (DOMAIN ls) \X (DOMAIN ls) :
                                   \/ Level(p[1]) < Level(p[2])
                                   \/ Level(p[1]) = Level(p[2]) /\ p[1] < p[2]})

\* An element is taken out of the document.
TakenOut(ls, layer) ==
  IF layer \in Range(ls) THEN RemoveAt(ls, CHOOSE i \in DOMAIN ls : ls[i] = layer) ELSE ls

\* f, with v for d.
Including(f, d, v) == [x \in DOMAIN f \cup {d} |-> IF x = d THEN v ELSE f[x]]

\* The element that has the focus after x was to have it.
Focused(x, ls, visible, handlers) ==
  LET InSight(layer) == ~layer.overlay /\ layer.of \in visible
  IN  IF x = Page /\ handlers > 0 THEN Last(SelectSeq(ls, InSight)).of ELSE x

\* What has the focus after d was hidden: some browsers leave it there.
AfterHiding(d, x) == IF x = d THEN {d, DocumentBody} ELSE {x}

-----------------------------------------------------------------------------

LayersOpened(d, m, ls) == Raised(IF m THEN Append(ls, Veil(d)) ELSE ls, d)

\* open of a dialog that is closed: focus comes with the end of the effect.
Opening(d, m, ls) ==
  /\ isOpen' = Including(isOpen, d, TRUE)
  /\ opener' = Including(opener, d, activeElement)
  /\ layers' = LayersOpened(d, m, ls)
  /\ overlayInstances' = overlayInstances + (IF m THEN 1 ELSE 0)
  /\ delays' = delays + (IF m /\ overlayInstances = 0 THEN 1 ELSE 0)
  /\ delays' <= MaxDelays
  /\ Len(fades[d]) < MaxShows
  /\ fades' = [fades EXCEPT ![d] = IF d \in Fading THEN Append(@, "show") ELSE @]
  /\ shown' = IF fades[d] = << >> THEN shown \cup {d} ELSE shown
  /\ activeElement' = IF d \in Fading THEN activeElement ELSE d
  /\ UNCHANGED << traps, checks >>

\* autoOpen is on.
CreateDialog(d, m) ==
  /\ d \notin Created
  /\ modal' = Including(modal, d, m)
  /\ Opening(d, m, Append(layers, Box(d)))

OpenDialog(d) ==
  /\ d \in Created
  /\ UNCHANGED modal
  /\ IF isOpen[d]
     THEN /\ layers' = Raised(layers, d)
          /\ activeElement' = IF layers' # layers THEN d ELSE activeElement
          /\ UNCHANGED << isOpen, opener, shown, fades, overlayInstances, traps, delays, checks >>
     ELSE Opening(d, modal[d], layers)

\* Mutant: the overlay goes, and is still counted.
OverlayStaysCounted(d) == UNCHANGED << overlayInstances, traps >>

\* _destroyOverlay. A dialog has an overlay here exactly when options.modal was set as it
\* opened: the scripts do not set that option while the dialog is open, which would leave
\* the overlay behind.
OverlayGoes(d) ==
  LET last == Veil(d) \in Range(layers) /\ overlayInstances = 1
  IN  /\ overlayInstances' = overlayInstances - (IF Veil(d) \in Range(layers) THEN 1 ELSE 0)
      /\ traps' = IF last THEN 0 ELSE traps

Focusable(x) == x = Page \/ x \in shown

GetsFocusBack(d) == IF Focusable(opener[d]) THEN opener[d] ELSE DocumentBody

\* _hide, once the focus is where it is to be.
Hiding(d, x) ==
  IF d \in Fading
  THEN /\ Len(fades[d]) < MaxShows
       /\ fades' = [fades EXCEPT ![d] = Append(@, "hide")]
       /\ activeElement' = x
       /\ UNCHANGED shown
  ELSE /\ shown' = shown \ {d}
       /\ activeElement' \in AfterHiding(d, x)
       /\ UNCHANGED fades

FocusAtClose(d) == Focused(GetsFocusBack(d), layers, shown, traps')

CloseDialog(d) ==
  /\ d \in Created
  /\ isOpen[d]
  /\ isOpen' = [isOpen EXCEPT ![d] = FALSE]
  /\ layers' = TakenOut(layers, Veil(d))
  /\ OverlayGoes(d)
  /\ Hiding(d, FocusAtClose(d))
  /\ UNCHANGED << modal, opener, delays, checks >>

Dropped(f, d) == [x \in DOMAIN f \ {d} |-> f[x]]

\* destroy, and removal of the content: stop(true, true) ends the effect at
\* once, and the end of a show takes the focus into what is removed then.
DestroyDialog(d) ==
  /\ d \in Created
  /\ modal' = Dropped(modal, d)
  /\ isOpen' = Dropped(isOpen, d)
  /\ opener' = Dropped(opener, d)
  /\ layers' = TakenOut(TakenOut(layers, Veil(d)), Box(d))
  /\ OverlayGoes(d)
  /\ shown' = shown \ {d}
  /\ activeElement' =
       IF activeElement = d \/ (fades[d] # << >> /\ Head(fades[d]) = "show")
       THEN DocumentBody ELSE activeElement
  /\ fades' = [fades EXCEPT ![d] = << >>]
  /\ UNCHANGED << delays, checks >>

\* An effect ends, its callback runs and the next effect of the queue begins.
EffectEnds(d) ==
  /\ fades[d] # << >>
  /\ fades' = [fades EXCEPT ![d] = Tail(@)]
  /\ LET hidden == IF Head(fades[d]) = "hide" THEN shown \ {d} ELSE shown
     IN  shown' = IF fades'[d] # << >> /\ Head(fades'[d]) = "show" THEN hidden \cup {d} ELSE hidden
  /\ IF Head(fades[d]) = "show"
     THEN activeElement' = d
     ELSE activeElement' \in AfterHiding(d, activeElement)
  /\ UNCHANGED << modal, isOpen, opener, layers, overlayInstances, traps, delays, checks >>

\* What the delay of _createOverlay does.
TrapIfOpen == IF overlayInstances > 0 THEN traps + 1 ELSE traps

Trap ==
  /\ delays > 0
  /\ delays' = delays - 1
  /\ traps' = TrapIfOpen
  /\ UNCHANGED << modal, isOpen, opener, layers, shown, fades, overlayInstances, checks, activeElement >>

FocusPage ==
  /\ activeElement' = Focused(Page, layers, shown, traps)
  /\ UNCHANGED << modal, isOpen, opener, layers, shown, fades, overlayInstances, traps, delays, checks >>

\* No overlay is over this layer.
Reachable(layer) ==
  \E i \in DOMAIN layers : layers[i] = layer /\ \A j \in DOMAIN layers : j > i => ~layers[j].overlay

MouseDownInDialog(d) ==
  /\ d \in shown
  /\ Reachable(Box(d))
  /\ layers' = Raised(layers, d)
  /\ activeElement' = d
  /\ UNCHANGED << modal, isOpen, opener, shown, fades, overlayInstances, traps, delays, checks >>

MoveToTop(d) ==
  /\ d \in Created
  /\ layers' = Raised(layers, d)
  /\ UNCHANGED << modal, isOpen, opener, shown, fades, overlayInstances, traps, delays, checks, activeElement >>

\* mousedown on an overlay: _keepFocus
KeepFocus(d) ==
  /\ Veil(d) \in Range(layers)
  /\ Reachable(Veil(d))
  /\ activeElement' = d
  /\ checks' = checks \cup {d}
  /\ UNCHANGED << modal, isOpen, opener, layers, shown, fades, overlayInstances, traps, delays >>

CheckFocus(d) ==
  /\ d \in checks
  /\ checks' = checks \ {d}
  /\ activeElement' = IF d \in shown THEN d ELSE activeElement
  /\ UNCHANGED << modal, isOpen, opener, layers, shown, fades, overlayInstances, traps, delays >>

DialogsNext ==
  \/ \E d \in Dialogs : \/ \E m \in BOOLEAN : CreateDialog(d, m)
                        \/ OpenDialog(d)
                        \/ CloseDialog(d)
                        \/ DestroyDialog(d)
                        \/ EffectEnds(d)
                        \/ MouseDownInDialog(d)
                        \/ MoveToTop(d)
                        \/ KeepFocus(d)
                        \/ CheckFocus(d)
  \/ Trap
  \/ FocusPage

DialogsSpec == DialogsInit /\ [][DialogsNext]_dialogVars

-----------------------------------------------------------------------------
(* Correctness                                                             *)

\* The count of overlays is that of the open modal dialogs, and each of them
\* has one overlay, also after dialogs were destroyed or opened again while
\* they were fading out.
OverlaysAreCounted ==
  /\ overlayInstances = Cardinality({d \in Created : modal[d] /\ isOpen[d]})
  /\ \A d \in Dialogs :
       Cardinality({i \in DOMAIN layers : layers[i] = Veil(d)}) =
         (IF Modal(d) /\ isOpen[d] THEN 1 ELSE 0)

\* Once every delay is over, the handler that keeps the focus in the dialogs
\* is there if and only if a modal dialog is open, and it finds a dialog.
TrapWhileModal ==
  /\ delays = 0 => (traps > 0 <=> overlayInstances > 0)
  /\ traps > 0 => shown # {}

\* jquery-ui-1.10.2.custom.js:4431-4482.  However modal dialogs are opened over one
\* another, closed, faded and destroyed, the page is modal as long as one of them
\* is open and no longer: there is an overlay for each, and the trap for the focus.
ModalityHolds == OverlaysAreCounted /\ TrapWhileModal
=============================================================================
