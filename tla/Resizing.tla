------------------------------- MODULE Resizing ------------------------------
(***************************************************************************)
(* A box that is resized by one of its eight handles, as the widget        *)
(* resizable of jquery-ui-1.10.2.custom.js does it at every move of the    *)
(* mouse: the change the axis asks for, the aspect ratio and the limits.   *)
(*                                                                         *)
(* Lengths are whole numbers of some part of a pixel.  A ratio is a        *)
(* quotient; what is computed with it is rounded down where the unit is    *)
(* too large for it (it never is in the values that are checked).          *)
(***************************************************************************)
EXTENDS Integers, FiniteSetsExt

CONSTANTS
  Axes,   \* handles
  Boxes,  \* boxes at the start
  Limits, \* options minWidth, maxWidth, minHeight, maxHeight
  Ratios, \* numbers that options.aspectRatio can be
  Steps   \* how far the mouse can be from where it was pressed

VARIABLES
  axis,     \* the handle; "none" before the press
  limits,
  keepsRatio,   \* _aspectRatio: options.aspectRatio is on
  aspectRatio,  \* width to height
  proportional, \* history: a move since the press kept the ratio
  original, \* originalPosition and originalSize
  box       \* position and size

rvars == << axis, limits, keepsRatio, aspectRatio, proportional, original, box >>

\* What has no height has no ratio either, and is left out.
Rectangle == [left : Int, top : Int, width : Int, height : Int]
Sized     == {r \in Rectangle : r.width >= 0 /\ r.height > 0}
Ratio     == [width : Nat \ {0}, height : Nat \ {0}]
Limit     == [minWidth : Nat \ {0}, maxWidth : Nat \ {0}, minHeight : Nat \ {0}, maxHeight : Nat \ {0}]

North == {"n", "ne", "nw"}
South == {"s", "se", "sw"}
East  == {"e", "ne", "se"}
West  == {"w", "nw", "sw"}

ASSUME ResizingAssumption ==
  /\ Axes \subseteq North \cup South \cup East \cup West
  /\ Boxes \subseteq Sized /\ Limits \subseteq Limit /\ Steps \subseteq Int
  /\ Ratios \subseteq Ratio

\* $.extend: the members of both, those of more where they differ.
Extend(data, more) ==
  [x \in DOMAIN data \cup DOMAIN more |-> IF x \in DOMAIN more THEN more[x] ELSE data[x]]

\* The members that are written if the condition holds.
Given(condition, members) == IF condition THEN members ELSE << >>

ResizingInit ==
  /\ axis = "none"
  /\ limits \in Limits
  /\ keepsRatio = FALSE
  /\ aspectRatio = [width |-> 1, height |-> 1]
  /\ proportional = FALSE
  /\ original \in Boxes
  /\ box = original

\* this.originalSize.width / this.originalSize.height || 1
OwnRatio == IF original.width = 0 THEN [width |-> 1, height |-> 1]
            ELSE [width |-> original.width, height |-> original.height]

\* _mouseStart: the ratio is the number in the options, or that of the box, and
\* may be needed though the option is off.
StartResizing ==
  /\ axis = "none"
  /\ axis' \in Axes
  /\ \/ aspectRatio' \in Ratios /\ keepsRatio' = TRUE
     \/ aspectRatio' = OwnRatio /\ keepsRatio' \in BOOLEAN
  /\ UNCHANGED << limits, proportional, original, box >>

\* _change: the members of data that the handle changes.
Change(dx, dy) ==
  Extend(
    Extend(Given(axis \in South, [height |-> original.height + dy]),
           Given(axis \in North, [top |-> original.top + dy, height |-> original.height - dy])),
    Extend(Given(axis \in East, [width |-> original.width + dx]),
           Given(axis \in West, [left |-> original.left + dx, width |-> original.width - dx])))

Times(x) == (x * aspectRatio.width) \div aspectRatio.height
Over(x)  == (x * aspectRatio.height) \div aspectRatio.width

\* _updateVirtualBoundaries: with the ratio each limit is one of the other dimension too.
Boundaries(ratio) ==
  IF ratio
  THEN [minWidth  |-> Max({limits.minWidth, Times(limits.minHeight)}),
        minHeight |-> Max({limits.minHeight, Over(limits.minWidth)}),
        maxWidth  |-> Min({limits.maxWidth, Times(limits.maxHeight)}),
        maxHeight |-> Min({limits.maxHeight, Over(limits.maxWidth)})]
  ELSE limits

Has(data, member) == member \in DOMAIN data

\* _updateRatio: the height tells the width, or the width the height.
Proportioned(data) ==
  LET width  == IF Has(data, "height") THEN Times(data.height) ELSE data.width
      height == IF Has(data, "height") THEN data.height ELSE Over(data.width)
      sized  == Extend(data, [width |-> width, height |-> height])
      west   == [left |-> box.left + box.width - width]
      north  == [top |-> box.top + box.height - height]
  IN  Extend(Extend(sized, Given(axis \in {"sw", "nw"}, west)), Given(axis = "nw", north))

\* Mutant: the edge that is kept is that of the box at the last move, without its height.
EdgeOfPosition == box.top

\* dh: the lower edge.
LowerEdge == box.top + box.height

Clipped(size, least, most) == IF size > most THEN most ELSE IF size < least THEN least ELSE size

\* _respectSize
Respected(data, ratio) ==
  LET o      == Boundaries(ratio)
      right  == original.left + original.width
      width  == IF Has(data, "width") THEN Clipped(data.width, o.minWidth, o.maxWidth) ELSE 0
      height == IF Has(data, "height") THEN Clipped(data.height, o.minHeight, o.maxHeight) ELSE 0
      wide   == Has(data, "width") /\ width # data.width
      high   == Has(data, "height") /\ height # data.height
      size   == Extend(Given(wide, [width |-> width]), Given(high, [height |-> height]))
      place  == Extend(Given(wide /\ axis \in West, [left |-> right - width]),
                       Given(high /\ axis \in North, [top |-> LowerEdge - height]))
  IN  Extend(data, Extend(size, place))

\* _mouseDrag: the shift key may be pressed and released between two moves.
\* _updateCache takes what data has.
Resize(dx, dy, shiftKey) ==
  /\ axis # "none"
  /\ LET ratio   == keepsRatio \/ shiftKey
         changed == Change(dx, dy)
         data    == Respected(IF ratio THEN Proportioned(changed) ELSE changed, ratio)
     IN  /\ box' = [x \in DOMAIN box |-> IF Has(data, x) THEN data[x] ELSE box[x]]
         /\ proportional' = (proportional \/ ratio)
  /\ UNCHANGED << axis, limits, keepsRatio, aspectRatio, original >>

ResizingNext ==
  StartResizing \/ \E dx, dy \in Steps, shiftKey \in BOOLEAN : Resize(dx, dy, shiftKey)

ResizingSpec == ResizingInit /\ [][ResizingNext]_rvars

-----------------------------------------------------------------------------
(* Correctness                                                             *)

\* jquery-ui-1.10.2.custom.js:2707-2711, 2840-2903.  Whatever way the mouse goes, at
\* whatever limit the box stays and however often the shift key is pressed meanwhile:
\* the edges across from the handle are where they were at the press.  A handle in the
\* middle of an edge leaves the other dimension alone, too, unless the ratio was kept
\* at some move (what the ratio has changed then stays when the key is released).
OtherEdgesStay ==
  LET SameRight == box.left + box.width = original.left + original.width
      SameLower == box.top + box.height = original.top + original.height
  IN  /\ IF axis \in West THEN SameRight ELSE box.left = original.left
      /\ IF axis \in North THEN SameLower ELSE box.top = original.top
      /\ ~proportional /\ axis \notin East => SameRight
      /\ ~proportional /\ axis \notin South => SameLower
=============================================================================
