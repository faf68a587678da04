------------------------------ MODULE Placement ------------------------------
(***************************************************************************)
(* Where jquery-ui-1.10.2.custom.js puts a box: $.fn.position with its     *)
(* collisions fit, flip and flipfit, and the place of a dragged element    *)
(* with a containment and a grid. Left and top are computed by the same    *)
(* rules but for one guard: one dimension at a time is placed here.        *)
(***************************************************************************)
EXTENDS Integers, FiniteSetsExt

CONSTANTS
  Places, \* ways an element is asked to be positioned
  Drags   \* places of the mouse in a drag

VARIABLES
  request, \* the call of position or _generatePosition
  placed \* where the element is put

pvars == << request, placed >>

NoGrid == -1 \* options.grid is false

Sides == {"left", "center", "right"}

\* Along one dimension: a call of position, and a move of the mouse while dragging.
Place ==
  [way : {"position"}, dir : {"left", "top"}, collision : {"fit", "flip", "flipfit", "none"},
   my : Sides, at : Sides, offset : Int, targetOffset : Int, targetWidth : Nat, elemWidth : Nat,
   margin : Int, isWindow : BOOLEAN, withinOffset : Int, scroll : Nat, withinWidth : Nat]
Drag ==
  [way : {"drag"}, mouse : Int, click : Int, original : Int, grid : Nat \cup {NoGrid}, first : Int, last : Int]

ASSUME PlacementAssumption == Places \subseteq Place /\ Drags \subseteq Drag

NotYet == [way |-> "none"]

\* How far a side is from the left edge: of the target for at, of the element for my.
Along(side, width) == CASE side = "left" -> 0 [] side = "center" -> width \div 2 [] side = "right" -> width

\* $.fn.position up to the collisions: targetOffset, at, my and their offsets.
BasePosition(p) ==
  p.targetOffset + Along(p.at, p.targetWidth) - Along(p.my, p.elemWidth) + p.offset

CollisionWidth(p) == p.elemWidth + 2 * p.margin

WithinOffset(p) == IF p.isWindow THEN p.scroll ELSE p.withinOffset

OverLeft(p, position) == WithinOffset(p) - (position - p.margin)

\* Mutant: within is taken to begin at zero.
OverRightOfPage(p, position) == position - p.margin + CollisionWidth(p) - p.withinWidth

OverRight(p, position) == position - p.margin + CollisionWidth(p) - p.withinWidth - WithinOffset(p)

\* fit of an element that is wider than within
FitWider(p, position) ==
  LET overLeft  == OverLeft(p, position)
      overRight == OverRight(p, position)
      newOverRight == position + overLeft + CollisionWidth(p) - p.withinWidth - WithinOffset(p)
  IN  CASE overLeft > 0 /\ overRight <= 0 -> position + overLeft - newOverRight
        [] overRight > 0 /\ overLeft <= 0 -> WithinOffset(p)
        [] OTHER -> IF overLeft > overRight
                    THEN WithinOffset(p) + p.withinWidth - CollisionWidth(p)
                    ELSE WithinOffset(p)

Fit(p, position) ==
  CASE CollisionWidth(p) > p.withinWidth -> FitWider(p, position)
    [] CollisionWidth(p) <= p.withinWidth /\ OverLeft(p, position) > 0 ->
         position + OverLeft(p, position)
    [] CollisionWidth(p) <= p.withinWidth /\ OverLeft(p, position) <= 0 /\ OverRight(p, position) > 0 ->
         position - OverRight(p, position)
    [] OTHER -> Max({p.margin, position})

Distance(x) == IF x < 0 THEN -x ELSE x

Better(over, newOver) == newOver < 0 \/ newOver < Distance(over)

\* flip: top has the guard that what it flips to is behind the overlap.
Flip(p, position) ==
  LET over     == -OverLeft(p, position)
      myOffset == CASE p.my = "left" -> -p.elemWidth [] p.my = "right" -> p.elemWidth [] OTHER -> 0
      atOffset == CASE p.at = "left" -> p.targetWidth [] p.at = "right" -> -p.targetWidth [] OTHER -> 0
      flipped  == position + myOffset + atOffset - 2 * p.offset
      newOverRight == flipped + CollisionWidth(p) - p.withinWidth - (p.withinOffset + p.scroll)
      newOverLeft  == flipped - p.margin - WithinOffset(p)
      Behind(overlap) == p.dir = "top" => flipped > overlap
  IN  IF \/ over < 0 /\ Better(over, newOverRight) /\ Behind(over)
         \/ /\ over >= 0 /\ OverRight(p, position) > 0
            /\ Better(OverRight(p, position), -newOverLeft) /\ Behind(OverRight(p, position))
      THEN flipped
      ELSE position

Position(p) ==
  LET position == BasePosition(p)
  IN  CASE p.collision = "fit" -> Fit(p, position)
        [] p.collision = "flip" -> Flip(p, position)
        [] p.collision = "flipfit" -> Fit(p, Flip(p, position))
        [] p.collision = "none" -> position

\* Math.round of a quotient
Round(x, y) == (2 * x + y) \div (2 * y)

\* What the grid makes of a place of the mouse, inside of a containment.
Gridded(d, mouse) ==
  LET left == d.original + Round(mouse - d.original, d.grid) * d.grid
  IN  IF left - d.click >= d.first \/ left - d.click > d.last THEN left ELSE left + d.grid

\* _generatePosition of a contained element.  A grid element 0 is not divided by: along
\* that axis the mouse is taken to be where the drag began.
GeneratePosition(d) ==
  LET inside == CASE d.mouse - d.click > d.last -> d.last + d.click
                  [] d.mouse - d.click < d.first /\ d.mouse - d.click <= d.last -> d.first + d.click
                  [] OTHER -> d.mouse
      mouse  == CASE d.grid = NoGrid -> inside
                  [] d.grid = 0 -> d.original
                  [] d.grid > 0 -> Gridded(d, inside)
  IN  mouse - d.click

PlacementInit ==
  /\ request = NotYet
  /\ placed = 0

PlacementNext ==
  /\ request = NotYet
  /\ \/ \E p \in Places : request' = p /\ placed' = Position(p)
     \/ \E d \in Drags : request' = d /\ placed' = GeneratePosition(d)

PlacementSpec == PlacementInit /\ [][PlacementNext]_pvars

-----------------------------------------------------------------------------
(* Correctness                                                             *)

\* An element that is not wider than within ends up inside of it with its
\* margins, wherever its target is, if it may be moved to fit.  (Left of the page's
\* edge nothing is put, so within must not begin there.)
PositionedWithin ==
  (/\ request.way = "position"
   /\ request.collision \in {"fit", "flipfit"}
   /\ WithinOffset(request) >= 0
   /\ CollisionWidth(request) <= request.withinWidth)
    => /\ OverLeft(request, placed) <= 0
       /\ placed - request.margin + CollisionWidth(request)
            <= WithinOffset(request) + request.withinWidth

\* A dragged element stays inside of its containment if it has no grid.  In a grid
\* it is never before the containment but may stick out behind it, by less than a
\* step: line 1951 leaves every place alone that is not before the containment.
\* Along an axis with a grid element 0 it stays where it was, inside or not.
DraggedWithin ==
  (request.way = "drag" /\ request.first <= request.last)
    => /\ request.grid = NoGrid => placed \in request.first .. request.last
       /\ request.grid = 0 => placed = request.original - request.click
       /\ request.grid > 0 => placed \in request.first .. (request.last + request.grid - 1)

\* jquery-ui-1.10.2.custom.js:1269-1340, 1907-1990.  By position an element that fits is
\* put inside of what is to contain it, and a drag leaves it there but for what its grid
\* does to it, wherever the target, the mouse, margins and scrolling would have it.
FitsWithin == PositionedWithin /\ DraggedWithin
=============================================================================
