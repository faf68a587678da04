---------------------------- MODULE ScriptsProofs ----------------------------
(***************************************************************************)
(* The scripts of the pages, for all constants: any rows, targets, boxes,  *)
(* converters, and any number of requests.  The scripts share no state, so *)
(* each has an invariant and a theorem of its own.                         *)
(***************************************************************************)
EXTENDS EventHandlers, Resizing, Placement, WidgetClasses, MouseDrags, WidgetInstances, Buttons,
        SortableTables, AjaxConversions, AjaxRequests, Dialogs, CallbackLists,
        FiniteSetTheorems, SequenceTheorems, TLAPS


-----------------------------------------------------------------------------
(* Resizing: the edges a handle does not drag stay.                        *)

Handles == North \cup South \cup East \cup West

ResizingTypeOK ==
  /\ axis \in Handles \cup {"none"}
  /\ limits \in Limit
  /\ keepsRatio \in BOOLEAN
  /\ aspectRatio \in Ratio
  /\ proportional \in BOOLEAN
  /\ original \in Sized
  /\ box \in Rectangle

ResizingInv ==
  /\ ResizingTypeOK
  /\ OtherEdgesStay
  /\ axis = "none" => box = original

\* $.extend gives every member of both, the one of the second where both have it.
LEMMA ExtendGives ==
  ASSUME NEW data, NEW more
  PROVE  /\ DOMAIN Extend(data, more) = DOMAIN data \cup DOMAIN more
         /\ \A x \in DOMAIN more : Extend(data, more)[x] = more[x]
         /\ \A x \in DOMAIN data \ DOMAIN more : Extend(data, more)[x] = data[x]
BY DEF Extend

\* Members that are written under a condition are there if it holds.
LEMMA GivenGives ==
  ASSUME NEW condition \in BOOLEAN, NEW members
  PROVE  /\ DOMAIN Given(condition, members) = IF condition THEN DOMAIN members ELSE {}
         /\ condition => \A x \in DOMAIN members : Given(condition, members)[x] = members[x]
BY DEF Given

\* What a move of the mouse may ask of the box: members that are numbers, the upper or left edge
\* only of a handle on that side and together with the size that keeps the edge across.
Keeps(data) ==
  /\ DOMAIN data \subseteq {"left", "top", "width", "height"}
  /\ \A x \in DOMAIN data : data[x] \in Int
  /\ IF axis \in West
     THEN /\ {"left", "width"} \subseteq DOMAIN data
          /\ data["left"] + data["width"] = original.left + original.width
     ELSE "left" \notin DOMAIN data
  /\ IF axis \in North
     THEN /\ {"top", "height"} \subseteq DOMAIN data
          /\ data["top"] + data["height"] = original.top + original.height
     ELSE "top" \notin DOMAIN data
  /\ axis \in East => "width" \in DOMAIN data
  /\ axis \in South => "height" \in DOMAIN data

\* It asks for one dimension only if the handle is not on a corner.
KeepsOther(data) ==
  /\ axis \notin East \cup West => "width" \notin DOMAIN data
  /\ axis \notin South \cup North => "height" \notin DOMAIN data

\* A handle is on one side of the box only, or on a corner.
LEMMA Handle ==
  /\ axis \in East => axis \notin West
  /\ axis \in North => axis \notin South
  /\ axis \in Handles => axis \in East \/ axis \in West \/ axis \in North \/ axis \in South
BY DEF East, West, North, South, Handles

\* _change: what the distance of the mouse asks for keeps the edge across.
LEMMA ChangeKeeps ==
  ASSUME ResizingTypeOK, axis \in Handles, NEW dx \in Int, NEW dy \in Int
  PROVE  Keeps(Change(dx, dy)) /\ KeepsOther(Change(dx, dy))
<1> DEFINE south == Given(axis \in South, [height |-> original.height + dy])
           n == Given(axis \in North, [top |-> original.top + dy, height |-> original.height - dy])
           e == Given(axis \in East, [width |-> original.width + dx])
           w == Given(axis \in West, [left |-> original.left + dx, width |-> original.width - dx])
<1>1. /\ DOMAIN south = IF axis \in South THEN {"height"} ELSE {}
      /\ DOMAIN n = IF axis \in North THEN {"top", "height"} ELSE {}
      /\ DOMAIN e = IF axis \in East THEN {"width"} ELSE {}
      /\ DOMAIN w = IF axis \in West THEN {"left", "width"} ELSE {}
  BY DEF Given
<1>2. /\ axis \in South => south["height"] = original.height + dy
      /\ axis \in North => n["top"] = original.top + dy /\ n["height"] = original.height - dy
      /\ axis \in East => e["width"] = original.width + dx
      /\ axis \in West => w["left"] = original.left + dx /\ w["width"] = original.width - dx
  BY DEF Given
<1> HIDE DEF south, n, e, w
<1> DEFINE sn == Extend(south, n)
           ew == Extend(e, w)
<1>3. /\ DOMAIN sn = DOMAIN south \cup DOMAIN n /\ DOMAIN ew = DOMAIN e \cup DOMAIN w
      /\ \A x \in DOMAIN n : sn[x] = n[x]
      /\ \A x \in DOMAIN south \ DOMAIN n : sn[x] = south[x]
      /\ \A x \in DOMAIN w : ew[x] = w[x]
      /\ \A x \in DOMAIN e \ DOMAIN w : ew[x] = e[x]
  BY ExtendGives
<1> HIDE DEF sn, ew
<1> DEFINE c == Extend(sn, ew)
<1>4. /\ DOMAIN c = DOMAIN sn \cup DOMAIN ew
      /\ \A x \in DOMAIN ew : c[x] = ew[x]
      /\ \A x \in DOMAIN sn \ DOMAIN ew : c[x] = sn[x]
  BY ExtendGives
<1>5. Change(dx, dy) = c
  BY DEF Change, sn, ew, south, n, e, w
<1> HIDE DEF c
<1>6. /\ original.left \in Int /\ original.top \in Int
      /\ original.width \in Int /\ original.height \in Int
  BY DEF ResizingTypeOK, Rectangle, Sized
<1>7. /\ axis \in South => c["height"] = original.height + dy
      /\ axis \in North => c["top"] = original.top + dy /\ c["height"] = original.height - dy
      /\ axis \in East => c["width"] = original.width + dx
      /\ axis \in West => c["left"] = original.left + dx /\ c["width"] = original.width - dx
  BY <1>1, <1>2, <1>3, <1>4, Handle
<1>8. \A x \in DOMAIN c : c[x] \in Int
  BY <1>1, <1>3, <1>4, <1>6, <1>7
<1>9. Keeps(c)
  BY <1>1, <1>3, <1>4, <1>6, <1>7, <1>8 DEF Keeps
<1>10. KeepsOther(c)
  BY <1>1, <1>3, <1>4 DEF KeepsOther
<1>11. QED BY <1>5, <1>9, <1>10

\* What is computed with the ratio is a number.
LEMMA RatioType ==
  ASSUME aspectRatio \in Ratio, NEW x \in Int
  PROVE  Times(x) \in Int /\ Over(x) \in Int
<1>1. aspectRatio.width \in Nat \ {0} /\ aspectRatio.height \in Nat \ {0}
  BY DEF Ratio
<1>2. ASSUME NEW a \in Int, NEW b \in Nat \ {0} PROVE a \div b \in Int
  BY <1>2
<1>3. x * aspectRatio.width \in Int /\ x * aspectRatio.height \in Int
  BY <1>1
<1>4. QED BY <1>1, <1>2, <1>3 DEF Times, Over

\* _updateRatio: with a ratio the box gets its other size and keeps the edges across.
LEMMA ProportionedKeeps ==
  ASSUME ResizingInv, axis \in Handles, NEW data, Keeps(data), KeepsOther(data)
  PROVE  Keeps(Proportioned(data))
<1> DEFINE width  == IF Has(data, "height") THEN Times(data.height) ELSE data.width
           height == IF Has(data, "height") THEN data.height ELSE Over(data.width)
           both  == [width |-> width, height |-> height]
           sized == Extend(data, both)
           west  == Given(axis \in {"sw", "nw"}, [left |-> box.left + box.width - width])
           north == Given(axis = "nw", [top |-> box.top + box.height - height])
<1>7. /\ width \in Int /\ height \in Int
      /\ "height" \in DOMAIN data => height = data["height"]
      /\ "height" \notin DOMAIN data => width = data["width"]
  BY Handle, RatioType DEF Keeps, Has, ResizingInv, ResizingTypeOK
<1> HIDE DEF width, height
<1>1. /\ DOMAIN west = IF axis \in {"sw", "nw"} THEN {"left"} ELSE {}
      /\ DOMAIN north = IF axis = "nw" THEN {"top"} ELSE {}
      /\ axis \in {"sw", "nw"} => west["left"] = box.left + box.width - width
      /\ axis = "nw" => north["top"] = box.top + box.height - height
      /\ DOMAIN both = {"width", "height"} /\ both["width"] = width /\ both["height"] = height
  BY DEF Given
<1> HIDE DEF west, north, both
<1>2. /\ DOMAIN sized = DOMAIN data \cup {"width", "height"}
      /\ sized["width"] = width /\ sized["height"] = height
      /\ \A x \in DOMAIN data \ {"width", "height"} : sized[x] = data[x]
  <2>1. /\ DOMAIN sized = DOMAIN data \cup DOMAIN both
        /\ \A x \in DOMAIN both : sized[x] = both[x]
        /\ \A x \in DOMAIN data \ DOMAIN both : sized[x] = data[x]
    BY ExtendGives
  <2> HIDE DEF sized
  <2>2. QED BY <1>1, <2>1
<1> HIDE DEF sized
<1> DEFINE sw == Extend(sized, west)
<1>3. /\ DOMAIN sw = DOMAIN sized \cup DOMAIN west
      /\ \A x \in DOMAIN west : sw[x] = west[x]
      /\ \A x \in DOMAIN sized \ DOMAIN west : sw[x] = sized[x]
  BY ExtendGives
<1> HIDE DEF sw
<1> DEFINE d == Extend(sw, north)
<1>4. /\ DOMAIN d = DOMAIN sw \cup DOMAIN north
      /\ \A x \in DOMAIN north : d[x] = north[x]
      /\ \A x \in DOMAIN sw \ DOMAIN north : d[x] = sw[x]
  BY ExtendGives
<1>5. Proportioned(data) = d
  BY DEF Proportioned, d, sw, west, north, sized, both, width, height
<1> HIDE DEF d
<1>6. /\ box.left \in Int /\ box.top \in Int /\ box.width \in Int /\ box.height \in Int
      /\ original.left \in Int /\ original.top \in Int
      /\ original.width \in Int /\ original.height \in Int
  BY DEF ResizingInv, ResizingTypeOK, Rectangle, Sized
<1>8. /\ axis \in West => box.left + box.width = original.left + original.width
      /\ axis \in North => box.top + box.height = original.top + original.height
  BY DEF ResizingInv, OtherEdgesStay
<1>9. d["width"] = width /\ d["height"] = height /\ {"width", "height"} \subseteq DOMAIN d
      /\ DOMAIN d = DOMAIN data \cup {"width", "height"}
                     \cup (IF axis \in {"sw", "nw"} THEN {"left"} ELSE {})
                     \cup (IF axis = "nw" THEN {"top"} ELSE {})
  BY <1>1, <1>2, <1>3, <1>4
<1>10. axis \in West => d["left"] \in Int /\ "left" \in DOMAIN d
                        /\ d["left"] + d["width"] = original.left + original.width
  <2>1. CASE axis \in {"sw", "nw"}
    <3>1. d["left"] = box.left + box.width - width
      BY <1>1, <1>3, <1>4, <2>1
    <3>2. QED BY <1>6, <1>7, <1>8, <1>9, <2>1, <3>1 DEF West
  <2>2. CASE axis = "w"
    <3>1. d["left"] = data["left"] /\ width = data["width"]
      BY <1>1, <1>2, <1>3, <1>4, <1>7, <2>2 DEF Keeps, KeepsOther, West, North, South
    <3>2. QED BY <1>6, <1>7, <1>9, <2>2, <3>1 DEF Keeps, West
  <2>3. QED BY <2>1, <2>2 DEF West
<1>11. axis \in North => d["top"] \in Int /\ "top" \in DOMAIN d
                         /\ d["top"] + d["height"] = original.top + original.height
  <2>1. CASE axis = "nw"
    BY <1>1, <1>4, <1>6, <1>7, <1>8, <1>9, <2>1 DEF North
  <2>2. CASE axis \in North \ {"nw"}
    <3>1. d["top"] = data["top"] /\ height = data["height"]
      BY <1>1, <1>2, <1>3, <1>4, <1>7, <2>2 DEF Keeps, North
    <3>2. QED BY <1>6, <1>7, <1>9, <2>2, <3>1 DEF Keeps
  <2>3. QED BY <2>1, <2>2
<1>12. (axis \notin West => "left" \notin DOMAIN d) /\ (axis \notin North => "top" \notin DOMAIN d)
  BY <1>9 DEF Keeps, West, North
<1>13. Keeps(d)
  BY <1>7, <1>9, <1>10, <1>11, <1>12 DEF Keeps
<1>14. QED BY <1>5, <1>13

\* _updateVirtualBoundaries gives numbers.
LEMMA BoundariesAreNumbers ==
  ASSUME ResizingTypeOK, NEW ratio \in BOOLEAN
  PROVE  LET o == Boundaries(ratio)
         IN  o.minWidth \in Int /\ o.maxWidth \in Int /\ o.minHeight \in Int /\ o.maxHeight \in Int
<1>1. /\ limits.minWidth \in Int /\ limits.minHeight \in Int
      /\ limits.maxWidth \in Int /\ limits.maxHeight \in Int
  BY DEF ResizingTypeOK, Limit
<1>2. ASSUME NEW a \in Int, NEW b \in Int
      PROVE  Max({a, b}) \in Int /\ Min({a, b}) \in Int
  <2>1. (\E x \in {a, b} : \A y \in {a, b} : x >= y) /\ (\E x \in {a, b} : \A y \in {a, b} : x <= y)
    OBVIOUS
  <2>2. QED BY <2>1 DEF Max, Min
<1>3. /\ Times(limits.minHeight) \in Int /\ Times(limits.maxHeight) \in Int
      /\ Over(limits.minWidth) \in Int /\ Over(limits.maxWidth) \in Int
  BY <1>1, RatioType DEF ResizingTypeOK
<1>4. QED BY <1>1, <1>2, <1>3 DEF Boundaries

\* _respectSize: a limit moves the edges of the handle only.
LEMMA RespectedKeeps ==
  ASSUME ResizingInv, axis \in Handles, NEW ratio \in BOOLEAN, NEW data, Keeps(data)
  PROVE  /\ Keeps(Respected(data, ratio))
         /\ DOMAIN Respected(data, ratio) = DOMAIN data
<1> DEFINE o      == Boundaries(ratio)
           right  == original.left + original.width
           width  == IF Has(data, "width") THEN Clipped(data.width, o.minWidth, o.maxWidth) ELSE 0
           height == IF Has(data, "height") THEN Clipped(data.height, o.minHeight, o.maxHeight) ELSE 0
           wide   == Has(data, "width") /\ width # data.width
           high   == Has(data, "height") /\ height # data.height
           size1  == Given(wide, [width |-> width])
           size2  == Given(high, [height |-> height])
           place1 == Given(wide /\ axis \in West, [left |-> right - width])
           place2 == Given(high /\ axis \in North, [top |-> LowerEdge - height])
<1>1. width \in Int /\ height \in Int
  BY BoundariesAreNumbers DEF Keeps, Has, Clipped, ResizingInv
<1>2. /\ wide \in BOOLEAN /\ high \in BOOLEAN
      /\ wide => "width" \in DOMAIN data
      /\ high => "height" \in DOMAIN data
      /\ ~wide /\ "width" \in DOMAIN data => width = data["width"]
      /\ ~high /\ "height" \in DOMAIN data => height = data["height"]
  BY DEF Has
<1> HIDE DEF o, width, height, wide, high
<1>3. /\ DOMAIN size1 = IF wide THEN {"width"} ELSE {}
      /\ DOMAIN size2 = IF high THEN {"height"} ELSE {}
      /\ DOMAIN place1 = IF wide /\ axis \in West THEN {"left"} ELSE {}
      /\ DOMAIN place2 = IF high /\ axis \in North THEN {"top"} ELSE {}
      /\ wide => size1["width"] = width
      /\ high => size2["height"] = height
      /\ wide /\ axis \in West => place1["left"] = right - width
      /\ high /\ axis \in North => place2["top"] = LowerEdge - height
  BY DEF Given
<1> HIDE DEF size1, size2, place1, place2
<1> DEFINE size == Extend(size1, size2)
           place == Extend(place1, place2)
<1>4. /\ DOMAIN size = DOMAIN size1 \cup DOMAIN size2
      /\ \A x \in DOMAIN size2 : size[x] = size2[x]
      /\ \A x \in DOMAIN size1 \ DOMAIN size2 : size[x] = size1[x]
      /\ DOMAIN place = DOMAIN place1 \cup DOMAIN place2
      /\ \A x \in DOMAIN place2 : place[x] = place2[x]
      /\ \A x \in DOMAIN place1 \ DOMAIN place2 : place[x] = place1[x]
  BY ExtendGives
<1> HIDE DEF size, place
<1> DEFINE more == Extend(size, place)
<1>5. /\ DOMAIN more = DOMAIN size \cup DOMAIN place
      /\ \A x \in DOMAIN place : more[x] = place[x]
      /\ \A x \in DOMAIN size \ DOMAIN place : more[x] = size[x]
  BY ExtendGives
<1> HIDE DEF more
<1> DEFINE d == Extend(data, more)
<1>6. /\ DOMAIN d = DOMAIN data \cup DOMAIN more
      /\ \A x \in DOMAIN more : d[x] = more[x]
      /\ \A x \in DOMAIN data \ DOMAIN more : d[x] = data[x]
  BY ExtendGives
<1>7. Respected(data, ratio) = d
  BY DEF Respected, d, more, size, place, size1, size2, place1, place2, wide, high, width, height, o
<1> HIDE DEF d
<1>8. DOMAIN d = DOMAIN data
  BY <1>2, <1>3, <1>4, <1>5, <1>6 DEF Keeps
<1>9. /\ "width" \in DOMAIN d => d["width"] = width
      /\ "height" \in DOMAIN d => d["height"] = height
  BY <1>2, <1>3, <1>4, <1>5, <1>6, <1>8
<1>10. /\ box.left \in Int /\ box.top \in Int /\ box.width \in Int /\ box.height \in Int
       /\ original.left \in Int /\ original.top \in Int
       /\ original.width \in Int /\ original.height \in Int
  BY DEF ResizingInv, ResizingTypeOK, Rectangle, Sized
<1>11. axis \in North => LowerEdge = original.top + original.height
  BY DEF LowerEdge, ResizingInv, OtherEdgesStay
<1>12. "left" \in DOMAIN d => d["left"] \in Int /\ d["left"] + d["width"] = right
  <2>1. CASE wide /\ axis \in West
    <3>1. d["left"] = right - width
      BY <1>3, <1>4, <1>5, <1>6, <2>1
    <3>2. QED BY <1>1, <1>2, <1>8, <1>9, <1>10, <2>1, <3>1
  <2>2. CASE ~(wide /\ axis \in West)
    <3>1. "left" \in DOMAIN d => d["left"] = data["left"] /\ axis \in West
      BY <1>3, <1>4, <1>5, <1>6, <1>8, <2>2 DEF Keeps
    <3>2. QED BY <1>2, <1>8, <1>9, <2>2, <3>1 DEF Keeps
  <2>3. QED BY <2>1, <2>2
<1>13. "top" \in DOMAIN d => d["top"] \in Int /\ d["top"] + d["height"] = original.top + original.height
  <2>1. CASE high /\ axis \in North
    <3>1. d["top"] = LowerEdge - height
      BY <1>3, <1>4, <1>5, <1>6, <2>1
    <3>2. QED BY <1>1, <1>2, <1>8, <1>9, <1>10, <1>11, <2>1, <3>1
  <2>2. CASE ~(high /\ axis \in North)
    <3>1. "top" \in DOMAIN d => d["top"] = data["top"] /\ axis \in North
      BY <1>3, <1>4, <1>5, <1>6, <1>8, <2>2 DEF Keeps
    <3>2. QED BY <1>2, <1>8, <1>9, <2>2, <3>1 DEF Keeps
  <2>3. QED BY <2>1, <2>2
<1>14. Keeps(d)
  BY <1>1, <1>8, <1>9, <1>12, <1>13 DEF Keeps
<1>15. QED BY <1>7, <1>8, <1>14

\* _mouseDrag: no move of the mouse breaks the invariant.
LEMMA ResizeKeeps ==
  ASSUME ResizingInv, NEW dx \in Int, NEW dy \in Int, NEW shiftKey \in BOOLEAN,
         Resize(dx, dy, shiftKey)
  PROVE  ResizingInv'
<1> DEFINE ratio   == keepsRatio \/ shiftKey
           changed == Change(dx, dy)
           data    == Respected(IF ratio THEN Proportioned(changed) ELSE changed, ratio)
<1>1. axis \in Handles /\ ratio \in BOOLEAN
  BY DEF ResizingInv, ResizingTypeOK, Resize
<1>2. Keeps(changed) /\ KeepsOther(changed)
  BY <1>1, ChangeKeeps DEF ResizingInv
<1> HIDE DEF ratio, changed
<1>3. Keeps(data) /\ (~ratio => KeepsOther(data))
  <2>1. CASE ratio
    BY <1>1, <1>2, <2>1, ProportionedKeeps, RespectedKeeps
  <2>2. CASE ~ratio
    BY <1>1, <1>2, <2>2, RespectedKeeps DEF KeepsOther
  <2>3. QED BY <2>1, <2>2
<1>4. /\ box' = [x \in DOMAIN box |-> IF Has(data, x) THEN data[x] ELSE box[x]]
      /\ proportional' = (proportional \/ ratio)
      /\ UNCHANGED << axis, limits, keepsRatio, aspectRatio, original >>
  BY DEF Resize, ratio, changed
<1> HIDE DEF data
<1>5. DOMAIN box = {"left", "top", "width", "height"}
      /\ \A x \in DOMAIN box : box[x] \in Int
  BY DEF ResizingInv, ResizingTypeOK, Rectangle
<1>6. box' = [left |-> IF Has(data, "left") THEN data["left"] ELSE box.left,
              top |-> IF Has(data, "top") THEN data["top"] ELSE box.top,
              width |-> IF Has(data, "width") THEN data["width"] ELSE box.width,
              height |-> IF Has(data, "height") THEN data["height"] ELSE box.height]
  BY <1>4, <1>5
<1>7. box' \in Rectangle
  BY <1>3, <1>5, <1>6 DEF Keeps, Has, Rectangle
<1>8. OtherEdgesStay'
  <2>1. /\ original.left \in Int /\ original.top \in Int
        /\ original.width \in Int /\ original.height \in Int
    BY DEF ResizingInv, ResizingTypeOK, Rectangle, Sized
  <2>2. /\ box'.left = IF "left" \in DOMAIN data THEN data["left"] ELSE box.left
        /\ box'.top = IF "top" \in DOMAIN data THEN data["top"] ELSE box.top
        /\ box'.width = IF "width" \in DOMAIN data THEN data["width"] ELSE box.width
        /\ box'.height = IF "height" \in DOMAIN data THEN data["height"] ELSE box.height
    BY <1>6 DEF Has
  <2>3. /\ IF axis \in West THEN box'.left + box'.width = original.left + original.width
                            ELSE box'.left = original.left
        /\ IF axis \in North THEN box'.top + box'.height = original.top + original.height
                             ELSE box'.top = original.top
    BY <1>3, <2>2 DEF Keeps, ResizingInv, OtherEdgesStay
  <2>4. ~proportional' /\ axis \notin East => box'.left + box'.width = original.left + original.width
    BY <1>3, <1>4, <2>2, <2>3 DEF Keeps, KeepsOther, ResizingInv, OtherEdgesStay
  <2>5. ~proportional' /\ axis \notin South => box'.top + box'.height = original.top + original.height
    BY <1>3, <1>4, <2>2, <2>3 DEF Keeps, KeepsOther, ResizingInv, OtherEdgesStay
  <2>6. QED BY <1>4, <2>3, <2>4, <2>5 DEF OtherEdgesStay
<1>9. proportional' \in BOOLEAN
  BY <1>1, <1>4 DEF ResizingInv, ResizingTypeOK
<1>10. QED BY <1>1, <1>4, <1>7, <1>8, <1>9
           DEF ResizingInv, ResizingTypeOK, Handles, North, South, East, West

\* jquery-ui-1.10.2.custom.js:2707-2711, 2840-2903.  The edges across from the handle stay, for
\* boxes, limits, ratios and distances of any size, whenever the shift key is pressed.
THEOREM EdgesTheorem == ResizingSpec => []OtherEdgesStay
<1>1. ResizingInit => ResizingInv
  <2> SUFFICES ASSUME ResizingInit PROVE ResizingInv
    OBVIOUS
  <2>1. ResizingTypeOK
    <3>1. limits \in Limit /\ original \in Sized /\ box = original
      BY ResizingAssumption DEF ResizingInit
    <3>2. aspectRatio \in Ratio
      BY DEF ResizingInit, Ratio
    <3>3. QED BY <3>1, <3>2 DEF ResizingInit, ResizingTypeOK, Sized
  <2>2. OtherEdgesStay
    BY DEF ResizingInit, OtherEdgesStay, North, South, East, West
  <2>3. QED BY <2>1, <2>2 DEF ResizingInit, ResizingInv
<1>2. ResizingInv /\ [ResizingNext]_rvars => ResizingInv'
  <2> SUFFICES ASSUME ResizingInv, [ResizingNext]_rvars PROVE ResizingInv'
    OBVIOUS
  <2>1. CASE StartResizing
    <3>1. OwnRatio \in Ratio
      BY DEF OwnRatio, ResizingInv, ResizingTypeOK, Sized, Rectangle, Ratio
    <3>2. aspectRatio' \in Ratio /\ keepsRatio' \in BOOLEAN
      BY <2>1, <3>1, ResizingAssumption DEF StartResizing
    <3>3. QED BY <2>1, <3>2, ResizingAssumption
              DEF StartResizing, ResizingInv, ResizingTypeOK, OtherEdgesStay, Handles
  <2>2. ASSUME NEW dx \in Steps, NEW dy \in Steps, NEW shiftKey \in BOOLEAN, Resize(dx, dy, shiftKey)
        PROVE  ResizingInv'
    BY <2>2, ResizeKeeps, ResizingAssumption
  <2>3. CASE UNCHANGED rvars
    BY <2>3 DEF rvars, ResizingInv, ResizingTypeOK, OtherEdgesStay
  <2>4. QED BY <2>1, <2>2, <2>3 DEF ResizingNext
<1>3. QED BY <1>1, <1>2, PTL DEF ResizingSpec, ResizingInv

-----------------------------------------------------------------------------
(* Placement: what fits within the container is placed within it.          *)

PlacementInv ==
  \/ request = NotYet /\ placed = 0
  \/ request \in Place /\ placed = Position(request)
  \/ request \in Drag /\ placed = GeneratePosition(request)

\* The sides and centers of an element are whole numbers of pixels.
LEMMA AlongType ==
  ASSUME NEW side \in Sides, NEW width \in Nat
  PROVE  Along(side, width) \in Int
BY DEF Along, Sides

\* So is the place that an element is put at before it is moved to fit.
LEMMA BasePositionType ==
  ASSUME NEW p \in Place
  PROVE  BasePosition(p) \in Int
<1>1. Along(p.at, p.targetWidth) \in Int /\ Along(p.my, p.elemWidth) \in Int
  BY AlongType DEF Place
<1>2. p.targetOffset \in Int /\ p.offset \in Int
  BY DEF Place
<1>3. QED BY <1>1, <1>2 DEF BasePosition

\* And the place on the other side of the target.
LEMMA FlipType ==
  ASSUME NEW p \in Place, NEW position \in Int
  PROVE  Flip(p, position) \in Int
<1> DEFINE my == CASE p.my = "left" -> -p.elemWidth [] p.my = "right" -> p.elemWidth [] OTHER -> 0
           there == CASE p.at = "left" -> p.targetWidth [] p.at = "right" -> -p.targetWidth [] OTHER -> 0
           flipped == position + my + there - 2 * p.offset
<1>1. my \in Int /\ there \in Int /\ p.offset \in Int
  BY DEF Place
<1> HIDE DEF my, there
<1>2. flipped \in Int
  BY <1>1
<1>3. Flip(p, position) \in {flipped, position}
  BY DEF Flip, flipped, my, there
<1>4. QED BY <1>2, <1>3

\* Math.max of two numbers.
LEMMA MaxOfTwo ==
  ASSUME NEW a \in Int, NEW b \in Int
  PROVE  Max({a, b}) = IF a < b THEN b ELSE a
<1> DEFINE m == IF a < b THEN b ELSE a
<1>1. m \in {a, b} /\ \A y \in {a, b} : m >= y
  OBVIOUS
<1>2. \A x \in {a, b} : (\A y \in {a, b} : x >= y) => x = m
  OBVIOUS
<1> HIDE DEF m
<1>3. Max({a, b}) = m
  BY <1>1, <1>2 DEF Max
<1>4. QED BY <1>3 DEF m

\* fit of $.ui.position puts an element for which there is room inside.
LEMMA FitIsWithin ==
  ASSUME NEW p \in Place, NEW position \in Int,
         CollisionWidth(p) <= p.withinWidth, WithinOffset(p) >= 0
  PROVE  /\ OverLeft(p, Fit(p, position)) <= 0
         /\ Fit(p, position) - p.margin + CollisionWidth(p) <= WithinOffset(p) + p.withinWidth
<1>1. /\ p.margin \in Int /\ p.elemWidth \in Int /\ p.withinWidth \in Int
      /\ WithinOffset(p) \in Int
  BY DEF Place, WithinOffset
<1>2. CollisionWidth(p) \in Int
  BY <1>1 DEF CollisionWidth
<1>3. OverLeft(p, position) \in Int /\ OverRight(p, position) \in Int
  BY <1>1, <1>2 DEF OverLeft, OverRight
<1>4. CASE OverLeft(p, position) > 0
  <2>1. Fit(p, position) = position + OverLeft(p, position)
    BY <1>1, <1>2, <1>3, <1>4 DEF Fit
  <2>2. QED BY <1>1, <1>2, <2>1 DEF OverLeft
<1>5. CASE OverLeft(p, position) <= 0 /\ OverRight(p, position) > 0
  <2>1. Fit(p, position) = position - OverRight(p, position)
    BY <1>1, <1>2, <1>3, <1>5 DEF Fit
  <2>2. QED BY <1>1, <1>2, <2>1 DEF OverLeft, OverRight
<1>6. CASE OverLeft(p, position) <= 0 /\ OverRight(p, position) <= 0
  <2>1. Fit(p, position) = Max({p.margin, position})
    BY <1>1, <1>2, <1>3, <1>6 DEF Fit
  <2>2. Fit(p, position) = IF p.margin < position THEN position ELSE p.margin
    BY <1>1, <2>1, MaxOfTwo
  <2>3. QED BY <1>1, <1>2, <1>6, <2>2 DEF OverLeft, OverRight
<1>7. QED BY <1>3, <1>4, <1>5, <1>6

\* Math.round: a rounded quotient is at most half a divisor away.
LEMMA RoundIsNear ==
  ASSUME NEW x \in Int, NEW y \in Nat \ {0}
  PROVE  /\ Round(x, y) * y \in Int
         /\ x - y < Round(x, y) * y
         /\ Round(x, y) * y < x + y
<1> DEFINE q == (2 * x + y) \div (2 * y)
<1>1. q \in Int /\ (2 * y) * q <= 2 * x + y /\ 2 * x + y < (2 * y) * q + 2 * y
  OBVIOUS
<1> HIDE DEF q
<1>2. (2 * y) * q = 2 * (q * y) /\ q * y \in Int
  BY <1>1
<1> DEFINE z == q * y
<1>3. z \in Int /\ 2 * z <= 2 * x + y /\ 2 * x + y < 2 * z + 2 * y
  BY <1>1, <1>2
<1> HIDE DEF z
<1>4. x - y < z /\ z < x + y
  BY <1>3
<1>5. QED BY <1>3, <1>4 DEF z, q, Round

\* _generatePosition: a contained element is dragged to a place inside, or less than a step
\* of its grid behind.
LEMMA DragIsWithin ==
  ASSUME NEW d \in Drag, d.first <= d.last
  PROVE  /\ d.grid = NoGrid => GeneratePosition(d) \in d.first .. d.last
         /\ d.grid = 0 => GeneratePosition(d) = d.original - d.click
         /\ d.grid > 0 => GeneratePosition(d) \in d.first .. (d.last + d.grid - 1)
<1> DEFINE inside == CASE d.mouse - d.click > d.last -> d.last + d.click
                       [] d.mouse - d.click < d.first /\ d.mouse - d.click <= d.last -> d.first + d.click
                       [] OTHER -> d.mouse
<1>1. /\ d.mouse \in Int /\ d.click \in Int /\ d.first \in Int /\ d.last \in Int
      /\ d.original \in Int /\ d.grid \in Nat \cup {NoGrid} /\ NoGrid = -1
  BY DEF Drag, NoGrid
<1>2. inside \in Int /\ inside - d.click >= d.first /\ inside - d.click <= d.last
  BY <1>1
<1>3. GeneratePosition(d) = (CASE d.grid = NoGrid -> inside
                               [] d.grid = 0 -> d.original
                               [] d.grid > 0 -> Gridded(d, inside)) - d.click
  BY DEF GeneratePosition
<1> HIDE DEF inside
<1>4. CASE d.grid = NoGrid
  BY <1>1, <1>2, <1>3, <1>4
<1>5. CASE d.grid = 0
  BY <1>1, <1>3, <1>5
<1>6. CASE d.grid > 0
  <2> DEFINE step == Round(inside - d.original, d.grid) * d.grid
             left == d.original + step
  <2>1. step \in Int /\ inside - d.original - d.grid < step /\ step < inside - d.original + d.grid
    <3> DEFINE x == inside - d.original
    <3>1. x \in Int /\ d.grid \in Nat \ {0}
      BY <1>1, <1>2, <1>6
    <3> HIDE DEF x
    <3>2. step \in Int /\ x - d.grid < Round(x, d.grid) * d.grid /\ Round(x, d.grid) * d.grid < x + d.grid
      BY <3>1, RoundIsNear DEF x
    <3>3. QED BY <3>2 DEF x
  <2>2. Gridded(d, inside) = IF left - d.click >= d.first \/ left - d.click > d.last
                             THEN left ELSE left + d.grid
    BY DEF Gridded
  <2>3. GeneratePosition(d) = Gridded(d, inside) - d.click
    BY <1>1, <1>3, <1>6
  <2> HIDE DEF step
  <2>4. QED BY <1>1, <1>2, <1>6, <2>1, <2>2, <2>3
<1>7. QED BY <1>1, <1>4, <1>5, <1>6

\* jquery-ui-1.10.2.custom.js:1269-1340, 1907-1990.  What fits is put inside and a drag
\* leaves it there up to its grid, for pages, elements, margins and grids of any size.
THEOREM PlacementTheorem == PlacementSpec => []FitsWithin
<1>1. PlacementInit => PlacementInv
  BY DEF PlacementInit, PlacementInv
<1>2. PlacementInv /\ [PlacementNext]_pvars => PlacementInv'
  BY PlacementAssumption DEF PlacementInv, PlacementNext, pvars
<1>3. PlacementInv => FitsWithin
  <2> SUFFICES ASSUME PlacementInv PROVE FitsWithin
    OBVIOUS
  <2>1. CASE request = NotYet
    BY <2>1 DEF NotYet, FitsWithin, PositionedWithin, DraggedWithin
  <2>2. CASE request \in Place /\ placed = Position(request)
    <3>1. request.way = "position"
      BY <2>2 DEF Place
    <3>2. ASSUME request.collision \in {"fit", "flipfit"}
          PROVE  \E position \in Int : placed = Fit(request, position)
      BY <2>2, <3>2, BasePositionType, FlipType DEF Position
    <3>3. PositionedWithin
      BY <2>2, <3>2, FitIsWithin DEF PositionedWithin
    <3>4. QED BY <3>1, <3>3 DEF FitsWithin, DraggedWithin
  <2>3. CASE request \in Drag /\ placed = GeneratePosition(request)
    <3>1. request.way = "drag"
      BY <2>3 DEF Drag
    <3>2. QED BY <2>3, <3>1, DragIsWithin DEF FitsWithin, PositionedWithin, DraggedWithin
  <2>4. QED BY <2>1, <2>2, <2>3 DEF PlacementInv
<1>4. QED BY <1>1, <1>2, <1>3, PTL DEF PlacementSpec

-----------------------------------------------------------------------------
(* WidgetClasses: a method's _super is that of its own class.              *)

SavedCalls == [level : Int, saved : Int, caught : BOOLEAN]

\* Each frame gives back what the one below found, as long as that one is not left.
SuperInv ==
  /\ frames \in Seq(SavedCalls)
  /\ super \in Int
  /\ \A i \in 1 .. Len(frames) - 1 : ~frames[i].caught => frames[i + 1].saved = frames[i].level
  /\ SuperIsOwn

\* The depth of a widget class is a number.
LEMMA LevelsAreNumbers == Cardinality(Levels) \in Nat
BY ClassesAssumption, FS_CardinalityType

\* A method that is called keeps the _super of the one that calls it.
LEMMA PushKeepsSuper ==
  ASSUME SuperInv, NEW level \in Int, super' = level,
         frames' = Append(frames, [level |-> level, saved |-> super, caught |-> FALSE])
  PROVE  SuperInv'
<1> DEFINE top == [level |-> level, saved |-> super, caught |-> FALSE]
<1>1. top \in SavedCalls /\ frames \in Seq(SavedCalls) /\ Len(frames) \in Nat
  BY DEF SuperInv, SavedCalls
<1>2. /\ frames' \in Seq(SavedCalls) /\ Len(frames') = Len(frames) + 1
      /\ \A i \in 1 .. Len(frames) : frames'[i] = frames[i]
      /\ frames'[Len(frames) + 1] = top
  BY <1>1
<1>3. ASSUME NEW i \in 1 .. Len(frames') - 1, ~frames'[i].caught
      PROVE  frames'[i + 1].saved = frames'[i].level
  <2>1. i \in 1 .. Len(frames) /\ frames'[i] = frames[i]
    BY <1>1, <1>2
  <2>2. CASE i = Len(frames)
    <3>1. frames # << >> /\ ~Last(frames).caught
      BY <1>1, <1>3, <2>1, <2>2 DEF Last
    <3>2. super = frames[i].level
      BY <2>2, <3>1 DEF SuperInv, SuperIsOwn, Last
    <3>3. QED BY <1>2, <2>1, <2>2, <3>2
  <2>3. CASE i < Len(frames)
    BY <1>1, <1>2, <1>3, <2>1, <2>3 DEF SuperInv
  <2>4. QED BY <1>1, <2>1, <2>2, <2>3
<1>4. SuperIsOwn'
  BY <1>1, <1>2 DEF SuperIsOwn, Last
<1>5. super' \in Int
  OBVIOUS
<1>6. QED BY <1>2, <1>3, <1>4, <1>5 DEF SuperInv

\* A method that returns gives the _super back.
LEMMA ReturnKeepsSuper ==
  ASSUME SuperInv, ReturnFromMethod
  PROVE  SuperInv'
<1>1. frames \in Seq(SavedCalls) /\ Len(frames) \in Nat \ {0} /\ frames # << >>
  BY DEF SuperInv, ReturnFromMethod
<1>2. frames' = SubSeq(frames, 1, Len(frames) - 1) /\ super' = frames[Len(frames)].saved
  BY DEF ReturnFromMethod, SuperRestored, Front, Last
<1>3. /\ frames' \in Seq(SavedCalls) /\ Len(frames') = Len(frames) - 1
      /\ \A i \in 1 .. Len(frames) - 1 : frames'[i] = frames[i]
  <2>1. \A i \in 1 .. Len(frames) - 1 : frames[i] \in SavedCalls
    BY <1>1
  <2> DEFINE n == Len(frames) - 1
  <2>2. n \in Nat
    BY <1>1
  <2>3. \A i \in 1 .. n : frames[i] \in SavedCalls
    BY <2>1
  <2> HIDE DEF n
  <2>4. /\ SubSeq(frames, 1, n) \in Seq(SavedCalls)
        /\ Len(SubSeq(frames, 1, n)) = IF 1 <= n THEN n - 1 + 1 ELSE 0
        /\ \A i \in 1 .. n - 1 + 1 : SubSeq(frames, 1, n)[i] = frames[1 + i - 1]
    BY <2>2, <2>3, SubSeqProperties
  <2>5. /\ SubSeq(frames, 1, n) \in Seq(SavedCalls) /\ Len(SubSeq(frames, 1, n)) = n
        /\ \A i \in 1 .. n : SubSeq(frames, 1, n)[i] = frames[i]
    BY <2>2, <2>4
  <2>6. QED BY <1>2, <2>5 DEF n
<1>4. super' \in Int
  <2>1. frames[Len(frames)] \in SavedCalls
    BY <1>1
  <2>2. QED BY <1>2, <2>1 DEF SavedCalls
<1>5. \A i \in 1 .. Len(frames') - 1 : ~frames'[i].caught => frames'[i + 1].saved = frames'[i].level
  BY <1>1, <1>3 DEF SuperInv
<1>6. SuperIsOwn'
  <2> SUFFICES ASSUME frames' # << >>, ~Last(frames').caught PROVE super' = Last(frames').level
    BY DEF SuperIsOwn
  <2>1. Len(frames') \in 1 .. Len(frames) - 1
    BY <1>1, <1>3
  <2>2. Last(frames') = frames[Len(frames) - 1]
    BY <1>1, <1>3, <2>1 DEF Last
  <2>3. frames[Len(frames) - 1 + 1].saved = frames[Len(frames) - 1].level
    BY <1>1, <1>3, <2>1, <2>2 DEF SuperInv
  <2>4. QED BY <1>1, <1>2, <2>2, <2>3
<1>7. QED BY <1>3, <1>4, <1>5, <1>6 DEF SuperInv

\* An exception leaves the frames up to one that catches it, which may now have a wrong _super.
LEMMA ThrowKeepsSuper ==
  ASSUME SuperInv, Throw
  PROVE  SuperInv'
<1>1. frames \in Seq(SavedCalls) /\ Len(frames) \in Nat /\ super' = super
  BY DEF SuperInv, Throw
<1>2. PICK n \in 0 .. Len(frames) - 1 :
        frames' = IF n = 0 THEN << >> ELSE [SubSeq(frames, 1, n) EXCEPT ![n].caught = TRUE]
  BY DEF Throw
<1>3. CASE n = 0
  BY <1>1, <1>2, <1>3 DEF SuperInv, SuperIsOwn
<1>4. CASE n # 0
  <2> DEFINE left == SubSeq(frames, 1, n)
  <2>1. /\ left \in Seq(SavedCalls) /\ Len(left) = n /\ n \in Nat \ {0}
        /\ \A i \in 1 .. n : left[i] = frames[i] /\ left[i] \in SavedCalls
    BY <1>1, <1>4
  <2> HIDE DEF left
  <2>2. frames' = [left EXCEPT ![n] = [left[n] EXCEPT !.caught = TRUE]]
    BY <1>2, <1>4 DEF left
  <2>3. /\ [left[n] EXCEPT !.caught = TRUE] \in SavedCalls
        /\ [left[n] EXCEPT !.caught = TRUE].caught = TRUE
        /\ [left[n] EXCEPT !.caught = TRUE].saved = left[n].saved
    <3>1. ASSUME NEW f \in SavedCalls
          PROVE  /\ [f EXCEPT !.caught = TRUE] \in SavedCalls
                 /\ [f EXCEPT !.caught = TRUE].caught = TRUE
                 /\ [f EXCEPT !.caught = TRUE].saved = f.saved
      BY DEF SavedCalls
    <3>2. left[n] \in SavedCalls
      BY <2>1
    <3>3. QED BY <3>1, <3>2
  <2>4. /\ frames' \in Seq(SavedCalls) /\ Len(frames') = n
        /\ \A i \in 1 .. n - 1 : frames'[i] = frames[i]
        /\ frames'[n].caught = TRUE /\ frames'[n].saved = frames[n].saved
    BY <2>1, <2>2, <2>3
  <2>5. SuperIsOwn'
    BY <2>1, <2>4 DEF SuperIsOwn, Last
  <2>6. ASSUME NEW i \in 1 .. n - 1, ~frames'[i].caught
        PROVE  frames'[i + 1].saved = frames'[i].level
    <3>1. frames'[i + 1].saved = frames[i + 1].saved
      BY <2>1, <2>4
    <3>2. QED BY <1>1, <2>1, <2>4, <2>6, <3>1 DEF SuperInv
  <2>7. super' \in Int
    BY <1>1 DEF SuperInv
  <2>8. QED BY <2>4, <2>5, <2>6, <2>7 DEF SuperInv
<1>5. QED BY <1>3, <1>4

\* jquery-ui-1.10.2.custom.js:386-407.  A method's _super is that of its own class, however
\* deep the classes inherit and the calls nest.
THEOREM SuperTheorem == ClassesSpec => []SuperIsOwn
<1>1. ClassesInit => SuperInv
  BY DEF ClassesInit, SuperInv, SuperIsOwn
<1>2. SuperInv /\ [ClassesNext]_cvars => SuperInv'
  <2> SUFFICES ASSUME SuperInv, [ClassesNext]_cvars PROVE SuperInv'
    OBVIOUS
  <2>1. ASSUME UNCHANGED << frames, super >> PROVE SuperInv'
    BY <2>1 DEF SuperInv, SuperIsOwn
  <2>2. CASE CallMethod
    BY <2>2, LevelsAreNumbers, PushKeepsSuper DEF CallMethod
  <2>3. CASE CallSuper
    <3>1. super - 1 \in Int
      BY DEF SuperInv
    <3>2. QED BY <2>3, <3>1, PushKeepsSuper DEF CallSuper
  <2>4. CASE ReturnFromMethod
    BY <2>4, ReturnKeepsSuper
  <2>5. CASE Throw
    BY <2>5, ThrowKeepsSuper
  <2>6. CASE (\E name \in WidgetNames : Define(name)) \/ DefineChild \/ UNCHANGED cvars
    BY <2>1, <2>6 DEF Define, DefineChild, cvars
  <2>7. QED BY <2>2, <2>3, <2>4, <2>5, <2>6 DEF ClassesNext
<1>3. QED BY <1>1, <1>2, PTL DEF ClassesSpec, SuperInv

-----------------------------------------------------------------------------
(* MouseDrags: only the click that ends a drag is swallowed.               *)

HelperStates == {"none", "dragged", "reverts", "kept"}

\* What the variables hold.
DragsTypeOK ==
  /\ mouseHandled \in BOOLEAN
  /\ pressedOn \in Targets \cup {NoTarget}
  /\ held \subseteq Draggables
  /\ mouseDown \in [Draggables -> Targets \cup {NoTarget}]
  /\ following \subseteq held
  /\ mouseStarted \subseteq following
  /\ mouseDelayMet \subseteq Draggables
  /\ delayTimers \in [Draggables -> Nat]
  /\ helper \in [Draggables -> HelperStates]

\* A draggable that follows the mouse took the press: it hears of the events of the
\* target, and no older drag, its own or another's, swallows the click.
FollowersTookPress ==
  \A w \in following :
    /\ mouseDown[w] \in Targets
    /\ \E i \in DOMAIN Chain[mouseDown[w]] : Chain[mouseDown[w]][i] = w
    /\ mouseDown[w] \notin prevented

DragsInv == DragsTypeOK /\ FollowersTookPress /\ OnlyDragsSwallowClicks

\* A drag that stops leaves its helper where it is, or has it revert.
LEMMA StopDragType ==
  ASSUME NEW w \in Draggables, helper \in [Draggables -> HelperStates], StopDrag(w)
  PROVE  helper' \in [Draggables -> HelperStates]
BY DEF StopDrag, ToldStop, HelperStates

\* _mouseDown: the press is taken by one draggable at most, which forgets an older flag.
LEMMA PressKeeps ==
  ASSUME DragsInv, NEW t \in Targets, Press(t)
  PROVE  DragsInv'
<1>1. CASE UNCHANGED << mouseHandled, mouseDown, following, mouseDelayMet, delayTimers, prevented,
                        mouseStarted, helper >>
  BY <1>1 DEF Press, DragsInv, DragsTypeOK, FollowersTookPress, OnlyDragsSwallowClicks
<1>2. ASSUME NEW w \in Draggables, TakesPress(w, t), Take(w, t) PROVE DragsInv'
  <2>1. w \in held /\ \E i \in DOMAIN Chain[t] : Chain[t][i] = w
    BY <1>2 DEF TakesPress, Captures
  <2>2. DragsTypeOK'
    BY <1>2, <2>1 DEF Press, Take, DragsInv, DragsTypeOK
  <2>3. FollowersTookPress'
    <3>1. SUFFICES ASSUME NEW v \in following'
                   PROVE  /\ mouseDown'[v] \in Targets
                          /\ \E i \in DOMAIN Chain[mouseDown'[v]] : Chain[mouseDown'[v]][i] = v
                          /\ mouseDown'[v] \notin prevented'
      BY DEF FollowersTookPress
    <3>2. mouseDown'[w] = t /\ t \notin prevented'
      BY <1>2 DEF Take, FlagsWithout, DragsInv, DragsTypeOK
    <3>3. CASE v = w
      BY <3>2, <3>3, <2>1
    <3>4. CASE v # w
      BY <3>4, <1>2 DEF Take, FlagsWithout, DragsInv, DragsTypeOK, FollowersTookPress
    <3>5. QED BY <3>3, <3>4
  <2>4. QED BY <2>2, <2>3 DEF Press, DragsInv, OnlyDragsSwallowClicks
<1>3. QED BY <1>1, <1>2 DEF Press

\* _mouseUp without a click, from a move after the button was let go outside, or from cancel.
LEMMA ReleaseKeeps ==
  ASSUME DragsInv, NEW w \in Draggables, Release(w, NoTarget),
         UNCHANGED << mouseHandled, pressedOn, held, mouseDown, mouseDelayMet, delayTimers, lastClick >>
  PROVE  DragsInv'
<1>1. helper' \in [Draggables -> HelperStates]
  BY StopDragType DEF Release, DragsInv, DragsTypeOK
<1>2. DragsTypeOK'
  BY <1>1 DEF Release, DragsInv, DragsTypeOK
<1>3. prevented' \subseteq prevented \cup {NoTarget}
  BY DEF Release
<1>4. FollowersTookPress'
  BY <1>3, DragsAssumption DEF Release, DragsInv, DragsTypeOK, FollowersTookPress, DragsAssumption
<1>5. QED BY <1>2, <1>4 DEF DragsInv, OnlyDragsSwallowClicks

\* _mouseMove: a move starts a drag, or ends one whose button was let go.
LEMMA MoveKeeps ==
  ASSUME DragsInv, NEW w \in Draggables, Move(w)
  PROVE  DragsInv'
<1>1. CASE Release(w, NoTarget)
  BY <1>1, ReleaseKeeps DEF Move
<1>2. CASE /\ mouseStarted' = mouseStarted \cup {w}
           /\ helper' = [helper EXCEPT ![w] = "dragged"]
           /\ UNCHANGED << following, prevented >>
  BY <1>2 DEF Move, DragsInv, DragsTypeOK, FollowersTookPress, OnlyDragsSwallowClicks, HelperStates
<1>3. QED BY <1>1, <1>2 DEF Move

\* _mouseUp and the click that follows: it is swallowed by the drag that just ended, if any.
LEMMA ClickedIsRight ==
  ASSUME DragsInv, NEW t \in Targets,
         Clicked(t, prevented \cup (IF \E w \in mouseStarted : mouseDown[w] = t THEN {t} ELSE {}))
  PROVE  OnlyDragsSwallowClicks'
<1> DEFINE drags     == \E w \in mouseStarted : mouseDown[w] = t
           flags     == prevented \cup (IF drags THEN {t} ELSE {})
           swallowed == t \in flags /\ \E i \in DOMAIN Chain[t] : Chain[t][i] \in held
           OfPress(followers) == {w \in followers : mouseDown[w] = t}
<1>1. lastClick' = [swallowed |-> swallowed, dragged |-> OfPress(mouseStarted),
                    taken |-> OfPress(following)]
  BY DEF Clicked
<1>2. ASSUME OfPress(following) # {}, swallowed PROVE OfPress(mouseStarted) # {}
  <2>1. t \notin prevented
    BY <1>2 DEF DragsInv, FollowersTookPress
  <2>2. drags
    BY <1>2, <2>1
  <2>3. QED BY <2>2
<1>3. ASSUME OfPress(mouseStarted) # {} PROVE swallowed
  <2>1. PICK w \in mouseStarted : mouseDown[w] = t
    BY <1>3
  <2>2. \E i \in DOMAIN Chain[t] : Chain[t][i] \in held
    BY <2>1 DEF DragsInv, DragsTypeOK, FollowersTookPress
  <2>3. QED BY <2>1, <2>2
<1> HIDE DEF swallowed, OfPress
<1>4. /\ lastClick'.swallowed = swallowed
      /\ lastClick'.dragged = OfPress(mouseStarted)
      /\ lastClick'.taken = OfPress(following)
  BY <1>1
<1>5. QED BY <1>2, <1>3, <1>4, Zenon DEF OnlyDragsSwallowClicks

\* _mouseUp: all draggables that follow the mouse stop, and a click may follow.
LEMMA ReleaseButtonKeeps ==
  ASSUME DragsInv, NEW t \in Targets, ReleaseButton(t)
  PROVE  DragsInv'
<1>1. helper' \in [Draggables -> HelperStates]
  BY StopDragType DEF ReleaseButton, DragsInv, DragsTypeOK
<1>2. DragsTypeOK'
  BY <1>1 DEF ReleaseButton, DragsInv, DragsTypeOK
<1>3. FollowersTookPress'
  BY DEF ReleaseButton, FollowersTookPress
<1>4. OnlyDragsSwallowClicks'
  BY ClickedIsRight DEF ReleaseButton, DragsInv, OnlyDragsSwallowClicks
<1>5. QED BY <1>2, <1>3, <1>4 DEF DragsInv

\* _mouseDestroy: a draggable that goes no longer follows the mouse.
LEMMA DestroyDraggableKeeps ==
  ASSUME DragsInv, NEW w \in Draggables, DestroyDraggable(w)
  PROVE  DragsInv'
<1>1. DragsTypeOK'
  BY DEF DestroyDraggable, DragsInv, DragsTypeOK, HelperStates
<1>2. FollowersTookPress'
  BY DEF DestroyDraggable, DragsInv, DragsTypeOK, FollowersTookPress
<1>3. QED BY <1>1, <1>2 DEF DestroyDraggable, DragsInv, OnlyDragsSwallowClicks

\* The invariant holds at each press, move, release and timer.
LEMMA DragsInvariant == DragsSpec => []DragsInv
<1>1. DragsInit => DragsInv
  <2>1. ASSUME DragsInit PROVE DragsTypeOK
    <3>1. mouseHandled \in BOOLEAN
      BY <2>1, Zenon DEF DragsInit
    <3>2. /\ mouseDown \in [Draggables -> Targets \cup {NoTarget}]
          /\ delayTimers \in [Draggables -> Nat]
          /\ helper \in [Draggables -> HelperStates]
      BY <2>1 DEF DragsInit, HelperStates
    <3>3. QED BY <2>1, <3>1, <3>2 DEF DragsInit, DragsTypeOK
  <2>2. DragsInit => FollowersTookPress /\ OnlyDragsSwallowClicks
    BY DEF DragsInit, FollowersTookPress, OnlyDragsSwallowClicks, NoClick
  <2>3. QED BY <2>1, <2>2 DEF DragsInv
<1>2. ASSUME DragsInv, [DragsNext]_mvars PROVE DragsInv'
  <2>1. CASE \E t \in Targets : Press(t) \/ ReleaseButton(t)
    BY <2>1, <1>2, PressKeeps, ReleaseButtonKeeps
  <2>2. CASE ReleaseOutside
    BY <2>2, <1>2 DEF ReleaseOutside, DragsInv, DragsTypeOK, FollowersTookPress,
                      OnlyDragsSwallowClicks
  <2>3. ASSUME NEW w \in Draggables, DelayMet(w) PROVE DragsInv'
    BY <2>3, <1>2 DEF DelayMet, DragsInv, DragsTypeOK, FollowersTookPress, OnlyDragsSwallowClicks
  <2>4. ASSUME NEW w \in Draggables, Move(w) PROVE DragsInv'
    BY <2>4, <1>2, MoveKeeps
  <2>5. ASSUME NEW w \in Draggables, RevertEnds(w) PROVE DragsInv'
    BY <2>5, <1>2 DEF RevertEnds, ToldStop, DragsInv, DragsTypeOK, FollowersTookPress,
                      OnlyDragsSwallowClicks, HelperStates
  <2>6. ASSUME NEW w \in Draggables, CancelDrag(w) PROVE DragsInv'
    BY <2>6, <1>2, ReleaseKeeps DEF CancelDrag
  <2>7. ASSUME NEW w \in Draggables, DestroyDraggable(w) PROVE DragsInv'
    BY <2>7, <1>2, DestroyDraggableKeeps
  <2>8. ASSUME NEW w \in Draggables, CreateDraggable(w) PROVE DragsInv'
    BY <2>8, <1>2 DEF CreateDraggable, DragsInv, DragsTypeOK, FollowersTookPress,
                      OnlyDragsSwallowClicks
  <2>9. CASE UNCHANGED mvars
    BY <2>9, <1>2 DEF mvars, DragsInv, DragsTypeOK, FollowersTookPress, OnlyDragsSwallowClicks
  <2>10. QED BY <1>2, <2>1, <2>2, <2>3, <2>4, <2>5, <2>6, <2>7, <2>8, <2>9 DEF DragsNext
<1>3. QED BY <1>1, <1>2, PTL DEF DragsSpec

\* jquery-ui-1.10.2.custom.js:848-854, 904-906, 952-955.  The click of a press that a
\* draggable took is swallowed exactly when the press became a drag, for any nesting of
\* draggables, which share one flag.
THEOREM DragsTheorem == DragsSpec => []OnlyDragsSwallowClicks
<1>1. DragsInv => OnlyDragsSwallowClicks
  BY DEF DragsInv
<1>2. QED BY <1>1, DragsInvariant, PTL

-----------------------------------------------------------------------------
(* WidgetInstances: a handler is called while its widget lives.            *)

\* What the variables hold, as far as the handlers depend on it.
InstancesTypeOK ==
  /\ uuid \in Nat
  /\ instance \in [Hosts -> Nat]
  /\ bindings \subseteq Hosts \X Nat
  /\ event \subseteq Hosts \X Nat

\* A handler that an event is still to call is one of an instance that lives, that was
\* torn, or that was destroyed during the event.
CalledHandlersWereBound == \A handler \in event : handler[2] \in Live \cup torn \cup gone

InstancesInv == InstancesTypeOK /\ CalledHandlersWereBound /\ NoHandlerOutlivesItsWidget

\* A step that lets only one instance go: it is destroyed with its handlers, or torn.
LEMMA InstanceGoes ==
  ASSUME InstancesInv, NEW u \in Nat,
         instance' \in [Hosts -> Nat], Live \ {u} \subseteq Live',
         bindings' \subseteq bindings, torn \subseteq torn', gone \subseteq gone',
         u # 0 => \/ u \in torn'
                  \/ u \in gone' /\ \A handler \in bindings' : handler[2] # u
                  \/ u \in Live',
         UNCHANGED << uuid, event, spoken >>
  PROVE  InstancesInv'
<1>1. 0 \notin Live
  BY DEF Live
<1>2. InstancesTypeOK'
  BY DEF InstancesInv, InstancesTypeOK
<1>3. CalledHandlersWereBound'
  BY <1>1 DEF InstancesInv, CalledHandlersWereBound
<1>4. NoHandlerOutlivesItsWidget'
  BY <1>1 DEF InstancesInv, NoHandlerOutlivesItsWidget
<1>5. QED BY <1>2, <1>3, <1>4 DEF InstancesInv

\* The other instances live on.
LEMMA OthersLive ==
  ASSUME InstancesTypeOK, NEW e \in Hosts, instance' = [instance EXCEPT ![e] = 0]
  PROVE  instance' \in [Hosts -> Nat] /\ Live \ {instance[e]} \subseteq Live'
BY DEF InstancesTypeOK, Live

\* _createWidget: the handlers of a new widget are its own.
LEMMA CreateInstanceKeeps ==
  ASSUME InstancesInv, NEW e \in Hosts, CreateInstance(e)
  PROVE  InstancesInv'
<1>1. uuid' \in Nat /\ uuid' # 0 /\ instance' \in [Hosts -> Nat]
  BY DEF CreateInstance, InstancesInv, InstancesTypeOK
<1>2. Live \subseteq Live' /\ uuid' \in Live'
  <2>1. instance'[e] = uuid' /\ \A f \in Hosts \ {e} : instance'[f] = instance[f]
    BY DEF CreateInstance, InstancesInv, InstancesTypeOK
  <2>2. instance[e] = 0
    BY DEF CreateInstance
  <2>3. QED BY <1>1, <2>1, <2>2 DEF Live
<1>3. /\ bindings' \subseteq bindings \cup {<< e, uuid' >>, << Other[e], uuid' >>}
      /\ torn \subseteq torn'
      /\ UNCHANGED << event, gone, spoken >>
  BY DEF CreateInstance
<1>4. << e, uuid' >> \in Hosts \X Nat /\ << Other[e], uuid' >> \in Hosts \X Nat
  BY <1>1, InstancesAssumption DEF InstancesAssumption
<1>5. InstancesTypeOK'
  BY <1>1, <1>3, <1>4 DEF InstancesInv, InstancesTypeOK
<1>6. CalledHandlersWereBound'
  BY <1>2, <1>3 DEF InstancesInv, CalledHandlersWereBound
<1>7. NoHandlerOutlivesItsWidget'
  BY <1>2, <1>3 DEF InstancesInv, NoHandlerOutlivesItsWidget
<1>8. QED BY <1>5, <1>6, <1>7 DEF InstancesInv

\* destroy: the handlers go with the widget, or an exception leaves it torn.
LEMMA DestroyInstanceKeeps ==
  ASSUME InstancesInv, NEW e \in Hosts, DestroyInstance(e)
  PROVE  InstancesInv'
<1>1. instance[e] \in Nat
  BY DEF InstancesInv, InstancesTypeOK
<1>2. CASE bindings' = Unbound(instance[e]) /\ instance' = DataRemoved(e)
           /\ gone' = gone \cup {instance[e]} /\ UNCHANGED torn
  BY <1>1, <1>2, InstanceGoes, OthersLive DEF DestroyInstance, Unbound, DataRemoved, InstancesInv
<1>3. CASE torn' = torn \cup {instance[e]} /\ UNCHANGED << bindings, instance, gone >>
  BY <1>1, <1>3, InstanceGoes DEF DestroyInstance, InstancesInv, InstancesTypeOK, Live
<1>4. QED BY <1>2, <1>3 DEF DestroyInstance

\* $.cleanData: an element that is removed has its widget destroyed.
LEMMA RemoveHostKeeps ==
  ASSUME InstancesInv, NEW e \in Hosts, RemoveHost(e)
  PROVE  InstancesInv'
<1>1. instance[e] \in Nat /\ instance' \in [Hosts -> Nat] /\ Live \ {instance[e]} \subseteq Live'
  BY OthersLive DEF InstancesInv, InstancesTypeOK, RemoveHost
<1>2. /\ bindings' \subseteq bindings /\ torn \subseteq torn' /\ gone \subseteq gone'
      /\ UNCHANGED << uuid, event, spoken >>
  BY DEF RemoveHost, Unbound
<1>3. instance[e] # 0 => \/ instance[e] \in torn'
                         \/ /\ instance[e] \in gone'
                            /\ \A handler \in bindings' : handler[2] # instance[e]
  BY DEF RemoveHost, Unbound
<1>4. QED BY <1>1, <1>2, <1>3, InstanceGoes

\* An event calls the handlers that it found when it began.
LEMMA CallHandlerKeeps ==
  ASSUME InstancesInv, CallHandler
  PROVE  InstancesInv'
<1>1. PICK first \in event : /\ event' = event \ {first}
                             /\ spoken' = IF first[2] \in disabled THEN 0 ELSE first[2]
  BY DEF CallHandler
<1>2. InstancesTypeOK'
  BY <1>1 DEF CallHandler, InstancesInv, InstancesTypeOK
<1>3. CalledHandlersWereBound'
  BY <1>1 DEF CallHandler, InstancesInv, CalledHandlersWereBound, Live
<1>4. spoken' # 0 => spoken' \in Live \cup torn \cup gone
  BY <1>1 DEF InstancesInv, CalledHandlersWereBound
<1>5. NoHandlerOutlivesItsWidget'
  BY <1>4 DEF CallHandler, InstancesInv, NoHandlerOutlivesItsWidget, Live
<1>6. QED BY <1>2, <1>3, <1>5 DEF InstancesInv

\* The invariant holds through every creation, destruction and event.
LEMMA InstancesInvariant == InstancesSpec => []InstancesInv
<1>1. InstancesInit => InstancesInv
  BY DEF InstancesInit, InstancesInv, InstancesTypeOK, CalledHandlersWereBound,
         NoHandlerOutlivesItsWidget
<1>2. ASSUME InstancesInv, [InstancesNext]_ivars PROVE InstancesInv'
  <2>1. ASSUME NEW e \in Hosts, CreateInstance(e) PROVE InstancesInv'
    BY <2>1, <1>2, CreateInstanceKeeps
  <2>2. ASSUME NEW e \in Hosts, ToggleDisabled(e) PROVE InstancesInv'
    BY <2>2, <1>2 DEF ToggleDisabled, InstancesInv, InstancesTypeOK, CalledHandlersWereBound,
                      NoHandlerOutlivesItsWidget, Live
  <2>3. ASSUME NEW e \in Hosts, DestroyInstance(e) PROVE InstancesInv'
    BY <2>3, <1>2, DestroyInstanceKeeps
  <2>4. ASSUME NEW e \in Hosts, RemoveHost(e) PROVE InstancesInv'
    BY <2>4, <1>2, RemoveHostKeeps
  <2>5. ASSUME NEW e \in Hosts, EventOn(e) PROVE InstancesInv'
    BY <2>5, <1>2 DEF EventOn, InstancesInv, InstancesTypeOK, CalledHandlersWereBound,
                      NoHandlerOutlivesItsWidget, Live
  <2>6. CASE CallHandler
    BY <2>6, <1>2, CallHandlerKeeps
  <2>7. CASE UNCHANGED ivars
    BY <2>7, <1>2 DEF ivars, InstancesInv, InstancesTypeOK, CalledHandlersWereBound,
                      NoHandlerOutlivesItsWidget, Live
  <2>8. QED BY <1>2, <2>1, <2>2, <2>3, <2>4, <2>5, <2>6, <2>7 DEF InstancesNext
<1>3. QED BY <1>1, <1>2, PTL DEF InstancesSpec

\* jquery-ui-1.10.2.custom.js:569-593, 667-719.  A handler that is bound or called belongs to a widget
\* that lives, or was torn, for any number of elements and widgets.
THEOREM InstancesTheorem == InstancesSpec => []NoHandlerOutlivesItsWidget
<1>1. InstancesInv => NoHandlerOutlivesItsWidget
  BY DEF InstancesInv
<1>2. QED BY <1>1, InstancesInvariant, PTL

-----------------------------------------------------------------------------
(* Buttons: what a button looks like.                                      *)

\* What the variables hold.
ButtonsTypeOK ==
  /\ page \in Pages
  /\ widgets \subseteq page
  /\ off \subseteq Toggles
  /\ checked \subseteq page \cap Toggles
  /\ lit \subseteq widgets
  /\ lastActive \in Links \cup {Nothing}
  /\ key \in Links \cup {Nothing}
  /\ down \in page \cup {Nothing}
  /\ over \in page \cup {Nothing}
  /\ resets \in Seq(SUBSET Toggles)

\* Toggles that a reset under way is still to refresh.
Awaiting == UNION {resets[i] : i \in DOMAIN resets}

\* A toggle that heard of everything looks like its state.
TogglesLookLikeTheirState ==
  \A t \in (Toggles \cap widgets) \ (unheard \cup Awaiting) : t \in lit <=> t \in checked

\* A link that looks pressed is held by a key, or by the mouse that is still on it, or it
\* missed something; a disabled one missed something.
LinksLookPressed ==
  \A b \in Links \cap lit :
    /\ b = key \/ b \in missed \/ (b = down /\ b = over)
    /\ b \in shut => b \in missed

ButtonsInv ==
  /\ ButtonsTypeOK
  /\ page \cap Radios \subseteq widgets
  /\ TogglesLookLikeTheirState
  /\ LinksLookPressed
  /\ lastActive \in {Nothing, down} \cup missed

\* A radio of the page has all radios of its group beside it, and they are buttons.
LEMMA RefreshedAreButtons ==
  ASSUME ButtonsInv, NEW t \in page \cap Toggles
  PROVE  /\ t \in Refreshed(t) /\ Refreshed(t) \subseteq page \cap Toggles
         /\ t \in widgets => Refreshed(t) \subseteq widgets
BY ButtonsAssumption DEF ButtonsInv, ButtonsTypeOK, Refreshed, ButtonsAssumption

\* A checkbox or radio is no link that looks like a button.
LEMMA LinksAreNoToggles ==
  Links \cap Toggles = {} /\ Nothing \notin Links /\ Nothing \notin Toggles
BY ButtonsAssumption DEF ButtonsAssumption

\* The invariant after a step that changes toggles only, as clicks, resets and refresh do.
LEMMA TogglesStep ==
  ASSUME ButtonsInv,
         NEW seen \in SUBSET (Toggles \cap widgets),
         \* what happened to the toggles of seen only
         lit' \ seen = lit \ seen, lit' \subseteq widgets,
         checked' \subseteq page \cap Toggles,
         \A t \in (Toggles \cap widgets) \ (unheard' \cup Awaiting') :
           t \in lit' <=> t \in checked',
         shut' \ Toggles = shut \ Toggles,
         off' \subseteq Toggles,
         resets' \in Seq(SUBSET Toggles),
         UNCHANGED << page, widgets, lastActive, down, over, key, missed >>
  PROVE  ButtonsInv'
<1>1. ButtonsTypeOK'
  BY DEF ButtonsInv, ButtonsTypeOK
<1>2. TogglesLookLikeTheirState'
  BY DEF TogglesLookLikeTheirState
<1>3. LinksLookPressed'
  BY LinksAreNoToggles DEF ButtonsInv, LinksLookPressed
<1>4. QED BY <1>1, <1>2, <1>3 DEF ButtonsInv

\* A click or a key changes the control, and its handlers the looks.
LEMMA ChangedLooks ==
  ASSUME ButtonsInv, NEW t \in page \cap Toggles, Changed(t), UNCHANGED << widgets, resets >>
  PROVE  /\ lit' \ (Refreshed(t) \cap widgets) = lit \ (Refreshed(t) \cap widgets)
         /\ lit' \subseteq widgets
         /\ checked' \subseteq page \cap Toggles
         /\ \A u \in (Toggles \cap widgets) \ (unheard' \cup Awaiting') :
              u \in lit' <=> u \in checked'
         /\ shut' \ Toggles = shut \ Toggles
<1>1. Clicking(t) \ Refreshed(t) = checked \ Refreshed(t) /\ Clicking(t) \subseteq page \cap Toggles
  BY DEF Clicking, Refreshed, ButtonsInv, ButtonsTypeOK
<1>2. Awaiting' = Awaiting
  BY DEF Awaiting
<1>3. CASE t \in widgets /\ Refresh(t, Clicking(t))
  <2>1. Refreshed(t) \subseteq widgets
    BY <1>3, RefreshedAreButtons
  <2>2. \A u \in (Toggles \cap widgets) \ (unheard' \cup Awaiting') : u \in lit' <=> u \in checked'
    BY <1>1, <1>2, <1>3 DEF Changed, Refresh, ButtonsInv, TogglesLookLikeTheirState
  <2>3. lit' \subseteq widgets
    BY <2>1, <1>3 DEF Refresh, ButtonsInv, ButtonsTypeOK
  <2>4. QED BY <1>1, <1>3, <2>1, <2>2, <2>3 DEF Changed, Refresh
<1>4. CASE /\ UNCHANGED << lit, shut >>
           /\ unheard' = IF Clicking(t) # checked THEN unheard \cup Refreshed(t) ELSE unheard
  BY <1>1, <1>2, <1>4 DEF Changed, ButtonsInv, ButtonsTypeOK, TogglesLookLikeTheirState
<1>5. QED BY <1>3, <1>4 DEF Changed

\* A key changes a control.
LEMMA KeyToggleKeeps ==
  ASSUME ButtonsInv, NEW t \in page \cap Toggles, KeyToggle(t)
  PROVE  ButtonsInv'
<1>1. Refreshed(t) \cap widgets \in SUBSET (Toggles \cap widgets)
  BY RefreshedAreButtons
<1>2. Changed(t) /\ UNCHANGED << page, widgets, off, lastActive, down, over, key, resets, missed >>
  BY DEF KeyToggle
<1>3. off \subseteq Toggles /\ resets \in Seq(SUBSET Toggles)
  BY DEF ButtonsInv, ButtonsTypeOK
<1>4. QED BY <1>1, <1>2, <1>3, ChangedLooks, TogglesStep

\* A script refreshes a button.
LEMMA RefreshButtonKeeps ==
  ASSUME ButtonsInv, NEW t \in page \cap Toggles, RefreshButton(t)
  PROVE  ButtonsInv'
<1>1. Refreshed(t) \in SUBSET (Toggles \cap widgets)
  BY RefreshedAreButtons DEF RefreshButton
<1>2. UNCHANGED << page, widgets, off, checked, lastActive, down, over, key, resets, missed >>
  BY DEF RefreshButton
<1>3. off \subseteq Toggles /\ resets \in Seq(SUBSET Toggles) /\ checked \subseteq page \cap Toggles
  BY DEF ButtonsInv, ButtonsTypeOK
<1>4. lit' \ Refreshed(t) = lit \ Refreshed(t) /\ lit' \subseteq widgets
      /\ shut' \ Toggles = shut \ Toggles
  BY <1>1 DEF RefreshButton, Refresh, ButtonsInv, ButtonsTypeOK
<1>5. \A u \in (Toggles \cap widgets) \ (unheard' \cup Awaiting') : u \in lit' <=> u \in checked'
  BY <1>2 DEF RefreshButton, Refresh, ButtonsInv, TogglesLookLikeTheirState, Awaiting
<1>6. QED BY <1>1, <1>2, <1>3, <1>4, <1>5, TogglesStep

\* The form is reset.
LEMMA ResetFormKeeps ==
  ASSUME ButtonsInv, ResetForm
  PROVE  ButtonsInv'
<1>1. resets \in Seq(SUBSET Toggles) /\ widgets \cap Toggles \in SUBSET Toggles
  BY DEF ButtonsInv, ButtonsTypeOK
<1>2. /\ resets' \in Seq(SUBSET Toggles) /\ Len(resets') = Len(resets) + 1
      /\ resets'[Len(resets) + 1] = widgets \cap Toggles
  BY <1>1 DEF ResetForm
<1>3. widgets \cap Toggles \subseteq Awaiting'
  BY <1>1, <1>2 DEF Awaiting
<1>4. {} \in SUBSET (Toggles \cap widgets)
  OBVIOUS
<1>5. lit' \ {} = lit \ {} /\ lit' \subseteq widgets /\ checked' \subseteq page \cap Toggles
      /\ shut' \ Toggles = shut \ Toggles /\ off' \subseteq Toggles
      /\ UNCHANGED << page, widgets, lastActive, down, over, key, missed >>
  BY DEF ResetForm, ButtonsInv, ButtonsTypeOK
<1>6. \A t \in (Toggles \cap widgets) \ (unheard' \cup Awaiting') : t \in lit' <=> t \in checked'
  BY <1>3
<1>7. QED BY <1>2, <1>4, <1>5, <1>6, TogglesStep

\* The buttons hear of the reset.
LEMMA ResetTimeoutKeeps ==
  ASSUME ButtonsInv, ResetTimeout
  PROVE  ButtonsInv'
<1> DEFINE ts   == UpToDestroyed(Head(resets))
           seen == UNION {Refreshed(t) : t \in ts}
<1>1. resets \in Seq(SUBSET Toggles) /\ resets # << >>
  BY DEF ResetTimeout, ButtonsInv, ButtonsTypeOK
<1>2. /\ Head(resets) \subseteq Toggles /\ resets' \in Seq(SUBSET Toggles)
      /\ Awaiting \subseteq Head(resets) \cup Awaiting'
  <2>1. resets' = Tail(resets)
    BY DEF ResetTimeout
  <2>2. \A i \in DOMAIN resets :
          i = 1 \/ (i - 1 \in DOMAIN resets' /\ resets'[i - 1] = resets[i])
    <3>1. /\ resets' \in Seq(SUBSET Toggles) /\ Len(resets') = Len(resets) - 1
          /\ \A i \in 1..Len(resets') : resets'[i] = resets[i + 1]
      BY <1>1, <2>1, HeadTailProperties
    <3>2. DOMAIN resets = 1..Len(resets) /\ DOMAIN resets' = 1..Len(resets') /\ Len(resets) \in Nat
      BY <1>1, <3>1, LenProperties
    <3>3. QED BY <3>1, <3>2
  <2>3. QED BY <1>1, <2>1, <2>2 DEF Awaiting
<1>3. ts \subseteq Toggles \cap widgets
  <2>1. SUFFICES ASSUME NEW n \in DOMAIN FormOrder,
                        \A i \in 1..n : FormOrder[i] \in Head(resets) => FormOrder[i] \in widgets,
                        FormOrder[n] \in Head(resets)
                 PROVE  FormOrder[n] \in Toggles \cap widgets
    BY DEF UpToDestroyed
  <2>2. n \in 1..n
    BY ButtonsAssumption DEF ButtonsAssumption
  <2>3. QED BY <1>2, <2>1, <2>2
<1>4. seen \in SUBSET (Toggles \cap widgets)
  <2>1. ts \subseteq page \cap Toggles
    BY <1>3 DEF ButtonsInv, ButtonsTypeOK
  <2> HIDE DEF ts
  <2>2. QED BY <1>3, <2>1, RefreshedAreButtons
<1>5. /\ lit' = (lit \ seen) \cup (seen \cap checked)
      /\ shut' = (shut \ ts) \cup (ts \cap off)
      /\ unheard' = (unheard \cup Head(resets)) \ seen
      /\ UNCHANGED << page, widgets, off, checked, lastActive, down, over, key, missed >>
  BY DEF ResetTimeout
<1> HIDE DEF ts, seen
<1>6. /\ lit' \ seen = lit \ seen /\ lit' \subseteq widgets /\ checked' \subseteq page \cap Toggles
      /\ shut' \ Toggles = shut \ Toggles /\ off' \subseteq Toggles
  BY <1>3, <1>4, <1>5 DEF ButtonsInv, ButtonsTypeOK
<1>7. \A t \in (Toggles \cap widgets) \ (unheard' \cup Awaiting') : t \in lit' <=> t \in checked'
  BY <1>2, <1>5 DEF ButtonsInv, TogglesLookLikeTheirState
<1>8. QED BY <1>2, <1>4, <1>5, <1>6, <1>7, TogglesStep

\* The release of the mouse over a label clicks its control.
LEMMA ClickLabelLooks ==
  ASSUME ButtonsInv, NEW t \in page \cap Toggles, ClickLabel(t), UNCHANGED << widgets, resets >>
  PROVE  /\ lit' \ (Refreshed(t) \cap widgets) = lit \ (Refreshed(t) \cap widgets)
         /\ lit' \subseteq widgets
         /\ checked' \subseteq page \cap Toggles
         /\ \A u \in (Toggles \cap widgets) \ (unheard' \cup Awaiting') :
              u \in lit' <=> u \in checked'
         /\ shut' \ Toggles = shut \ Toggles
<1>1. CASE Changed(t)
  BY <1>1, ChangedLooks
<1>2. Awaiting' = Awaiting
  BY DEF Awaiting
<1>3. CASE UNCHANGED << checked, lit, shut, unheard >>
  BY <1>2, <1>3 DEF ButtonsInv, ButtonsTypeOK, TogglesLookLikeTheirState
<1>4. CASE /\ t \in widgets
           /\ lit' = IF t \in Radios THEN (lit \ Radios) \cup {t} ELSE lit
           /\ unheard' = IF t \in Radios THEN unheard \cup Radios ELSE unheard
           /\ UNCHANGED << checked, shut >>
  <2>1. t \in Radios => Refreshed(t) = Radios /\ Radios \subseteq widgets
    BY <1>4, RefreshedAreButtons DEF Refreshed
  <2>2. QED BY <1>2, <1>4, <2>1 DEF ButtonsInv, ButtonsTypeOK, TogglesLookLikeTheirState
<1>5. QED BY <1>1, <1>3, <1>4 DEF ClickLabel

\* The invariant after a step that changes neither the state of toggles nor what they
\* heard, nor the look of any.
LEMMA LinksStep ==
  ASSUME ButtonsInv, ButtonsTypeOK', LinksLookPressed',
         page \cap Radios \subseteq widgets',
         lastActive' \in {Nothing, down'} \cup missed',
         lit' \cap Toggles = lit \cap widgets' \cap Toggles,
         widgets' \cap Toggles \subseteq widgets,
         UNCHANGED << page, checked, unheard, resets >>
  PROVE  ButtonsInv'
<1>1. TogglesLookLikeTheirState'
  BY DEF ButtonsInv, TogglesLookLikeTheirState, Awaiting
<1>2. QED BY <1>1 DEF ButtonsInv

\* mousedown on a button or a label.
LEMMA MouseDownKeeps ==
  ASSUME ButtonsInv, MouseDown
  PROVE  ButtonsInv'
<1>1. ButtonsTypeOK'
  BY DEF MouseDown, ButtonsInv, ButtonsTypeOK, Enabled
<1>2. LinksLookPressed'
  BY LinksAreNoToggles DEF MouseDown, ButtonsInv, LinksLookPressed, Enabled
<1>3. lastActive' \in {Nothing, down'} \cup missed'
  BY DEF MouseDown, ButtonsInv
<1>4. lit' \cap Toggles = lit \cap widgets' \cap Toggles
  BY LinksAreNoToggles DEF MouseDown, ButtonsInv, ButtonsTypeOK
<1>5. QED BY <1>1, <1>2, <1>3, <1>4, LinksStep DEF MouseDown, ButtonsInv

\* mouseenter and mouseleave.
LEMMA MouseMoveKeeps ==
  ASSUME ButtonsInv, MouseMove
  PROVE  ButtonsInv'
<1> DEFINE entered == {b \in {over'} \cap Links : Enabled(b) /\ lastActive = b}
<1>1. over' \in page \cup {Nothing}
      /\ UNCHANGED << page, widgets, off, shut, checked, lastActive, down, key, resets, unheard, missed >>
  BY DEF MouseMove
<1>2. lit' = IF over' = over THEN lit ELSE Left \cup entered
  BY DEF MouseMove
<1>3. Left \subseteq lit /\ entered \subseteq widgets \cap Links
  BY DEF Left, Enabled
<1>4. ButtonsTypeOK'
  BY <1>1, <1>2, <1>3 DEF ButtonsInv, ButtonsTypeOK
<1>5. LinksLookPressed'
  <2>1. SUFFICES ASSUME NEW b \in Links, b \in lit', over' # over
                 PROVE  /\ b = key \/ b \in missed \/ (b = down /\ b = over')
                        /\ b \in shut => b \in missed
    BY <1>1, <1>2 DEF ButtonsInv, LinksLookPressed
  <2>2. CASE b \in entered
    BY <2>2, LinksAreNoToggles DEF ButtonsInv, Enabled
  <2>3. CASE b \in Left /\ b # over
    BY <2>3, <1>3 DEF ButtonsInv, LinksLookPressed
  <2>4. CASE b \in Left /\ b = over
    BY <2>4, <1>3 DEF ButtonsInv, ButtonsTypeOK, LinksLookPressed, Left, Enabled
  <2>5. QED BY <1>2, <2>1, <2>2, <2>3, <2>4
<1>6. lit' \cap Toggles = lit \cap widgets' \cap Toggles
  BY <1>1, <1>2, LinksAreNoToggles DEF Left, ButtonsInv, ButtonsTypeOK
<1>7. QED BY <1>1, <1>4, <1>5, <1>6, LinksStep DEF ButtonsInv

\* The button of the mouse is let go outside of the window.
LEMMA MouseLostKeeps ==
  ASSUME ButtonsInv, MouseLost
  PROVE  ButtonsInv'
<1>1. ButtonsTypeOK'
  BY DEF MouseLost, ButtonsInv, ButtonsTypeOK
<1>2. LinksLookPressed'
  BY DEF MouseLost, ButtonsInv, LinksLookPressed
<1>3. lastActive' \in {Nothing, down'} \cup missed'
  BY DEF MouseLost, ButtonsInv, ButtonsTypeOK
<1>4. lit' \cap Toggles = lit \cap widgets' \cap Toggles
  BY DEF MouseLost, ButtonsInv, ButtonsTypeOK
<1>5. QED BY <1>1, <1>2, <1>3, <1>4, LinksStep DEF MouseLost, ButtonsInv

\* keydown on a link.
LEMMA KeyPressedKeeps ==
  ASSUME ButtonsInv, NEW b \in page \cap Links, KeyPressed(b)
  PROVE  ButtonsInv'
<1>1. ButtonsTypeOK'
  BY DEF KeyPressed, ButtonsInv, ButtonsTypeOK, Enabled
<1>2. LinksLookPressed'
  BY LinksAreNoToggles DEF KeyPressed, ButtonsInv, LinksLookPressed, Enabled
<1>3. lit' \cap Toggles = lit \cap widgets' \cap Toggles
  BY LinksAreNoToggles DEF KeyPressed, ButtonsInv, ButtonsTypeOK
<1>4. QED BY <1>1, <1>2, <1>3, LinksStep DEF KeyPressed, ButtonsInv

\* keyup and blur.
LEMMA KeyReleasedKeeps ==
  ASSUME ButtonsInv, KeyReleased
  PROVE  ButtonsInv'
<1>1. ButtonsTypeOK'
  BY DEF KeyReleased, ButtonsInv, ButtonsTypeOK
<1>2. key \in Links
  BY DEF KeyReleased, ButtonsInv, ButtonsTypeOK
<1>3. LinksLookPressed'
  BY <1>2 DEF KeyReleased, ButtonsInv, ButtonsTypeOK, LinksLookPressed
<1>4. lit' \cap Toggles = lit \cap widgets' \cap Toggles
  BY <1>2, LinksAreNoToggles DEF KeyReleased, ButtonsInv, ButtonsTypeOK
<1>5. QED BY <1>1, <1>3, <1>4, LinksStep DEF KeyReleased, ButtonsInv

\* mouseup, and the click that follows.
LEMMA MouseUpKeeps ==
  ASSUME ButtonsInv, MouseUp
  PROVE  ButtonsInv'
<1>1. /\ down # Nothing /\ down' = Nothing
      /\ UNCHANGED << page, widgets, off, over, key, resets >>
  BY DEF MouseUp
<1>2. missed \subseteq missed' /\ lastActive' \in {Nothing} \cup missed'
      /\ lastActive' \in {lastActive, Nothing}
  BY DEF MouseUp
<1>3. over \in Links \cap widgets /\ over \in shut => over \in missed'
  BY LinksAreNoToggles DEF MouseUp
<1>4. CASE over \in Toggles /\ over = down
  <2>1. over \in page \cap Toggles
    BY <1>4, LinksAreNoToggles DEF ButtonsInv, ButtonsTypeOK
  <2>2. ClickLabel(over)
    BY <1>4 DEF MouseUp
  <2>3. /\ lit' \ (Refreshed(over) \cap widgets) = lit \ (Refreshed(over) \cap widgets)
        /\ lit' \subseteq widgets
        /\ checked' \subseteq page \cap Toggles
        /\ \A u \in (Toggles \cap widgets) \ (unheard' \cup Awaiting') :
             u \in lit' <=> u \in checked'
        /\ shut' \ Toggles = shut \ Toggles
    BY <1>1, <2>1, <2>2, ClickLabelLooks
  <2>4. Refreshed(over) \subseteq Toggles
    BY <2>1, RefreshedAreButtons
  <2>5. ButtonsTypeOK'
    BY <1>1, <1>2, <2>3 DEF ButtonsInv, ButtonsTypeOK
  <2>6. TogglesLookLikeTheirState'
    BY <1>1, <2>3 DEF TogglesLookLikeTheirState
  <2>7. LinksLookPressed'
    BY <1>1, <1>2, <1>4, <2>3, <2>4, LinksAreNoToggles DEF ButtonsInv, LinksLookPressed
  <2>8. QED BY <1>1, <1>2, <2>5, <2>6, <2>7 DEF ButtonsInv
<1>5. CASE ~(over \in Toggles /\ over = down)
  <2>1. /\ lit' = IF over \in Links /\ Enabled(over) THEN lit \ {over} ELSE lit
        /\ UNCHANGED << checked, shut, unheard >>
    BY <1>5 DEF MouseUp
  <2>2. ButtonsTypeOK'
    BY <1>1, <1>2, <2>1 DEF ButtonsInv, ButtonsTypeOK
  <2>3. LinksLookPressed'
    BY <1>1, <1>2, <1>3, <2>1 DEF ButtonsInv, ButtonsTypeOK, LinksLookPressed, Enabled
  <2>4. lit' \cap Toggles = lit \cap widgets' \cap Toggles
    BY <1>1, <2>1, LinksAreNoToggles DEF ButtonsInv, ButtonsTypeOK
  <2>5. QED BY <1>1, <1>2, <2>1, <2>2, <2>3, <2>4, LinksStep DEF ButtonsInv
<1>6. QED BY <1>4, <1>5

\* The option disabled is set.
LEMMA DisableButtonKeeps ==
  ASSUME ButtonsInv, NEW b \in page, DisableButton(b)
  PROVE  ButtonsInv'
<1>1. ButtonsTypeOK'
  BY DEF DisableButton, ButtonsInv, ButtonsTypeOK
<1>2. LinksLookPressed'
  BY DEF DisableButton, ButtonsInv, LinksLookPressed
<1>3. lit' \cap Toggles = lit \cap widgets' \cap Toggles
  BY DEF DisableButton, ButtonsInv, ButtonsTypeOK
<1>4. lastActive' \in {Nothing, down'} \cup missed'
  BY DEF DisableButton, ButtonsInv
<1>5. QED BY <1>1, <1>2, <1>3, <1>4, LinksStep DEF DisableButton, ButtonsInv

\* A script sets the property disabled of a control.
LEMMA DisableControlKeeps ==
  ASSUME ButtonsInv, NEW t \in Toggles, DisableControl(t)
  PROVE  ButtonsInv'
<1>1. ButtonsTypeOK'
  BY DEF DisableControl, ButtonsInv, ButtonsTypeOK
<1>2. LinksLookPressed'
  BY DEF DisableControl, ButtonsInv, LinksLookPressed
<1>3. lit' \cap Toggles = lit \cap widgets' \cap Toggles
  BY DEF DisableControl, ButtonsInv, ButtonsTypeOK
<1>4. QED BY <1>1, <1>2, <1>3, LinksStep DEF DisableControl, ButtonsInv

\* destroy of a button.
LEMMA DestroyButtonKeeps ==
  ASSUME ButtonsInv, NEW b \in page \ Radios, DestroyButton(b)
  PROVE  ButtonsInv'
<1>1. ButtonsTypeOK'
  BY DEF DestroyButton, ButtonsInv, ButtonsTypeOK
<1>2. LinksLookPressed'
  BY DEF DestroyButton, ButtonsInv, LinksLookPressed
<1>3. lit' \cap Toggles = lit \cap widgets' \cap Toggles
  BY DEF DestroyButton, ButtonsInv, ButtonsTypeOK
<1>4. QED BY <1>1, <1>2, <1>3, LinksStep DEF DestroyButton, ButtonsInv

\* A button is created again.
LEMMA CreateButtonKeeps ==
  ASSUME ButtonsInv, NEW b \in page \ Radios, CreateButton(b)
  PROVE  ButtonsInv'
<1>1. ButtonsTypeOK'
  BY DEF CreateButton, ButtonsInv, ButtonsTypeOK
<1>2. b \notin lit
  BY DEF CreateButton, ButtonsInv, ButtonsTypeOK
<1>3. b \in Links => lit' = lit /\ shut' = shut
  BY LinksAreNoToggles DEF CreateButton, ButtonsInv, ButtonsTypeOK
<1>4. b \notin Links => lit' \cap Links = lit \cap Links /\ shut' \cap Links = shut \cap Links
  BY DEF CreateButton
<1>5. LinksLookPressed'
  BY <1>3, <1>4 DEF CreateButton, ButtonsInv, LinksLookPressed
<1>6. TogglesLookLikeTheirState'
  BY <1>2 DEF CreateButton, ButtonsInv, TogglesLookLikeTheirState, Awaiting
<1>7. QED BY <1>1, <1>5, <1>6 DEF CreateButton, ButtonsInv

\* The invariant holds through every event, reset and call.
LEMMA ButtonsInvariant == ButtonsSpec => []ButtonsInv
<1>1. ButtonsInit => ButtonsInv
  <2>1. ASSUME ButtonsInit PROVE ButtonsInv
    <3>1. ButtonsTypeOK /\ page \cap Radios \subseteq widgets
      BY <2>1 DEF ButtonsInit, ButtonsTypeOK
    <3>2. LinksLookPressed /\ TogglesLookLikeTheirState
      BY <2>1, LinksAreNoToggles DEF ButtonsInit, LinksLookPressed, TogglesLookLikeTheirState
    <3>3. QED BY <2>1, <3>1, <3>2 DEF ButtonsInit, ButtonsInv
  <2>2. QED BY <2>1
<1>2. ASSUME ButtonsInv, [ButtonsNext]_bvars PROVE ButtonsInv'
  <2>1. CASE MouseDown \/ MouseMove \/ MouseUp \/ MouseLost \/ KeyReleased
    BY <2>1, <1>2, MouseDownKeeps, MouseMoveKeeps, MouseUpKeeps, MouseLostKeeps, KeyReleasedKeeps
  <2>2. CASE ResetForm \/ ResetTimeout
    BY <2>2, <1>2, ResetFormKeeps, ResetTimeoutKeeps
  <2>3. CASE \E t \in page \cap Toggles : KeyToggle(t) \/ RefreshButton(t)
    BY <2>3, <1>2, KeyToggleKeeps, RefreshButtonKeeps
  <2>4. CASE \E b \in page \cap Links : KeyPressed(b)
    BY <2>4, <1>2, KeyPressedKeeps
  <2>5. CASE \E b \in page \cap Disabling : DisableButton(b)
    BY <2>5, <1>2, DisableButtonKeeps
  <2>6. CASE \E t \in page \cap Disabling \cap Toggles : DisableControl(t)
    BY <2>6, <1>2, DisableControlKeeps
  <2>7. CASE \E b \in page \ Radios : DestroyButton(b) \/ CreateButton(b)
    BY <2>7, <1>2, DestroyButtonKeeps, CreateButtonKeeps
  <2>8. CASE UNCHANGED bvars
    BY <2>8, <1>2 DEF bvars, ButtonsInv, ButtonsTypeOK, TogglesLookLikeTheirState,
                      LinksLookPressed, Awaiting
  <2>9. QED BY <1>2, <2>1, <2>2, <2>3, <2>4, <2>5, <2>6, <2>7, <2>8 DEF ButtonsNext
<1>3. QED BY <1>1, <1>2, PTL DEF ButtonsSpec

\* jquery-ui-1.10.2.custom.js:3347-3350, 3450-3535.  Buttons look like their state, for any page of
\* checkboxes, radios and links.
THEOREM ButtonsTheorem == ButtonsSpec => []LooksFollowState
<1>1. ButtonsInv => LooksFollowState
  <2>1. ASSUME ButtonsInv, resets = << >> PROVE Awaiting = {}
    BY <2>1 DEF Awaiting
  <2>2. ButtonsInv => \A b \in Links \cap widgets : b \in lit => b \in {down, key} \cup missed
    BY DEF ButtonsInv, LinksLookPressed
  <2>3. ASSUME ButtonsInv, resets = << >>
        PROVE  \A t \in (Toggles \cap widgets) \ unheard : t \in lit <=> t \in checked
    BY <2>1, <2>3 DEF ButtonsInv, TogglesLookLikeTheirState
  <2>4. QED BY <2>2, <2>3 DEF LooksFollowState
<1>2. QED BY <1>1, ButtonsInvariant, PTL

-----------------------------------------------------------------------------
(* SortableTables: what the arrows say of the rows.                        *)

\* MarksTellTheOrder of any table.
TellsTheOrder(t) ==
  \A c \in Columns :
    LET f     == t.sortfunction[c]
        order == IF t.mark[c] = "sorted" THEN t.order ELSE Reverse(t.order)
    IN  (/\ t.mark[c] # "none"
         /\ \A r \in ToSet(order) : Comparable(f, InnerText(r, c)))
           => InAscendingOrder(order, f, c)

\* A table by its parts, with one header at most that is marked as sorted, and none
\* before the table is ready.
TableInv(t) ==
  /\ DOMAIN t = {"order", "hidden", "stripe", "mark", "arrows", "sortfunction", "done",
                 "selectable", "count", "checked"}
  /\ t.mark \in [Columns -> {"none", "sorted", "sorted_reverse"}]
  /\ t.done => t.order \in Seq(BodyRows)
  /\ \A c \in Columns : t.mark[c] # "none" =>
       t.done /\ \A d \in Columns : t.mark[d] # "none" => d = c
  /\ TellsTheOrder(t)

\* reverse of the body's rows, once and again.
LEMMA ReverseTwice ==
  ASSUME NEW S, NEW rows \in Seq(S)
  PROVE  Reverse(rows) \in Seq(S) /\ Reverse(Reverse(rows)) = rows
<1> DEFINE n == Len(rows)
           r == Reverse(rows)
<1>1. n \in Nat /\ DOMAIN rows = 1..n /\ \A i \in 1..n : rows[i] \in S
  OBVIOUS
<1>2. r = [i \in 1..n |-> rows[(n - i) + 1]]
  BY DEF Reverse
<1> HIDE DEF n, r
<1>3. \A i \in 1..n : (n - i) + 1 \in 1..n /\ (n - ((n - i) + 1)) + 1 = i
  BY <1>1
<1>4. r \in Seq(S) /\ Len(r) = n
  BY <1>1, <1>2, <1>3
<1>5. Reverse(r) = [i \in 1..n |-> r[(n - i) + 1]]
  BY <1>4 DEF Reverse
<1>6. Reverse(r) = [i \in 1..n |-> rows[i]]
  BY <1>2, <1>3, <1>5
<1>7. rows = [i \in 1..n |-> rows[i]]
  BY <1>1
<1>8. QED BY <1>4, <1>6, <1>7 DEF r

\* Any order of the body's rows is a sequence of them.
LEMMA OrdersAreSequences == SetToSeqs(BodyRows) \subseteq Seq(BodyRows)
<1>1. IsFiniteSet(BodyRows)
  BY TablesAssumption, FS_Subset DEF TablesAssumption, BodyRows
<1>2. Cardinality(BodyRows) \in Nat
  BY <1>1, FS_CardinalityType
<1>3. QED BY <1>2 DEF SetToSeqs

\* What the marks tell depends on the order, the marks and the sort functions only.
LEMMA OtherPartsDoNotMatter ==
  ASSUME NEW t, TableInv(t), NEW u, DOMAIN u = DOMAIN t,
         u.mark = t.mark, u.order = t.order, u.done = t.done, u.sortfunction = t.sortfunction
  PROVE  TableInv(u)
BY DEF TableInv, TellsTheOrder

\* updateRowColoring changes the classes of rows only.
LEMMA ColoringKeeps ==
  ASSUME NEW t, "stripe" \in DOMAIN t
  PROVE  LET u == UpdateRowColoring(t)
         IN  /\ DOMAIN u = DOMAIN t
             /\ \A x \in DOMAIN t \ {"stripe"} : u[x] = t[x]
BY DEF UpdateRowColoring

\* The filter hides rows.
LEMMA KeyUpKeeps ==
  ASSUME NEW t, TableInv(t), NEW words
  PROVE  TableInv(KeyUp(t, words))
<1> DEFINE u == FilterRows(t, words)
           v == UpdateRowColoring(u)
<1>1. DOMAIN u = DOMAIN t /\ \A x \in DOMAIN t \ {"hidden"} : u[x] = t[x]
  BY DEF FilterRows
<1> HIDE DEF u
<1>2. DOMAIN v = DOMAIN u /\ \A x \in DOMAIN u \ {"stripe"} : v[x] = u[x]
  BY <1>1, ColoringKeeps DEF TableInv
<1>3. KeyUp(t, words) = v
  BY DEF KeyUp, u
<1> HIDE DEF v
<1>4. QED BY <1>1, <1>2, <1>3, OtherPartsDoNotMatter DEF TableInv

\* sorttable.init: no header is marked yet.
LEMMA InitTableKeeps ==
  ASSUME NEW t, TableInv(t), NEW u \in InitTable(t)
  PROVE  TableInv(u)
<1>1. CASE t.done
  BY <1>1 DEF InitTable
<1>2. CASE ~t.done
  <2>1. PICK v \in MakeSortable(t) : u = [v EXCEPT !.done = TRUE]
    BY <1>2 DEF InitTable
  <2>2. PICK order \in BodyOrders(t.order) : \E f :
          v = [t EXCEPT !.order = order, !.sortfunction = f]
    BY <2>1 DEF MakeSortable
  <2>3. order \in Seq(BodyRows)
    BY <2>2, OrdersAreSequences DEF BodyOrders
  <2>4. /\ DOMAIN u = DOMAIN t /\ u.mark = t.mark /\ u.order = order
    BY <2>1, <2>2 DEF TableInv
  <2>5. \A c \in Columns : u.mark[c] = "none"
    BY <1>2, <2>4 DEF TableInv
  <2>6. QED BY <2>3, <2>4, <2>5 DEF TableInv, TellsTheOrder
<1>3. QED BY <1>1, <1>2

\* A click on the header that is sorted by: the other order.
LEMMA ReverseTableKeeps ==
  ASSUME NEW t, TableInv(t), NEW c \in Columns, t.mark[c] # "none"
  PROVE  TableInv(ReverseTable(t, c))
<1> DEFINE other    == IF t.mark[c] = "sorted" THEN "sorted_reverse" ELSE "sorted"
           u        == ReverseTable(t, c)
<1>1. PICK a : u = UpdateRowColoring([t EXCEPT !.order = Reverse(@), !.mark[c] = other, !.arrows = a])
  BY DEF ReverseTable
<1> DEFINE v == [t EXCEPT !.order = Reverse(@), !.mark[c] = other, !.arrows = a]
<1>2. /\ DOMAIN v = DOMAIN t /\ v.order = Reverse(t.order) /\ v.done = t.done
      /\ v.sortfunction = t.sortfunction /\ v.mark = [t.mark EXCEPT ![c] = other]
  BY DEF TableInv
<1>3. DOMAIN u = DOMAIN v /\ \A x \in DOMAIN v \ {"stripe"} : u[x] = v[x]
  <2>1. u = UpdateRowColoring(v) /\ "stripe" \in DOMAIN v
    BY <1>1, <1>2 DEF TableInv
  <2> HIDE DEF u, v
  <2>2. QED BY <2>1, ColoringKeeps
<1> HIDE DEF u, v, other
<1>4. /\ DOMAIN u = DOMAIN t /\ u.order = Reverse(t.order) /\ u.done = t.done
      /\ u.sortfunction = t.sortfunction /\ u.mark = [t.mark EXCEPT ![c] = other]
  BY <1>2, <1>3 DEF TableInv
<1>5. /\ t.done /\ t.order \in Seq(BodyRows)
      /\ \A d \in Columns : t.mark[d] # "none" => d = c
  BY DEF TableInv
<1>6. Reverse(t.order) \in Seq(BodyRows) /\ Reverse(Reverse(t.order)) = t.order
  BY <1>5, ReverseTwice
<1>7. /\ u.mark \in [Columns -> {"none", "sorted", "sorted_reverse"}]
      /\ u.mark[c] = other /\ \A d \in Columns \ {c} : u.mark[d] = "none"
  BY <1>4, <1>5 DEF TableInv, other
<1>8. (IF u.mark[c] = "sorted" THEN u.order ELSE Reverse(u.order))
        = (IF t.mark[c] = "sorted" THEN t.order ELSE Reverse(t.order))
  BY <1>4, <1>6, <1>7 DEF other
<1>9. TellsTheOrder(u)
  <2>1. SUFFICES ASSUME NEW d \in Columns, u.mark[d] # "none",
                        \A r \in ToSet(IF u.mark[d] = "sorted" THEN u.order ELSE Reverse(u.order)) :
                          Comparable(u.sortfunction[d], InnerText(r, d))
                 PROVE  InAscendingOrder(IF u.mark[d] = "sorted" THEN u.order ELSE Reverse(u.order),
                                         u.sortfunction[d], d)
    BY DEF TellsTheOrder
  <2>2. d = c
    BY <1>7, <2>1
  <2>3. QED BY <1>4, <1>8, <2>1, <2>2 DEF TableInv, TellsTheOrder
<1>10. TableInv(u)
  BY <1>4, <1>5, <1>6, <1>7, <1>9 DEF TableInv
<1>11. QED BY <1>10 DEF u

\* A click on another header: its column is sorted by, unless its sort function fails.
LEMMA SortRowsKeeps ==
  ASSUME NEW t, TableInv(t), t.done, NEW c \in Columns, NEW u \in SortRows(t, c)
  PROVE  TableInv(u)
<1> DEFINE marked == MarkSorted(t, c)
           f      == t.sortfunction[c]
<1>1. /\ DOMAIN marked = DOMAIN t /\ marked.order = t.order /\ marked.done = t.done
      /\ marked.sortfunction = t.sortfunction
      /\ marked.mark = [d \in Columns |-> IF d = c THEN "sorted" ELSE "none"]
  BY DEF MarkSorted, TableInv
<1> HIDE DEF marked
<1>2. CASE u = marked /\ \E r \in ToSet(t.order) : ~Comparable(f, InnerText(r, c))
  <2>1. \A d \in Columns : u.mark[d] = IF d = c THEN "sorted" ELSE "none"
    BY <1>1, <1>2
  <2>2. TellsTheOrder(u)
    BY <1>1, <1>2, <2>1 DEF TellsTheOrder
  <2>3. u.mark \in [Columns -> {"none", "sorted", "sorted_reverse"}]
    BY <1>1, <1>2
  <2>4. QED BY <1>1, <1>2, <2>1, <2>2, <2>3 DEF TableInv
<1>3. ASSUME NEW order \in SetToSeqs(BodyRows), InAscendingOrder(order, f, c),
             u = UpdateRowColoring([marked EXCEPT !.order = order])
      PROVE  TableInv(u)
  <2> DEFINE v == [marked EXCEPT !.order = order]
  <2>1. /\ DOMAIN v = DOMAIN t /\ v.order = order /\ v.done = t.done
        /\ v.sortfunction = t.sortfunction /\ v.mark = marked.mark
    BY <1>1 DEF TableInv
  <2>2. DOMAIN u = DOMAIN v /\ \A x \in DOMAIN v \ {"stripe"} : u[x] = v[x]
    <3>1. u = UpdateRowColoring(v) /\ "stripe" \in DOMAIN v
      BY <1>3, <2>1 DEF TableInv
    <3> HIDE DEF v
    <3>2. QED BY <3>1, ColoringKeeps
  <2> HIDE DEF v
  <2>3. /\ DOMAIN u = DOMAIN t /\ u.order = order /\ u.done = t.done
        /\ u.sortfunction = t.sortfunction /\ u.mark = marked.mark
    BY <2>1, <2>2 DEF TableInv
  <2>4. order \in Seq(BodyRows)
    BY OrdersAreSequences
  <2>5. TellsTheOrder(u)
    BY <1>1, <1>3, <2>3 DEF TellsTheOrder
  <2>6. QED BY <1>1, <2>3, <2>4, <2>5 DEF TableInv
<1>4. QED BY <1>2, <1>3 DEF SortRows, marked

\* The click handler, for any header.
LEMMA HeaderClickedKeeps ==
  ASSUME NEW t, TableInv(t), NEW c \in Columns, NEW u \in HeaderClicked(t, c)
  PROVE  TableInv(u)
BY ReverseTableKeeps, SortRowsKeeps DEF HeaderClicked

\* The texts of the cells stay.
LEMMA CellsStay ==
  ASSUME UNCHANGED cell, TableInv(table')
  PROVE  TableInv(table)'
<1>1. \A r, c : InnerText(r, c)' = InnerText(r, c)
  BY DEF InnerText
<1>2. \A order, f, c : InAscendingOrder(order, f, c)' <=> InAscendingOrder(order, f, c)
  BY <1>1 DEF InAscendingOrder
<1>3. TellsTheOrder(table)'
  BY <1>1, <1>2 DEF TableInv, TellsTheOrder
<1>4. QED BY <1>3 DEF TableInv

\* The invariant holds after any clicks, filters and default sorting.
LEMMA TablesInvariant == TablesSpec => [](TableInv(table) /\ toClick \subseteq Nat \X Columns)
<1> DEFINE Inv == TableInv(table) /\ toClick \subseteq Nat \X Columns
<1>1. TablesInit => Inv
  <2>1. ASSUME NEW order PROVE TableInv(RenderedTable(order))
    BY DEF RenderedTable, TableInv, TellsTheOrder
  <2>2. QED BY <2>1 DEF TablesInit
<1>2. ASSUME Inv, [TablesNext]_tvars PROVE Inv'
  <2>1. UNCHANGED cell
    BY <1>2 DEF TablesNext, ContentLoaded, PageLoads, DefaultClick, MakeShiftSelectable, ClickHeader,
                TypePhrase, ClickBox, tvars, markup
  <2>2. toClick' \subseteq Nat \X Columns
    <3>1. DefaultClicks \subseteq Nat \X Columns
      <4>1. SUFFICES ASSUME NEW click \in DefaultClicks PROVE click \in Nat \X Columns
        OBVIOUS
      <4>2. PICK pass \in {1, 2}, c \in Columns : click = << pass, c >>
        BY DEF DefaultClicks
      <4>3. QED BY <4>2
    <3>2. toClick' \subseteq toClick \cup DefaultClicks
      BY <1>2 DEF TablesNext, ContentLoaded, PageLoads, DefaultClick, MakeShiftSelectable, ClickHeader,
                  TypePhrase, ClickBox, tvars
    <3>3. QED BY <1>2, <3>1, <3>2
  <2>3. TableInv(table')
    <3>1. CASE ContentLoaded
      BY <1>2, <3>1, InitTableKeeps DEF ContentLoaded
    <3>2. CASE PageLoads
      BY <1>2, <3>2, InitTableKeeps, KeyUpKeeps DEF PageLoads
    <3>3. CASE DefaultClick
      BY <1>2, <3>3, HeaderClickedKeeps DEF DefaultClick
    <3>4. CASE MakeShiftSelectable
      <4>1. /\ DOMAIN table' = DOMAIN table
            /\ \A x \in DOMAIN table \ {"selectable"} : table'[x] = table[x]
        BY <3>4 DEF MakeShiftSelectable
      <4>2. QED BY <1>2, <4>1, OtherPartsDoNotMatter DEF TableInv
    <3>5. CASE ClickHeader
      BY <1>2, <3>5, HeaderClickedKeeps DEF ClickHeader
    <3>6. CASE TypePhrase
      BY <1>2, <3>6, KeyUpKeeps DEF TypePhrase
    <3>7. CASE ClickBox
      <4>1. \E boxes : table' = [table EXCEPT !.checked = boxes]
        BY <3>7 DEF ClickBox, ShiftSelect
      <4>2. /\ DOMAIN table' = DOMAIN table
            /\ \A x \in DOMAIN table \ {"checked"} : table'[x] = table[x]
        BY <4>1
      <4>3. QED BY <1>2, <4>2, OtherPartsDoNotMatter DEF TableInv
    <3>8. CASE UNCHANGED tvars
      BY <1>2, <3>8 DEF tvars
    <3>9. QED BY <1>2, <3>1, <3>2, <3>3, <3>4, <3>5, <3>6, <3>7, <3>8 DEF TablesNext
  <2>4. QED BY <2>1, <2>2, <2>3, CellsStay
<1>3. QED BY <1>1, <1>2, PTL DEF TablesSpec

\* sorttable.js:102-196.  Marks tell the order of the rows, for any table, sort functions
\* and cells.
THEOREM TablesTheorem == TablesSpec => []MarksTellTheOrder
<1>1. TableInv(table) => MarksTellTheOrder
  BY DEF TableInv, TellsTheOrder, MarksTellTheOrder
<1>2. QED BY <1>1, TablesInvariant, PTL

-----------------------------------------------------------------------------
(* AjaxConversions: a callback gets the type that was asked for.           *)

\* The type that AskedIsAnswered speaks of.
TypeToGive ==
  CASE Last(typesAsked) # AnyType -> Last(typesAsked)
    [] Last(typesAsked) = AnyType /\ contentType # UnknownType -> contentType
    [] OTHER -> Head(responses)

\* The list leads to the type to give, and the response is of the type it is converted to
\* by now.
ListLeadsThere ==
  answer \in {"converting", "success"} =>
    /\ dataTypes \in Seq(Types)
    /\ at \in DOMAIN dataTypes
    /\ dataTypes[at] \in counts
    /\ dataTypes[Len(dataTypes)] = TypeToGive
    /\ answer = "success" => at = Len(dataTypes)

ConversionsInv ==
  /\ typesAsked \in Asked
  /\ responses \in Responses
  /\ contentType \in Types \cup {UnknownType}
  /\ ListLeadsThere

\* ajaxHandleResponses without a type takes the first response.
LEMMA FirstResponse ==
  ASSUME responses \in Responses
  PROVE  FinalType(<< >>) = Head(responses)
<1> DEFINE AtOnce(t) == << >> = << >> \/ << t, Head(<< >>) >> \in DOMAIN converters
           i == SelectInSeq(responses, AtOnce)
<1>1. responses \in Seq(Types) /\ responses # << >>
  BY ConversionsAssumption DEF ConversionsAssumption
<1>2. i = 1
  <2> DEFINE found == {n \in 1..Len(responses) : AtOnce(responses[n])}
  <2>1. i = IF found = {} THEN 0 ELSE Min(found)
    BY DEF SelectInSeq
  <2>2. found = 1..Len(responses) /\ Len(responses) \in Nat /\ Len(responses) >= 1
    BY <1>1
  <2>3. Min(found) = 1
    BY <2>2 DEF Min
  <2> HIDE DEF found
  <2>4. QED BY <2>1, <2>2, <2>3
<1>3. QED BY <1>1, <1>2 DEF FinalType

\* A set of numbers has a smallest one.
LEMMA SmallestNumber ==
  ASSUME NEW numbers \in SUBSET Nat, numbers # {}
  PROVE  \E n \in numbers : \A m \in numbers : n <= m
<1> DEFINE Upto == {0..n : n \in numbers}
<1>1. Upto \subseteq FiniteSubsetsOf(Nat) /\ Upto # {}
  <2>1. \A n \in Nat : IsFiniteSet(0..n) /\ 0..n \subseteq Nat
    BY FS_Interval
  <2>2. \A n \in numbers : 0..n \in FiniteSubsetsOf(Nat)
    BY <2>1 DEF FiniteSubsetsOf
  <2>3. QED BY <2>2
<1>2. PICK least \in Upto : \A upto \in Upto : ~(<< upto, least >> \in StrictSubsetOrdering(Nat))
  <2> HIDE DEF Upto
  <2>1. QED BY <1>1, FS_StrictSubsetOrderingWellFounded, WFMin, Zenon
<1>3. PICK n \in numbers : least = 0..n
  OBVIOUS
<1>4. \A m \in numbers : ~(m < n)
  <2>1. SUFFICES ASSUME NEW m \in numbers, m < n PROVE FALSE
    OBVIOUS
  <2>2. 0..m \in Upto /\ 0..m \subseteq 0..n /\ 0..m # 0..n
    BY <2>1
  <2>3. << 0..m, 0..n >> \in StrictSubsetOrdering(Nat)
    BY <2>2, <1>1, <1>3 DEF StrictSubsetOrdering, FiniteSubsetsOf
  <2>4. QED BY <1>2, <1>3, <2>2, <2>3
<1>5. QED BY <1>4

\* ajaxHandleResponses takes one of the responses, or the type that was asked for.
LEMMA FinalTypeType ==
  ASSUME responses \in Responses, NEW types \in Seq(Types)
  PROVE  FinalType(types) \in Types
<1> DEFINE AtOnce(t) == types = << >> \/ << t, Head(types) >> \in DOMAIN converters
           found == {n \in 1..Len(responses) : AtOnce(responses[n])}
           i == SelectInSeq(responses, AtOnce)
<1>1. responses \in Seq(Types) /\ responses # << >>
  BY ConversionsAssumption DEF ConversionsAssumption
<1>2. i \in 0..Len(responses)
  <2>1. i = IF found = {} THEN 0 ELSE Min(found)
    BY DEF SelectInSeq
  <2>2. found \in SUBSET Nat
    BY <1>1
  <2> HIDE DEF found
  <2>3. found # {} => Min(found) \in found
    BY <2>2, SmallestNumber DEF Min
  <2>4. Min(found) \in found => Min(found) \in 1..Len(responses)
    BY DEF found
  <2>5. QED BY <1>1, <2>1, <2>3, <2>4
<1>3. FinalType(types) \in {Head(types), Head(responses), responses[i]}
       /\ (FinalType(types) = Head(types) => types # << >> \/ FinalType(types) = Head(responses)
                                                         \/ FinalType(types) = responses[i])
  BY DEF FinalType
<1>4. QED BY <1>1, <1>2, <1>3 DEF FinalType

\* ajaxHandleResponses begins a list that leads to the type that was asked for.
LEMMA HandleResponsesKeeps ==
  ASSUME ConversionsInv, HandleResponses
  PROVE  ConversionsInv'
<1> DEFINE types == ExpectedTypes
           final == FinalType(types)
<1>1. /\ typesAsked \in Seq(Types \cup {AnyType}) /\ typesAsked # << >>
      /\ \A i \in DOMAIN typesAsked \ {1} : typesAsked[i] # AnyType
      /\ responses \in Seq(Types) /\ responses # << >>
      /\ AnyType \notin Types /\ UnknownType \notin Types
  BY ConversionsAssumption DEF ConversionsInv, ConversionsAssumption
<1>2. /\ types \in Seq(Types)
      /\ types # << >> => types[Len(types)] = TypeToGive
      /\ types = << >> => TypeToGive = Head(responses)
  <2>1. CASE Head(typesAsked) # AnyType
    <3>1. types = typesAsked
      BY <2>1 DEF ExpectedTypes
    <3>2. \A i \in DOMAIN typesAsked : typesAsked[i] \in Types
      BY <1>1, <2>1
    <3>3. Last(typesAsked) # AnyType
      BY <1>1, <3>2 DEF Last
    <3>4. QED BY <1>1, <3>1, <3>2, <3>3 DEF TypeToGive, Last
  <2>2. CASE Head(typesAsked) = AnyType /\ Len(typesAsked) = 1
    <3>1. Tail(typesAsked) = << >> /\ Last(typesAsked) = AnyType
      <4>1. Len(Tail(typesAsked)) = 0 /\ Tail(typesAsked) \in Seq(Types \cup {AnyType})
        BY <1>1, <2>2, HeadTailProperties
      <4>2. Head(typesAsked) = typesAsked[1]
        BY <1>1, HeadTailProperties
      <4>3. QED BY <2>2, <4>1, <4>2, EmptySeq DEF Last
    <3>2. types = IF contentType = UnknownType THEN << >> ELSE << contentType >>
      <4> DEFINE front == IF contentType = UnknownType THEN << >> ELSE << contentType >>
      <4>1. types = front \o Tail(typesAsked)
        BY <2>2 DEF ExpectedTypes
      <4>2. front \in Seq(Types)
        BY <1>1 DEF ConversionsInv
      <4> HIDE DEF front
      <4>3. types = front
        BY <4>1, <4>2, <3>1, ConcatEmptySeq
      <4>4. QED BY <4>3 DEF front
    <3>3. QED BY <1>1, <3>1, <3>2 DEF TypeToGive, ConversionsInv
  <2>3. CASE Head(typesAsked) = AnyType /\ Len(typesAsked) # 1
    <3> DEFINE rest  == Tail(typesAsked)
               front == IF contentType = UnknownType THEN << >> ELSE << contentType >>
    <3>1. types = front \o rest
      BY <2>3 DEF ExpectedTypes
    <3>2. front \in Seq(Types)
      BY <1>1 DEF ConversionsInv
    <3>3. /\ rest \in Seq(Types \cup {AnyType}) /\ Len(rest) = Len(typesAsked) - 1
          /\ Len(rest) \in Nat /\ Len(rest) >= 1
          /\ \A i \in 1..Len(rest) : rest[i] = typesAsked[i + 1]
      <4>1. Len(typesAsked) \in Nat /\ Len(typesAsked) >= 2
        <5>1. Len(typesAsked) \in Nat \ {0}
          BY <1>1, EmptySeq
        <5>2. Len(typesAsked) # 1
          BY <2>3
        <5>3. \A n \in Nat \ {0} : n # 1 => n \in Nat /\ n >= 2
          OBVIOUS
        <5>4. QED BY <5>1, <5>2, <5>3
      <4>2. /\ rest \in Seq(Types \cup {AnyType}) /\ Len(rest) = Len(typesAsked) - 1
            /\ \A i \in 1..Len(rest) : rest[i] = typesAsked[i + 1]
        BY <1>1, HeadTailProperties
      <4>3. QED BY <4>1, <4>2
    <3>4. \A i \in 1..Len(rest) : rest[i] \in Types
      BY <1>1, <3>3
    <3>5. rest \in Seq(Types) /\ rest[Len(rest)] = Last(typesAsked) /\ Last(typesAsked) # AnyType
      <4> HIDE DEF rest
      <4>1. rest \in Seq(Types)
        BY <3>3, <3>4
      <4>2. rest[Len(rest)] = Last(typesAsked)
        BY <3>3 DEF Last
      <4>3. rest[Len(rest)] \in Types
        BY <3>3, <3>4
      <4>4. QED BY <1>1, <4>1, <4>2, <4>3
    <3> HIDE DEF rest, front
    <3>6. types \in Seq(Types) /\ types # << >> /\ types[Len(types)] = rest[Len(rest)]
      BY <3>1, <3>2, <3>3, <3>5
    <3>7. QED BY <3>5, <3>6 DEF TypeToGive
  <2>4. QED BY <2>1, <2>2, <2>3
<1>3. types = << >> => final = Head(responses)
  BY FirstResponse DEF ConversionsInv
<1>4. final \in Types
  BY FinalTypeType, <1>2 DEF ConversionsInv
<1>5. /\ dataTypes' \in Seq(Types) /\ dataTypes' # << >>
      /\ dataTypes'[1] = final /\ dataTypes'[Len(dataTypes')] = TypeToGive
  <2>1. dataTypes' = IF types # << >> /\ Head(types) = final THEN types ELSE << final >> \o types
    BY DEF HandleResponses
  <2> HIDE DEF types, final
  <2>2. QED BY <1>2, <1>3, <1>4, <2>1
<1>6. at' = 1 /\ counts' = {final} /\ answer' = "converting"
      /\ UNCHANGED << converters, typesAsked, contentType, responses >>
  BY DEF HandleResponses
<1>7. TypeToGive' = TypeToGive
  BY <1>6 DEF TypeToGive
<1> HIDE DEF final
<1>8. ListLeadsThere'
  BY <1>5, <1>6, <1>7 DEF ListLeadsThere
<1>9. QED BY <1>6, <1>8 DEF ConversionsInv

\* ajaxConvert puts a type into the list between two others; the list still ends where it did.
LEMMA InsertedBetween ==
  ASSUME NEW list \in Seq(Types), NEW n \in 1..(Len(list) - 1), NEW type \in Types
  PROVE  LET longer == InsertAt(list, n + 1, type)
         IN  /\ longer \in Seq(Types)
             /\ n + 1 \in DOMAIN longer
             /\ longer[n + 1] = type
             /\ longer[Len(longer)] = list[Len(list)]
<1> DEFINE before == SubSeq(list, 1, n + 1 - 1)
           after  == SubSeq(list, n + 1, Len(list))
<1>1. Len(list) \in Nat /\ n \in Nat /\ n < Len(list)
  OBVIOUS
<1>2. before \in Seq(Types) /\ Len(before) = n
  <2>1. \A i \in 1..(n + 1 - 1) : list[i] \in Types
    BY <1>1, ElementOfSeq
  <2>2. QED BY <1>1, <2>1, SubSeqProperties
<1>3. after \in Seq(Types) /\ Len(after) = Len(list) - n /\ after[Len(list) - n] = list[Len(list)]
  <2>1. \A i \in (n + 1)..Len(list) : list[i] \in Types
    BY <1>1, ElementOfSeq
  <2>2. /\ after \in Seq(Types)
        /\ Len(after) = IF n + 1 <= Len(list) THEN Len(list) - (n + 1) + 1 ELSE 0
        /\ \A i \in 1..(Len(list) - (n + 1) + 1) : after[i] = list[n + 1 + i - 1]
    BY <1>1, <2>1, SubSeqProperties
  <2> HIDE DEF after
  <2>3. Len(list) - n \in 1..(Len(list) - (n + 1) + 1)
    BY <1>1
  <2>4. after[Len(list) - n] = list[n + 1 + (Len(list) - n) - 1]
    BY <2>2, <2>3
  <2>5. n + 1 + (Len(list) - n) - 1 = Len(list)
    BY <1>1
  <2>6. QED BY <1>1, <2>2, <2>4, <2>5
<1>4. InsertAt(list, n + 1, type) = before \o << type >> \o after
  BY DEF InsertAt
<1> HIDE DEF before, after
<1> DEFINE longer == before \o << type >> \o after
<1>5. /\ before \o << type >> \in Seq(Types) /\ Len(before \o << type >>) = n + 1
      /\ (before \o << type >>)[n + 1] = type
  <2>1. << type >> \in Seq(Types) /\ Len(<< type >>) = 1 /\ << type >>[1] = type
    OBVIOUS
  <2>2. QED BY <1>1, <1>2, <2>1, ConcatProperties
<1>6. /\ longer \in Seq(Types) /\ Len(longer) = Len(list) + 1
      /\ longer[n + 1] = type /\ longer[Len(list) + 1] = list[Len(list)]
  <2> DEFINE first == before \o << type >>
  <2> HIDE DEF first
  <2>1. /\ first \o after \in Seq(Types) /\ Len(first \o after) = Len(first) + Len(after)
        /\ \A i \in 1..(Len(first) + Len(after)) :
             (first \o after)[i] = IF i <= Len(first) THEN first[i] ELSE after[i - Len(first)]
    BY <1>3, <1>5, ConcatProperties DEF first
  <2>2. Len(first) = n + 1 /\ first[n + 1] = type
    BY <1>5 DEF first
  <2>3. Len(first) + Len(after) = Len(list) + 1
    BY <1>1, <1>3, <2>2
  <2>4. (first \o after)[n + 1] = type
    BY <1>1, <2>1, <2>2, <2>3
  <2>5. (first \o after)[Len(list) + 1] = after[Len(list) - n]
    BY <1>1, <2>1, <2>2, <2>3
  <2>6. QED BY <1>3, <2>1, <2>3, <2>4, <2>5 DEF first
<1> HIDE DEF longer
<1>7. DOMAIN longer = 1..Len(longer) /\ n + 1 \in 1..(Len(list) + 1)
  BY <1>1, <1>6, LenProperties
<1>8. QED BY <1>4, <1>6, <1>7 DEF longer

\* A converter leads to the type that stands behind the blank in its name.
LEMMA HopsEnd ==
  ASSUME NEW a, NEW b, NEW hop \in Hops(a, b)
  PROVE  hop[2] = b
BY DEF Hops

\* ajaxConvert: one round of its loop makes the next type of the list.
LEMMA ConvertOnceKeeps ==
  ASSUME ConversionsInv, ConvertOnce
  PROVE  ConversionsInv'
<1> DEFINE prev    == dataTypes[at]
           nextType == dataTypes[at + 1]
<1>1. /\ dataTypes \in Seq(Types) /\ at \in 1..(Len(dataTypes) - 1) /\ prev \in counts
      /\ dataTypes[Len(dataTypes)] = TypeToGive
  BY DEF ConvertOnce, ConversionsInv, ListLeadsThere
<1>2. at' = at + 1 /\ UNCHANGED << converters, typesAsked, contentType, responses >>
  BY DEF ConvertOnce
<1>3. TypeToGive' = TypeToGive
  BY <1>2 DEF TypeToGive
<1>4. answer' \in {"converting", "parsererror"}
  BY DEF ConvertOnce, UseConverter, UsePair
<1>5. CASE UNCHANGED dataTypes /\ nextType \in counts'
  BY <1>1, <1>2, <1>3, <1>4, <1>5 DEF ConversionsInv, ListLeadsThere
<1>6. ASSUME NEW pair \in Pairs(prev, nextType), dataTypes' = Inserted(pair), UseConverter(pair[1])
      PROVE  ConversionsInv'
  <2>1. PICK t \in Types : pair \in Hops(prev, t) \X Hops(t, nextType)
    BY <1>6 DEF Pairs
  <2>2. pair[1][2] = t
    BY <2>1, HopsEnd
  <2>3. t \in counts'
    BY <1>6, <2>2 DEF UseConverter, Converted
  <2>4. /\ dataTypes' \in Seq(Types) /\ at + 1 \in DOMAIN dataTypes'
        /\ dataTypes'[at + 1] = t /\ dataTypes'[Len(dataTypes')] = TypeToGive
    BY <1>1, <1>6, <2>2, InsertedBetween DEF Inserted
  <2>5. QED BY <1>2, <1>3, <1>4, <2>3, <2>4 DEF ConversionsInv, ListLeadsThere
<1>7. CASE prev = nextType /\ UNCHANGED << dataTypes, counts >>
  BY <1>1, <1>5, <1>7
<1>8. ASSUME NEW hop \in Hops(prev, nextType), UseConverter(hop), UNCHANGED dataTypes
      PROVE  ConversionsInv'
  BY <1>5, <1>8, HopsEnd DEF UseConverter, Converted
<1>9. ASSUME NEW pair \in Pairs(prev, nextType), UsePair(pair), UNCHANGED dataTypes
      PROVE  ConversionsInv'
  <2>1. PICK t \in Types : pair \in Hops(prev, t) \X Hops(t, nextType)
    BY <1>9 DEF Pairs
  <2>2. pair[2][2] = nextType
    BY <2>1, HopsEnd
  <2>3. QED BY <1>5, <1>9, <2>2 DEF UsePair, Converted
<1>10. CASE answer' = "parsererror"
  BY <1>2, <1>10 DEF ConversionsInv, ListLeadsThere
<1>11. QED BY <1>6, <1>7, <1>8, <1>9, <1>10 DEF ConvertOnce

\* The invariant holds in each round.
LEMMA ConversionsInvariant == ConversionsSpec => []ConversionsInv
<1>1. ConversionsInit => ConversionsInv
  BY DEF ConversionsInit, ConversionsInv, ListLeadsThere
<1>2. ASSUME ConversionsInv, [ConversionsNext]_qvars PROVE ConversionsInv'
  <2>1. CASE HandleResponses
    BY <2>1, <1>2, HandleResponsesKeeps
  <2>2. CASE ConvertOnce
    BY <2>2, <1>2, ConvertOnceKeeps
  <2>3. CASE Succeed
    BY <2>3, <1>2 DEF Succeed, ConversionsInv, ListLeadsThere, TypeToGive
  <2>4. CASE UNCHANGED qvars
    BY <2>4, <1>2 DEF qvars, ConversionsInv, ListLeadsThere, TypeToGive
  <2>5. QED BY <1>2, <2>1, <2>2, <2>3, <2>4 DEF ConversionsNext
<1>3. QED BY <1>1, <1>2, PTL DEF ConversionsSpec

\* jquery-1.9.1.js:8117-8254.  A success has the type that was asked for, for any converters
\* and any lists of types.
THEOREM ConversionsTheorem == ConversionsSpec => []AskedIsAnswered
<1>1. ConversionsInv => AskedIsAnswered
  <2>1. ASSUME ConversionsInv, answer = "success" PROVE TypeToGive \in counts
    BY <2>1 DEF ConversionsInv, ListLeadsThere
  <2>2. QED BY <2>1 DEF AskedIsAnswered, TypeToGive
<1>2. QED BY <1>1, ConversionsInvariant, PTL

-----------------------------------------------------------------------------
(* AjaxRequests: ajaxStart and ajaxStop.                                   *)

\* The events of a call of ajax, and those of a call of done before it counts down.
CallEvents == {"ajaxStart", "beforeSend", "ajaxSend"}
DoneEvents == {"settled", "ajaxResult", "complete", "ajaxComplete"}
Logged     == CallEvents \cup DoneEvents \cup {"ajaxStop", "success", "error"}

Frames == [r : Requests, at : CallEvents \cup DoneEvents \cup {"ajaxStop"}, success : BOOLEAN]

\* A request as far as the counting goes.
CallShape(call) ==
  /\ DOMAIN call = {"state", "transport", "callback", "timer", "deferred", "installed",
                    "completed", "name", "container"}
  /\ call.state \in {-1, 0, 1, 2}

AjaxTypeOK ==
  /\ s \in [Requests -> Options]
  /\ DOMAIN jqXHR = Requests /\ \A r \in Requests : CallShape(jqXHR[r])
  /\ stack \in Seq(Frames)

\* A request has one call of ajax at most, before it is sent or after it was aborted,
\* and one call of done at most, when it is done.
FramesFit ==
  \A i \in DOMAIN stack :
    /\ stack[i].at \in CallEvents =>
         /\ jqXHR[stack[i].r].state \in {0, 2}
         /\ \A j \in DOMAIN stack : stack[j].r = stack[i].r /\ stack[j].at \in CallEvents => i = j
    /\ stack[i].at \in DoneEvents =>
         /\ jqXHR[stack[i].r].state = 2
         /\ \A j \in DOMAIN stack : stack[j].r = stack[i].r /\ stack[j].at \in DoneEvents => i = j
    /\ stack[i].at \in {"ajaxResult", "ajaxComplete"} => s[stack[i].r].global

\* A transport that can be sent or can answer is one of a request that is not done.
TransportsFit ==
  /\ network \subseteq Requests
  /\ \A r \in Requests :
       /\ jqXHR[r].transport => jqXHR[r].state # 2
       /\ jqXHR[r].callback => jqXHR[r].state = 1
       /\ r \in network /\ s[r].transport = "xhr" => jqXHR[r].state = 1

\* A request with global events that was counted and is not counted down.
Owes(r) ==
  /\ s[r].global
  /\ \/ jqXHR[r].state \in {0, 1}
     \/ \E i \in DOMAIN stack : stack[i].r = r /\ stack[i].at \in DoneEvents

Counted == {r \in Requests : Owes(r)}

ActiveIsCounted == IsFiniteSet(Counted) /\ active = Cardinality(Counted)

MarksOf(l) == {i \in DOMAIN l : l[i][1] \in {"ajaxStart", "ajaxStop"}}

\* The last mark is a start.
Running(l) == \E i \in MarksOf(l) : l[i][1] = "ajaxStart" /\ \A j \in MarksOf(l) : j <= i

\* In a log the first mark is a start and two in a row differ; it is open while requests run.
LogInv(l, running) ==
  /\ l \in Seq(Logged \X Requests)
  /\ \A i \in MarksOf(l) :
       /\ (\A j \in MarksOf(l) : i <= j) => l[i][1] = "ajaxStart"
       /\ \A j \in MarksOf(l) :
            (i < j /\ \A k \in MarksOf(l) : k <= i \/ j <= k) => l[i][1] # l[j][1]
  /\ running # 0 <=> Running(l)

CountInv == ActiveIsCounted /\ LogInv(log, active)

CallsInv == AjaxTypeOK /\ FramesFit /\ TransportsFit /\ CountInv

AjaxInv == twice = {} => CallsInv

-----------------------------------------------------------------------------

\* An entry that fits how many requests run before and after it.
LEMMA LogGrows ==
  ASSUME NEW l, NEW before, LogInv(l, before), NEW entry \in Logged, NEW r \in Requests,
         NEW after,
         entry = "ajaxStart" => before = 0 /\ after # 0,
         entry = "ajaxStop" => before # 0 /\ after = 0,
         entry \notin {"ajaxStart", "ajaxStop"} => (before = 0 <=> after = 0)
  PROVE  LogInv(Append(l, << entry, r >>), after)
<1> DEFINE n == Len(l)
           m == Append(l, << entry, r >>)
<1>1. /\ l \in Seq(Logged \X Requests) /\ n \in Nat /\ DOMAIN l = 1..n
  BY DEF LogInv
<1>2. /\ m \in Seq(Logged \X Requests) /\ DOMAIN m = 1..(n + 1)
      /\ \A i \in 1..n : m[i] = l[i]
      /\ m[n + 1][1] = entry
  BY <1>1
<1> HIDE DEF m, n
<1>3. MarksOf(m) = MarksOf(l) \cup (IF entry \in {"ajaxStart", "ajaxStop"} THEN {n + 1} ELSE {})
      /\ \A i \in MarksOf(l) : i \in 1..n /\ m[i] = l[i]
  BY <1>1, <1>2 DEF MarksOf
<1>4. CASE entry \notin {"ajaxStart", "ajaxStop"}
  <2>1. MarksOf(m) = MarksOf(l)
    BY <1>3, <1>4
  <2>2. Running(m) <=> Running(l)
    BY <1>3, <2>1 DEF Running
  <2>3. ASSUME NEW i \in MarksOf(m)
        PROVE  /\ (\A j \in MarksOf(m) : i <= j) => m[i][1] = "ajaxStart"
               /\ \A j \in MarksOf(m) :
                    (i < j /\ \A k \in MarksOf(m) : k <= i \/ j <= k) => m[i][1] # m[j][1]
    BY <1>3, <2>1 DEF LogInv
  <2>4. after # 0 <=> Running(m)
    BY <1>4, <2>2 DEF LogInv
  <2>5. LogInv(m, after)
    BY <1>2, <2>3, <2>4 DEF LogInv
  <2>6. QED BY <2>5 DEF m
<1>5. CASE entry \in {"ajaxStart", "ajaxStop"}
  <2>1. MarksOf(m) = MarksOf(l) \cup {n + 1} /\ \A i \in MarksOf(l) : i < n + 1 /\ i \in Nat
    BY <1>1, <1>3, <1>5
  <2>2. Running(m) <=> entry = "ajaxStart"
    BY <1>1, <1>2, <1>3, <2>1 DEF Running
  <2>3. ASSUME \A j \in MarksOf(m) : n + 1 <= j PROVE entry = "ajaxStart"
    BY <1>1, <1>5, <2>1, <2>3 DEF LogInv, Running
  <2>4. ASSUME NEW i \in MarksOf(l), \A k \in MarksOf(m) : k <= i \/ n + 1 <= k
        PROVE  l[i][1] # entry
    <3>1. \A k \in MarksOf(l) : k <= i
      BY <1>1, <2>1, <2>4
    <3>2. CASE entry = "ajaxStart"
      BY <3>1, <3>2 DEF LogInv, Running
    <3>3. CASE entry = "ajaxStop"
      <4>1. PICK last \in MarksOf(l) : l[last][1] = "ajaxStart" /\ \A j \in MarksOf(l) : j <= last
        BY <3>3 DEF LogInv, Running
      <4>2. last = i
        BY <2>1, <3>1, <4>1
      <4>3. QED BY <3>3, <4>1, <4>2
    <3>4. QED BY <1>5, <3>2, <3>3
  <2>5. ASSUME NEW i \in MarksOf(m)
        PROVE  /\ (\A j \in MarksOf(m) : i <= j) => m[i][1] = "ajaxStart"
               /\ \A j \in MarksOf(m) :
                    (i < j /\ \A k \in MarksOf(m) : k <= i \/ j <= k) => m[i][1] # m[j][1]
    <3>1. CASE i = n + 1
      BY <1>1, <1>2, <2>1, <2>3, <3>1
    <3>2. CASE i \in MarksOf(l)
      <4>1. (\A j \in MarksOf(m) : i <= j) => m[i][1] = "ajaxStart"
        BY <1>3, <2>1, <3>2 DEF LogInv
      <4>2. ASSUME NEW j \in MarksOf(m), i < j, \A k \in MarksOf(m) : k <= i \/ j <= k
            PROVE  m[i][1] # m[j][1]
        <5>1. CASE j = n + 1
          BY <1>2, <1>3, <2>4, <3>2, <4>2, <5>1
        <5>2. CASE j \in MarksOf(l)
          BY <1>3, <2>1, <3>2, <4>2, <5>2 DEF LogInv
        <5>3. QED BY <2>1, <5>1, <5>2
      <4>3. QED BY <4>1, <4>2
    <3>3. QED BY <2>1, <3>1, <3>2
  <2>6. after # 0 <=> entry = "ajaxStart"
    BY <1>5
  <2>7. LogInv(m, after)
    BY <1>2, <2>2, <2>5, <2>6 DEF LogInv
  <2>8. QED BY <2>7 DEF m
<1>6. QED BY <1>4, <1>5

\* The calls below the top one.
LEMMA TopOfStack ==
  ASSUME AjaxTypeOK, stack # << >>
  PROVE  /\ Top \in Frames /\ Len(stack) \in DOMAIN stack /\ stack[Len(stack)] = Top
         /\ Front(stack) \in Seq(Frames)
         /\ Len(stack) \in Nat \ {0} /\ DOMAIN stack = 1..Len(stack)
         /\ DOMAIN Front(stack) = 1..(Len(stack) - 1) /\ Len(Front(stack)) = Len(stack) - 1
         /\ \A i \in 1..(Len(stack) - 1) : Front(stack)[i] = stack[i]
<1>1. stack \in Seq(Frames) /\ Len(stack) \in Nat \ {0}
  BY DEF AjaxTypeOK
<1>2. \A i \in 1..Len(stack) : stack[i] \in Frames
  BY <1>1
<1> DEFINE n == Len(stack) - 1
<1>3. n \in Nat /\ \A i \in 1..n : stack[i] \in Frames
  BY <1>1, <1>2
<1> HIDE DEF n
<1>4. /\ SubSeq(stack, 1, n) \in Seq(Frames) /\ Len(SubSeq(stack, 1, n)) = n
      /\ \A i \in 1..n : SubSeq(stack, 1, n)[i] = stack[i]
  <2>1. /\ SubSeq(stack, 1, n) \in Seq(Frames)
        /\ Len(SubSeq(stack, 1, n)) = IF 1 <= n THEN n - 1 + 1 ELSE 0
        /\ \A i \in 1 .. n - 1 + 1 : SubSeq(stack, 1, n)[i] = stack[1 + i - 1]
    BY <1>3, SubSeqProperties
  <2>2. QED BY <1>3, <2>1
<1>5. DOMAIN SubSeq(stack, 1, n) = 1..n
  BY <1>4, LenProperties
<1>6. Front(stack) = SubSeq(stack, 1, n) /\ Top = stack[Len(stack)]
  BY DEF Front, Top, Last, n
<1>7. QED BY <1>1, <1>2, <1>4, <1>5, <1>6 DEF n

\* The stack with a call on top, of all calls or of those below the top one.
LEMMA CallOnTop ==
  ASSUME AjaxTypeOK, NEW below, below = stack \/ (stack # << >> /\ below = Front(stack)),
         NEW f \in Frames
  PROVE  LET up == Append(below, f)
         IN  /\ up \in Seq(Frames) /\ Len(up) \in Nat /\ DOMAIN up = 1..Len(up)
             /\ DOMAIN below = 1..(Len(up) - 1) /\ Len(up) >= 1
             /\ up[Len(up)] = f
             /\ \A i \in DOMAIN below : i \in DOMAIN stack /\ up[i] = stack[i]
             /\ below = stack => \A i \in DOMAIN stack : i \in DOMAIN below
             /\ below # stack => \A i \in DOMAIN stack : i \in DOMAIN below \/ stack[i] = Top
             /\ below # stack => Len(up) \in DOMAIN stack /\ stack[Len(up)] = Top
<1>1. /\ below \in Seq(Frames) /\ Len(below) \in Nat /\ DOMAIN below = 1..Len(below)
      /\ \A i \in DOMAIN below : i \in DOMAIN stack /\ below[i] = stack[i]
      /\ below # stack => /\ \A i \in DOMAIN stack : i \in DOMAIN below \/ stack[i] = Top
                          /\ Len(below) + 1 \in DOMAIN stack /\ stack[Len(below) + 1] = Top
  <2>1. CASE below = stack
    BY <2>1 DEF AjaxTypeOK
  <2>2. CASE below # stack
    <3>1. stack # << >> /\ below = Front(stack)
      BY <2>2
    <3>2. /\ below \in Seq(Frames) /\ Len(below) = Len(stack) - 1
          /\ Len(stack) \in Nat \ {0} /\ DOMAIN stack = 1..Len(stack)
          /\ DOMAIN below = 1..(Len(stack) - 1) /\ stack[Len(stack)] = Top
          /\ \A i \in 1..(Len(stack) - 1) : below[i] = stack[i]
      BY <3>1, TopOfStack
    <3>3. \A i \in DOMAIN stack : i \in DOMAIN below \/ i = Len(stack)
      BY <3>2
    <3>4. Len(below) + 1 = Len(stack) /\ Len(below) \in Nat
      BY <3>2
    <3>5. Len(stack) \in DOMAIN stack /\ DOMAIN below \subseteq DOMAIN stack
      BY <3>2
    <3>6. QED BY <3>2, <3>3, <3>4, <3>5
  <2>3. QED BY <2>1, <2>2
<1>2. /\ Append(below, f) \in Seq(Frames) /\ Len(Append(below, f)) = Len(below) + 1
      /\ Append(below, f)[Len(below) + 1] = f
      /\ \A i \in 1..Len(below) : Append(below, f)[i] = below[i]
  BY <1>1, AppendProperties
<1>3. DOMAIN Append(below, f) = 1..(Len(below) + 1)
  BY <1>2, LenProperties
<1>4. QED BY <1>1, <1>2, <1>3

\* As long as the same requests are counted.
LEMMA SameCount ==
  ASSUME CountInv, s' = s, active' = active, LogInv(log', active),
         \A r \in Requests : Owes(r)' <=> Owes(r)
  PROVE  CountInv'
<1>1. Counted' = Counted
  BY DEF Counted
<1>2. ActiveIsCounted'
  BY <1>1 DEF CountInv, ActiveIsCounted
<1>3. LogInv(log, active)'
  BY DEF LogInv, MarksOf, Running
<1>4. QED BY <1>2, <1>3 DEF CountInv

\* done pushes its call, and the call of ajax it ends is gone.
LEMMA DoneKeeps ==
  ASSUME CallsInv, NEW r \in Requests, jqXHR[r].state \in {0, 1}, NEW success \in BOOLEAN,
         NEW calls, DOMAIN calls = Requests, \A q \in Requests : CallShape(calls[q]),
         \A q \in Requests \ {r} : /\ calls[q].state = jqXHR[q].state
                                   /\ calls[q].transport = jqXHR[q].transport
                                   /\ calls[q].callback = jqXHR[q].callback,
         NEW below,
         \/ below = stack
         \/ stack # << >> /\ below = Front(stack) /\ Top.r = r /\ Top.at \in CallEvents,
         Done(r, calls, success, below),
         network' \subseteq network, r \in network' => s[r].transport # "xhr"
  PROVE  CallsInv'
<1> USE DEF CallsInv
<1> DEFINE f == Frame(r, "settled", success)
<1>1. f \in Frames /\ f.r = r /\ f.at = "settled"
  BY DEF Frame, Frames, DoneEvents
<1>2. /\ s' = s /\ active' = active
      /\ stack' = Append(below, f)
      /\ log' = log \/ \E entry \in {"success", "error"} : log' = Append(log, << entry, r >>)
  BY DEF Done
<1>3. /\ DOMAIN jqXHR' = Requests /\ \A q \in Requests : CallShape(jqXHR'[q])
      /\ jqXHR'[r].state = 2 /\ jqXHR'[r].transport = FALSE /\ jqXHR'[r].callback = FALSE
      /\ \A q \in Requests \ {r} : jqXHR'[q] = calls[q]
  BY DEF Done, CallShape
<1> HIDE DEF f
<1>4. /\ stack' \in Seq(Frames) /\ DOMAIN stack' = 1..Len(stack') /\ Len(stack') \in Nat
      /\ stack'[Len(stack')] = f /\ Len(stack') \in DOMAIN stack'
      /\ \A i \in DOMAIN stack' : i = Len(stack') \/ (i \in DOMAIN below /\ i \in DOMAIN stack /\ stack'[i] = stack[i])
      /\ \A i \in DOMAIN stack : stack[i].at \in DoneEvents => i \in DOMAIN stack' /\ stack'[i] = stack[i] /\ i # Len(stack')
  <2>1. below = stack \/ (stack # << >> /\ below = Front(stack) /\ Top.at \notin DoneEvents)
    BY DEF CallEvents, DoneEvents
  <2>2. QED BY <1>1, <1>2, <2>1, CallOnTop
<1>5. \A i \in DOMAIN stack : stack[i].r = r => stack[i].at \notin DoneEvents
  BY DEF FramesFit
<1>6. AjaxTypeOK'
  BY <1>2, <1>3, <1>4 DEF AjaxTypeOK
<1>7. FramesFit'
  <2> SUFFICES ASSUME NEW i \in DOMAIN stack'
               PROVE  /\ stack'[i].at \in CallEvents =>
                           /\ jqXHR'[stack'[i].r].state \in {0, 2}
                           /\ \A j \in DOMAIN stack' : stack'[j].r = stack'[i].r /\ stack'[j].at \in CallEvents => i = j
                      /\ stack'[i].at \in DoneEvents =>
                           /\ jqXHR'[stack'[i].r].state = 2
                           /\ \A j \in DOMAIN stack' : stack'[j].r = stack'[i].r /\ stack'[j].at \in DoneEvents => i = j
                      /\ stack'[i].at \in {"ajaxResult", "ajaxComplete"} => s'[stack'[i].r].global
    BY DEF FramesFit
  <2>1. CASE i = Len(stack')
    BY <1>1, <1>3, <1>4, <1>5, <2>1 DEF CallEvents, DoneEvents
  <2>2. CASE i # Len(stack')
    <3>1. i \in DOMAIN stack /\ stack'[i] = stack[i] /\ stack[i].r \in Requests
      <4>1. i \in DOMAIN stack /\ stack'[i] = stack[i]
        BY <1>4, <2>2
      <4>2. stack[i] \in Frames
        BY <4>1, ElementOfSeq DEF AjaxTypeOK
      <4>3. QED BY <4>1, <4>2 DEF Frames
    <3>2. jqXHR'[stack[i].r].state \in {jqXHR[stack[i].r].state, 2}
      BY <1>3, <3>1
    <3>3. \A j \in DOMAIN stack' : j = Len(stack') \/ (j \in DOMAIN stack /\ stack'[j] = stack[j])
      BY <1>4
    <3>4. QED BY <1>1, <1>2, <1>4, <1>5, <3>1, <3>2, <3>3 DEF FramesFit, CallEvents, DoneEvents
  <2>3. QED BY <2>1, <2>2
<1>8. TransportsFit'
  BY <1>2, <1>3 DEF TransportsFit
<1>9. LogInv(log', active)
  <2>1. LogInv(log, active)
    BY DEF CountInv
  <2>2. ASSUME NEW entry \in {"success", "error"} PROVE LogInv(Append(log, << entry, r >>), active)
    <3>1. entry \in Logged /\ entry # "ajaxStart" /\ entry # "ajaxStop"
      BY DEF Logged
    <3>2. (active = 0) <=> (active = 0)
      OBVIOUS
    <3>3. QED BY <2>1, <3>1, <3>2, LogGrows
  <2>3. QED BY <1>2, <2>1, <2>2
<1>10. ASSUME NEW q \in Requests PROVE Owes(q)' <=> Owes(q)
  <2>1. CASE q = r
    BY <1>1, <1>2, <1>3, <1>4, <2>1 DEF Owes, DoneEvents
  <2>2. CASE q # r
    <3>1. jqXHR'[q].state = jqXHR[q].state
      BY <1>3, <2>2
    <3>2. (\E i \in DOMAIN stack' : stack'[i].r = q /\ stack'[i].at \in DoneEvents)
            <=> \E i \in DOMAIN stack : stack[i].r = q /\ stack[i].at \in DoneEvents
      BY <1>1, <1>4, <2>2
    <3>3. QED BY <1>2, <3>1, <3>2 DEF Owes
  <2>3. QED BY <2>1, <2>2
<1>11. CountInv'
  BY <1>2, <1>9, <1>10, SameCount
<1>12. QED BY <1>6, <1>7, <1>8, <1>11

\* The top call comes to another entry of its own.
LEMMA TopMovesKeeps ==
  ASSUME CallsInv, stack # << >>, NEW next,
         stack' = Append(Front(stack), [Top EXCEPT !.at = next]),
         \/ Top.at \in CallEvents /\ next \in CallEvents \ {"ajaxStart"}
         \/ Top.at \in DoneEvents /\ next \in DoneEvents,
         next \in {"ajaxResult", "ajaxComplete"} => s[Top.r].global,
         log' = log \/ log' = Append(log, << next, Top.r >>),
         s' = s, active' = active,
         DOMAIN jqXHR' = Requests, \A q \in Requests : CallShape(jqXHR'[q]),
         \A q \in Requests : jqXHR'[q].state = jqXHR[q].state,
         TransportsFit'
  PROVE  CallsInv'
<1> USE DEF CallsInv
<1> DEFINE f == [Top EXCEPT !.at = next]
           n == Len(stack)
<1>1. /\ Top \in Frames /\ Front(stack) # stack
      /\ n \in DOMAIN stack /\ stack[n] = Top /\ DOMAIN stack = 1..n /\ n \in Nat \ {0}
      /\ DOMAIN Front(stack) = 1..(n - 1)
  <2>1. /\ Top \in Frames /\ DOMAIN Front(stack) = 1..(n - 1)
        /\ n \in DOMAIN stack /\ stack[n] = Top /\ DOMAIN stack = 1..n /\ n \in Nat \ {0}
    BY TopOfStack
  <2>2. n \in DOMAIN stack /\ n \notin DOMAIN Front(stack)
    BY <2>1
  <2>3. QED BY <2>1, <2>2
<1>2. /\ f \in Frames /\ f.r = Top.r /\ f.at = next /\ Top.r \in Requests
  BY <1>1 DEF Frames
<1> HIDE DEF f, n
<1>3. /\ stack' \in Seq(Frames) /\ Len(stack') \in Nat /\ DOMAIN stack' = 1..Len(stack')
      /\ 1..(n - 1) = 1..(Len(stack') - 1) /\ Len(stack') >= 1
      /\ stack'[Len(stack')] = f
      /\ \A i \in 1..(n - 1) : stack'[i] = stack[i]
  <2>1. /\ stack' \in Seq(Frames) /\ Len(stack') \in Nat /\ DOMAIN stack' = 1..Len(stack')
        /\ DOMAIN Front(stack) = 1..(Len(stack') - 1) /\ Len(stack') >= 1
        /\ stack'[Len(stack')] = f
        /\ \A i \in DOMAIN Front(stack) : stack'[i] = stack[i]
    BY <1>2, CallOnTop DEF f
  <2>2. QED BY <1>1, <2>1
<1>4. DOMAIN stack' = DOMAIN stack /\ Len(stack') = n
  BY <1>1, <1>3
<1>5. \A i \in DOMAIN stack :
        /\ stack[i].r \in Requests
        /\ stack'[i].r = stack[i].r
        /\ stack'[i].at \in CallEvents <=> stack[i].at \in CallEvents
        /\ stack'[i].at \in DoneEvents <=> stack[i].at \in DoneEvents
        /\ stack'[i].at \in {"ajaxResult", "ajaxComplete"} => s[stack[i].r].global
  <2>1. SUFFICES ASSUME NEW i \in DOMAIN stack
                 PROVE  /\ stack[i].r \in Requests
                        /\ stack'[i].r = stack[i].r
                        /\ stack'[i].at \in CallEvents <=> stack[i].at \in CallEvents
                        /\ stack'[i].at \in DoneEvents <=> stack[i].at \in DoneEvents
                        /\ stack'[i].at \in {"ajaxResult", "ajaxComplete"} => s[stack[i].r].global
    OBVIOUS
  <2>2. stack[i].r \in Requests
    <3>1. stack[i] \in Frames
      BY ElementOfSeq, <2>1 DEF AjaxTypeOK
    <3>2. QED BY <3>1 DEF Frames
  <2>3. CASE i = n
    BY <1>1, <1>2, <1>3, <1>4, <2>2, <2>3 DEF CallEvents, DoneEvents
  <2>4. CASE i # n
    BY <1>1, <1>3, <2>2, <2>4 DEF FramesFit
  <2>5. QED BY <2>3, <2>4
<1>6. AjaxTypeOK'
  BY <1>3 DEF AjaxTypeOK
<1>7. FramesFit'
  BY <1>4, <1>5 DEF FramesFit
<1>8. LogInv(log', active)
  <2>1. /\ next \in Logged /\ next # "ajaxStart" /\ next # "ajaxStop"
        /\ Top.r \in Requests /\ LogInv(log, active)
    BY <1>2 DEF Logged, CallEvents, DoneEvents, CountInv
  <2>2. (active = 0) <=> (active = 0)
    OBVIOUS
  <2>3. LogInv(Append(log, << next, Top.r >>), active)
    BY <2>1, <2>2, LogGrows
  <2>4. QED BY <2>1, <2>3
<1>9. \A q \in Requests : Owes(q)' <=> Owes(q)
  BY <1>4, <1>5 DEF Owes
<1>10. CountInv'
  BY <1>8, <1>9, SameCount
<1>11. QED BY <1>6, <1>7, <1>10

\* A call that is not counted down returns; a request may have been sent.
LEMMA ReturnKeeps ==
  ASSUME CallsInv, stack # << >>, stack' = Front(stack), log' = log, s' = s, active' = active,
         Top.at \in DoneEvents => ~s[Top.r].global,
         DOMAIN jqXHR' = Requests, \A q \in Requests : CallShape(jqXHR'[q]),
         \A q \in Requests :
           \/ jqXHR'[q].state = jqXHR[q].state
           \/ /\ q = Top.r /\ Top.at \in CallEvents
              /\ jqXHR[q].state = 0 /\ jqXHR'[q].state = 1,
         TransportsFit'
  PROVE  CallsInv'
<1> USE DEF CallsInv
<1> DEFINE n == Len(stack)
<1>1. /\ n \in DOMAIN stack /\ stack[n] = Top /\ Top \in Frames /\ DOMAIN stack = 1..n /\ n \in Nat \ {0}
      /\ stack' \in Seq(Frames) /\ DOMAIN stack' = 1..(n - 1)
      /\ \A i \in 1..(n - 1) : stack'[i] = stack[i]
  BY TopOfStack
<1> HIDE DEF n
<1>2. /\ \A i \in DOMAIN stack' : i \in DOMAIN stack /\ i # n /\ stack'[i] = stack[i]
      /\ \A i \in DOMAIN stack : i = n \/ i \in DOMAIN stack'
  BY <1>1
<1>3. AjaxTypeOK'
  BY <1>1 DEF AjaxTypeOK
<1>4. FramesFit'
  <2> SUFFICES ASSUME NEW i \in DOMAIN stack'
               PROVE  /\ stack[i].at \in CallEvents =>
                           /\ jqXHR'[stack[i].r].state \in {0, 2}
                           /\ \A j \in DOMAIN stack' : stack[j].r = stack[i].r /\ stack[j].at \in CallEvents => i = j
                      /\ stack[i].at \in DoneEvents =>
                           /\ jqXHR'[stack[i].r].state = 2
                           /\ \A j \in DOMAIN stack' : stack[j].r = stack[i].r /\ stack[j].at \in DoneEvents => i = j
                      /\ stack[i].at \in {"ajaxResult", "ajaxComplete"} => s'[stack[i].r].global
    BY <1>2 DEF FramesFit
  <2>1. i \in DOMAIN stack /\ i # n
    BY <1>2
  <2>2. stack[i].r \in Requests
    <3>1. stack[i] \in Frames
      BY ElementOfSeq, <2>1 DEF AjaxTypeOK
    <3>2. QED BY <3>1 DEF Frames
  <2>3. stack[i].at \in CallEvents \cup DoneEvents => jqXHR'[stack[i].r].state = jqXHR[stack[i].r].state
    BY <1>1, <2>1, <2>2 DEF FramesFit
  <2>4. QED BY <1>2, <2>1, <2>3 DEF FramesFit
<1>5. LogInv(log', active)
  BY DEF CountInv
<1>6. ASSUME NEW q \in Requests PROVE Owes(q)' <=> Owes(q)
  <2>1. s[q].global =>
          ((\E i \in DOMAIN stack' : stack'[i].r = q /\ stack'[i].at \in DoneEvents)
            <=> \E i \in DOMAIN stack : stack[i].r = q /\ stack[i].at \in DoneEvents)
    BY <1>1, <1>2
  <2>2. jqXHR'[q].state \in {0, 1} <=> jqXHR[q].state \in {0, 1}
    OBVIOUS
  <2>3. QED BY <2>1, <2>2 DEF Owes
<1>7. CountInv'
  BY <1>5, <1>6, SameCount
<1>8. QED BY <1>3, <1>4, <1>7

\* Nothing that is counted changes.
LEMMA NothingCountedChanges ==
  ASSUME CallsInv, stack' = stack, log' = log, s' = s, active' = active,
         DOMAIN jqXHR' = Requests, \A q \in Requests : CallShape(jqXHR'[q]),
         \A q \in Requests : jqXHR'[q].state = jqXHR[q].state,
         TransportsFit'
  PROVE  CallsInv'
<1> USE DEF CallsInv
<1>1. AjaxTypeOK'
  BY DEF AjaxTypeOK
<1>2. \A i \in DOMAIN stack : stack[i].r \in Requests
  <2>1. ASSUME NEW i \in DOMAIN stack PROVE stack[i] \in Frames
    BY <2>1, ElementOfSeq DEF AjaxTypeOK
  <2>2. QED BY <2>1 DEF Frames
<1>3. FramesFit'
  BY <1>2 DEF FramesFit
<1>4. \A q \in Requests : Owes(q)' <=> Owes(q)
  BY DEF Owes
<1>5. LogInv(log', active)
  BY DEF CountInv
<1>6. CountInv'
  BY <1>4, <1>5, SameCount
<1>7. QED BY <1>1, <1>3, <1>6

\* A call of ajax begins: the request is counted when its events are global.
LEMMA AjaxKeeps ==
  ASSUME CallsInv, Ajax
  PROVE  CallsInv'
<1> USE DEF CallsInv
<1>1. PICK r \in Requests :
        /\ jqXHR[r].state = -1
        /\ InstallCallback(r)
        /\ active' = IF s[r].global THEN active + 1 ELSE active
        /\ \E entry \in {"ajaxStart", "beforeSend"} :
             /\ entry = "ajaxStart" <=> s[r].global /\ active = 0
             /\ stack' = Append(stack, Frame(r, entry, FALSE))
             /\ log' = Append(log, << entry, r >>)
        /\ s' = s /\ network' = network
  BY DEF Ajax
<1>2. PICK entry \in {"ajaxStart", "beforeSend"} :
        /\ entry = "ajaxStart" <=> s[r].global /\ active = 0
        /\ stack' = Append(stack, Frame(r, entry, FALSE))
        /\ log' = Append(log, << entry, r >>)
  BY <1>1
<1> DEFINE f == Frame(r, entry, FALSE)
<1>3. f \in Frames /\ f.r = r /\ f.at = entry
  BY <1>2 DEF Frame, Frames, CallEvents
<1> HIDE DEF f
<1>4. /\ DOMAIN jqXHR' = Requests /\ \A q \in Requests : CallShape(jqXHR'[q])
      /\ jqXHR'[r].state = 0
      /\ jqXHR'[r].transport = jqXHR[r].transport /\ jqXHR'[r].callback = jqXHR[r].callback
      /\ \A q \in Requests \ {r} : jqXHR'[q] = jqXHR[q]
  BY <1>1 DEF InstallCallback, AjaxTypeOK, CallShape
<1>5. /\ stack' \in Seq(Frames) /\ DOMAIN stack' = 1..Len(stack') /\ Len(stack') \in Nat
      /\ stack'[Len(stack')] = f /\ Len(stack') \in DOMAIN stack' /\ Len(stack') \notin DOMAIN stack
      /\ \A i \in DOMAIN stack : i \in DOMAIN stack' /\ stack'[i] = stack[i]
      /\ \A i \in DOMAIN stack' : i = Len(stack') \/ (i \in DOMAIN stack /\ stack'[i] = stack[i])
  <2>1. stack' = Append(stack, f)
    BY <1>2 DEF f
  <2>2. /\ stack' \in Seq(Frames) /\ Len(stack') \in Nat /\ DOMAIN stack' = 1..Len(stack')
        /\ DOMAIN stack = 1..(Len(stack') - 1) /\ Len(stack') >= 1
        /\ stack'[Len(stack')] = f
        /\ \A i \in DOMAIN stack : stack'[i] = stack[i]
    BY <1>3, <2>1, CallOnTop
  <2>3. QED BY <2>2
<1>6. \A i \in DOMAIN stack : stack[i].r \in Requests
  <2>1. ASSUME NEW i \in DOMAIN stack PROVE stack[i] \in Frames
    BY <2>1, ElementOfSeq DEF AjaxTypeOK
  <2>2. QED BY <2>1 DEF Frames
<1>7. \A i \in DOMAIN stack : stack[i].at \in CallEvents \cup DoneEvents => stack[i].r # r
  BY <1>1, <1>6 DEF FramesFit
<1>8. AjaxTypeOK'
  BY <1>1, <1>4, <1>5 DEF AjaxTypeOK
<1>9. FramesFit'
  <2> SUFFICES ASSUME NEW i \in DOMAIN stack'
               PROVE  /\ stack'[i].at \in CallEvents =>
                           /\ jqXHR'[stack'[i].r].state \in {0, 2}
                           /\ \A j \in DOMAIN stack' : stack'[j].r = stack'[i].r /\ stack'[j].at \in CallEvents => i = j
                      /\ stack'[i].at \in DoneEvents =>
                           /\ jqXHR'[stack'[i].r].state = 2
                           /\ \A j \in DOMAIN stack' : stack'[j].r = stack'[i].r /\ stack'[j].at \in DoneEvents => i = j
                      /\ stack'[i].at \in {"ajaxResult", "ajaxComplete"} => s'[stack'[i].r].global
    BY DEF FramesFit
  <2>1. CASE i = Len(stack')
    <3>1. stack'[i].r = r /\ stack'[i].at \in {"ajaxStart", "beforeSend"}
      BY <1>2, <1>3, <1>5, <2>1
    <3>2. \A j \in DOMAIN stack' : stack'[j].at \in CallEvents /\ stack'[j].r = r => i = j
      BY <1>5, <1>7, <2>1
    <3>3. jqXHR'[r].state = 0 /\ stack'[i].at \notin DoneEvents \cup {"ajaxResult", "ajaxComplete"}
      BY <1>4, <3>1 DEF DoneEvents
    <3>4. QED BY <3>1, <3>2, <3>3
  <2>2. CASE i # Len(stack')
    <3>1. i \in DOMAIN stack /\ stack'[i] = stack[i] /\ stack[i].r \in Requests
      BY <1>5, <1>6, <2>2
    <3>2. stack[i].at \in CallEvents \cup DoneEvents => jqXHR'[stack[i].r] = jqXHR[stack[i].r]
      BY <1>4, <1>7, <3>1
    <3>3. \A j \in DOMAIN stack' : stack[i].at \in CallEvents \cup DoneEvents =>
            stack'[j].r # stack[i].r \/ (j \in DOMAIN stack /\ stack'[j] = stack[j])
      BY <1>3, <1>5, <1>7, <3>1
    <3>4. stack[i].at \in {"ajaxResult", "ajaxComplete"} => s[stack[i].r].global
      BY <3>1 DEF FramesFit
    <3>5. stack[i].at \in CallEvents =>
            /\ jqXHR'[stack[i].r].state \in {0, 2}
            /\ \A j \in DOMAIN stack' : stack'[j].r = stack[i].r /\ stack'[j].at \in CallEvents => i = j
      BY <3>1, <3>2, <3>3 DEF FramesFit
    <3>6. stack[i].at \in DoneEvents =>
            /\ jqXHR'[stack[i].r].state = 2
            /\ \A j \in DOMAIN stack' : stack'[j].r = stack[i].r /\ stack'[j].at \in DoneEvents => i = j
      BY <3>1, <3>2, <3>3 DEF FramesFit
    <3>7. QED BY <1>1, <3>1, <3>4, <3>5, <3>6
  <2>3. QED BY <2>1, <2>2
<1>10. TransportsFit'
  BY <1>1, <1>4 DEF TransportsFit
<1>11. IsFiniteSet(Counted) /\ active = Cardinality(Counted) /\ active \in Nat
  BY FS_CardinalityType DEF CountInv, ActiveIsCounted
<1>12. LogInv(log', active')
  <2>1. entry \in Logged /\ entry # "ajaxStop"
    BY <1>2 DEF Logged, CallEvents
  <2>2. entry = "ajaxStart" => active = 0 /\ active' # 0
    BY <1>1, <1>2, <1>11
  <2>3. entry # "ajaxStart" => (active = 0 <=> active' = 0)
    BY <1>1, <1>2, <1>11
  <2>4. LogInv(log, active)
    BY DEF CountInv
  <2>5. LogInv(Append(log, << entry, r >>), active')
    BY <2>1, <2>2, <2>3, <2>4, LogGrows
  <2>6. QED BY <1>2, <2>5
<1>13. Counted' = Counted \cup (IF s[r].global THEN {r} ELSE {}) /\ r \notin Counted
  <2>1. Owes(r)' <=> s[r].global
    BY <1>1, <1>2, <1>3, <1>4, <1>5, <1>7 DEF Owes, DoneEvents
  <2>2. ~Owes(r)
    BY <1>1, <1>7 DEF Owes
  <2>3. ASSUME NEW q \in Requests, q # r PROVE Owes(q)' <=> Owes(q)
    <3>1. (\E i \in DOMAIN stack' : stack'[i].r = q /\ stack'[i].at \in DoneEvents)
            <=> \E i \in DOMAIN stack : stack[i].r = q /\ stack[i].at \in DoneEvents
      BY <1>3, <1>5, <2>3
    <3>2. QED BY <1>1, <1>4, <2>3, <3>1 DEF Owes
  <2>4. QED BY <2>1, <2>2, <2>3 DEF Counted
<1>14. ActiveIsCounted'
  <2>1. IsFiniteSet(Counted') /\ Cardinality(Counted') = active'
    <3>1. CASE s[r].global
      BY <1>1, <1>11, <1>13, <3>1, FS_AddElement
    <3>2. CASE ~s[r].global
      BY <1>1, <1>11, <1>13, <3>2
    <3>3. QED BY <3>1, <3>2
  <2>2. QED BY <2>1 DEF ActiveIsCounted
<1>15. LogInv(log, active)'
  BY <1>12 DEF LogInv, MarksOf, Running
<1>16. QED BY <1>8, <1>9, <1>10, <1>14, <1>15 DEF CountInv

\* The request of the top call is counted down, and the last one stops the counting.
LEMMA CountDownKeeps ==
  ASSUME CallsInv, CountDown
  PROVE  CallsInv'
<1> USE DEF CallsInv
<1> DEFINE n == Len(stack)
<1>0. PICK r \in Requests : r = Top.r
  <2>1. Top \in Frames
    BY TopOfStack DEF CountDown, At
  <2>2. QED BY <2>1 DEF Frames
<1>1. /\ stack # << >> /\ Top.at = "ajaxComplete" /\ active' = active - 1
      /\ \/ /\ active' = 0 /\ stack' = Append(Front(stack), [Top EXCEPT !.at = "ajaxStop"])
            /\ log' = Append(log, << "ajaxStop", r >>)
         \/ active' # 0 /\ stack' = Front(stack) /\ log' = log
      /\ s' = s /\ jqXHR' = jqXHR /\ network' = network
  BY <1>0 DEF CountDown, At, Continue, Leave
<1>2. /\ n \in DOMAIN stack /\ stack[n] = Top /\ Top \in Frames /\ DOMAIN stack = 1..n /\ n \in Nat \ {0}
      /\ Front(stack) \in Seq(Frames) /\ DOMAIN Front(stack) = 1..(n - 1)
      /\ \A i \in 1..(n - 1) : Front(stack)[i] = stack[i]
  BY <1>1, TopOfStack
<1> HIDE DEF n
<1>4. /\ stack' \in Seq(Frames)
      /\ \A i \in DOMAIN stack' : \/ i \in DOMAIN stack /\ i # n /\ stack'[i] = stack[i]
                                  \/ i = n /\ stack'[i].at = "ajaxStop"
      /\ \A i \in DOMAIN stack : i = n \/ (i \in DOMAIN stack' /\ stack'[i] = stack[i])
  <2>1. CASE stack' = Front(stack)
    BY <1>2, <2>1
  <2>2. CASE stack' = Append(Front(stack), [Top EXCEPT !.at = "ajaxStop"])
    <3> DEFINE f == [Top EXCEPT !.at = "ajaxStop"]
    <3>1. f \in Frames /\ f.at = "ajaxStop"
      BY <1>2 DEF Frames
    <3>0. stack' = Append(Front(stack), f) /\ stack # << >>
      BY <1>1, <2>2
    <3> HIDE DEF f
    <3>2. /\ stack' \in Seq(Frames) /\ Len(stack') \in Nat /\ DOMAIN stack' = 1..Len(stack')
          /\ DOMAIN Front(stack) = 1..(Len(stack') - 1) /\ Len(stack') >= 1
          /\ stack'[Len(stack')] = f
          /\ \A i \in DOMAIN Front(stack) : stack'[i] = stack[i]
      BY <3>0, <3>1, CallOnTop
    <3>3. 1..(n - 1) = 1..(Len(stack') - 1)
      BY <1>2, <3>2
    <3>4. n = Len(stack')
      BY <1>2, <3>2, <3>3
    <3>5. QED BY <1>2, <3>1, <3>2, <3>4
  <2>3. QED BY <1>1, <2>1, <2>2
<1>5. AjaxTypeOK'
  BY <1>1, <1>4 DEF AjaxTypeOK
<1>6. FramesFit'
  BY <1>1, <1>4 DEF FramesFit, CallEvents, DoneEvents
<1>7. TransportsFit'
  BY <1>1 DEF TransportsFit
<1>8. /\ s[r].global /\ jqXHR[r].state = 2
      /\ \A i \in DOMAIN stack : stack[i].r = r /\ stack[i].at \in DoneEvents => i = n
  BY <1>0, <1>1, <1>2 DEF FramesFit, DoneEvents
<1>9. Counted' = Counted \ {r} /\ r \in Counted
  <2>1. Owes(r)
    BY <1>0, <1>1, <1>2, <1>8 DEF Owes, DoneEvents
  <2>2. ~Owes(r)'
    <3>1. \A i \in DOMAIN stack' : stack'[i].r = r => stack'[i].at \notin DoneEvents
      BY <1>4, <1>8 DEF DoneEvents
    <3>2. QED BY <1>1, <1>8, <3>1 DEF Owes
  <2>3. ASSUME NEW q \in Requests, q # r PROVE Owes(q)' <=> Owes(q)
    <3>1. (\E i \in DOMAIN stack' : stack'[i].r = q /\ stack'[i].at \in DoneEvents)
            <=> \E i \in DOMAIN stack : stack[i].r = q /\ stack[i].at \in DoneEvents
      BY <1>0, <1>2, <1>4, <2>3 DEF DoneEvents
    <3>2. QED BY <1>1, <3>1 DEF Owes
  <2>4. QED BY <1>0, <2>1, <2>2, <2>3 DEF Counted
<1>10. IsFiniteSet(Counted) /\ active = Cardinality(Counted) /\ active \in Nat
  BY FS_CardinalityType DEF CountInv, ActiveIsCounted
<1>11. IsFiniteSet(Counted') /\ Cardinality(Counted') = active' /\ active' \in Nat /\ active # 0
  <2>1. IsFiniteSet(Counted \ {r}) /\ Cardinality(Counted \ {r}) = active - 1
    BY <1>9, <1>10, FS_RemoveElement
  <2>2. Cardinality(Counted \ {r}) \in Nat
    BY <2>1, FS_CardinalityType
  <2>3. QED BY <1>1, <1>9, <1>10, <2>1, <2>2
<1>12. LogInv(log', active')
  <2>1. LogInv(log, active)
    BY DEF CountInv
  <2>2. CASE active' = 0 /\ log' = Append(log, << "ajaxStop", r >>)
    <3> DEFINE entry == "ajaxStop"
    <3>1. entry \in Logged /\ entry # "ajaxStart"
      BY DEF Logged
    <3>2. LogInv(Append(log, << entry, r >>), active')
      BY <1>0, <1>11, <2>1, <2>2, <3>1, LogGrows
    <3>3. QED BY <2>2, <3>2
  <2>3. CASE active' # 0 /\ log' = log
    BY <1>11, <2>1, <2>3 DEF LogInv
  <2>4. QED BY <1>1, <2>2, <2>3
<1>13. LogInv(log, active)'
  BY <1>12 DEF LogInv, MarksOf, Running
<1>14. ActiveIsCounted'
  BY <1>11 DEF ActiveIsCounted
<1>15. QED BY <1>5, <1>6, <1>7, <1>13, <1>14 DEF CountInv

\* A step of ajax or done, and of what comes from outside, when no request is done twice.
LEMMA CallsKeep ==
  ASSUME CallsInv, AjaxNext, twice = {}, twice' = {}
  PROVE  CallsInv'
<1> USE DEF CallsInv
<1>1. ASSUME stack # << >>
      PROVE  /\ Top \in Frames /\ Top.r \in Requests
             /\ Top.at \in CallEvents => jqXHR[Top.r].state \in {0, 2}
             /\ Top.at \in {"ajaxResult", "ajaxComplete"} => s[Top.r].global
  <2>1. Top \in Frames /\ Len(stack) \in DOMAIN stack /\ stack[Len(stack)] = Top
    BY <1>1, TopOfStack
  <2>2. QED BY <2>1 DEF FramesFit, Frames
<1>2. DOMAIN jqXHR = Requests /\ \A q \in Requests : CallShape(jqXHR[q])
  BY DEF AjaxTypeOK
<1>3. CASE TriggerResult
  <2>1. /\ stack # << >> /\ Top.at = "settled" /\ s[Top.r].global
        /\ stack' = Append(Front(stack), [Top EXCEPT !.at = "ajaxResult"])
        /\ log' = Append(log, << "ajaxResult", Top.r >>)
        /\ s' = s /\ active' = active /\ jqXHR' = jqXHR /\ network' = network
    BY <1>3 DEF TriggerResult, At, Continue
  <2>2. TransportsFit'
    BY <2>1 DEF TransportsFit
  <2>3. "ajaxResult" \in DoneEvents /\ Top.at \in DoneEvents
    BY <2>1 DEF DoneEvents
  <2>4. QED BY <1>2, <2>1, <2>2, <2>3, TopMovesKeeps
<1>4. CASE Complete
  <2>1. /\ stack # << >> /\ Top.at \in {"settled", "ajaxResult"}
        /\ stack' = Append(Front(stack), [Top EXCEPT !.at = "complete"])
        /\ log' = log \/ log' = Append(log, << "complete", Top.r >>)
        /\ s' = s /\ active' = active /\ network' = network
        /\ jqXHR' = [jqXHR EXCEPT ![Top.r].completed = TRUE]
    BY <1>4 DEF Complete, At, Continue
  <2>2. /\ DOMAIN jqXHR' = Requests /\ \A q \in Requests : CallShape(jqXHR'[q])
        /\ \A q \in Requests : /\ jqXHR'[q].state = jqXHR[q].state
                               /\ jqXHR'[q].transport = jqXHR[q].transport
                               /\ jqXHR'[q].callback = jqXHR[q].callback
    BY <1>2, <2>1 DEF CallShape
  <2>3. TransportsFit'
    BY <2>1, <2>2 DEF TransportsFit
  <2>4. "complete" \in DoneEvents /\ Top.at \in DoneEvents
    BY <2>1 DEF DoneEvents
  <2>5. QED BY <2>1, <2>2, <2>3, <2>4, TopMovesKeeps
<1>5. CASE TriggerComplete
  <2>1. /\ stack # << >> /\ Top.at = "complete"
        /\ s' = s /\ active' = active /\ jqXHR' = jqXHR /\ network' = network
        /\ \/ /\ s[Top.r].global
              /\ stack' = Append(Front(stack), [Top EXCEPT !.at = "ajaxComplete"])
              /\ log' = Append(log, << "ajaxComplete", Top.r >>)
           \/ ~s[Top.r].global /\ stack' = Front(stack) /\ log' = log
    BY <1>5 DEF TriggerComplete, At, Continue, Leave
  <2>2. TransportsFit'
    BY <2>1 DEF TransportsFit
  <2>3. "ajaxComplete" \in DoneEvents /\ Top.at \in DoneEvents
    BY <2>1 DEF DoneEvents
  <2>4. CASE s[Top.r].global
    BY <1>2, <2>1, <2>2, <2>3, <2>4, TopMovesKeeps
  <2>5. CASE ~s[Top.r].global
    BY <1>2, <2>1, <2>2, <2>5, ReturnKeeps
  <2>6. QED BY <2>4, <2>5
<1>6. CASE CountDown
  BY <1>6, CountDownKeeps
<1>7. CASE DoneReturns
  <2>1. /\ stack # << >> /\ Top.at \notin DoneEvents /\ stack' = Front(stack) /\ log' = log
        /\ s' = s /\ active' = active /\ jqXHR' = jqXHR /\ network' = network
    BY <1>7 DEF DoneReturns, At, Leave, DoneEvents
  <2>2. TransportsFit'
    BY <2>1 DEF TransportsFit
  <2>3. QED BY <1>2, <2>1, <2>2, ReturnKeeps
<1>8. CASE CallBeforeSend
  <2>1. /\ stack # << >> /\ Top.at = "ajaxStart"
        /\ stack' = Append(Front(stack), [Top EXCEPT !.at = "beforeSend"])
        /\ log' = Append(log, << "beforeSend", Top.r >>)
        /\ s' = s /\ active' = active /\ jqXHR' = jqXHR /\ network' = network
    BY <1>8 DEF CallBeforeSend, At, Continue
  <2>2. TransportsFit'
    BY <2>1 DEF TransportsFit
  <2>3. "beforeSend" \in CallEvents \ {"ajaxStart"} /\ Top.at \in CallEvents
    BY <2>1 DEF CallEvents
  <2>4. QED BY <1>2, <2>1, <2>2, <2>3, TopMovesKeeps
<1>9. CASE Cancel
  <2>1. stack # << >> /\ Top.at = "beforeSend" /\ network' = network
    BY <1>9 DEF Cancel, At
  <2>2. Top.at \in CallEvents /\ Top.at \notin DoneEvents
    BY <2>1 DEF CallEvents, DoneEvents
  <2>3. CASE jqXHR[Top.r].state = 2
    <3>1. /\ stack' = Front(stack) /\ log' = log
          /\ s' = s /\ active' = active /\ jqXHR' = jqXHR
      BY <1>9, <2>3 DEF Cancel, Leave
    <3>2. TransportsFit'
      BY <2>1, <3>1 DEF TransportsFit
    <3>3. QED BY <1>2, <2>1, <2>2, <3>1, <3>2, ReturnKeeps
  <2>4. CASE jqXHR[Top.r].state # 2
    <3>1. Done(Top.r, jqXHR, FALSE, Front(stack)) /\ Top.r \in Requests /\ jqXHR[Top.r].state = 0
      BY <1>1, <1>9, <2>1, <2>2, <2>4 DEF Cancel
    <3>2. Top.r \in network' => s[Top.r].transport # "xhr"
      BY <2>1, <3>1 DEF TransportsFit
    <3>3. QED BY <1>2, <2>1, <2>2, <3>1, <3>2, DoneKeeps
  <2>5. QED BY <2>3, <2>4
<1>10. CASE FindTransport
  <2> DEFINE prepared == [jqXHR EXCEPT ![Top.r].installed = TRUE,
                                       ![Top.r].transport = s[Top.r].transport # "none"]
  <2>1. stack # << >> /\ Top.at = "beforeSend" /\ network' = network /\ jqXHR[Top.r].state # 2
    BY <1>10 DEF FindTransport, At
  <2>2. Top.at \in CallEvents /\ "ajaxSend" \in CallEvents \ {"ajaxStart"}
    BY <2>1 DEF CallEvents
  <2>3. Top.r \in Requests /\ jqXHR[Top.r].state = 0
    BY <1>1, <2>1, <2>2
  <2>4. /\ DOMAIN prepared = Requests /\ \A q \in Requests : CallShape(prepared[q])
        /\ \A q \in Requests : /\ prepared[q].state = jqXHR[q].state
                               /\ prepared[q].callback = jqXHR[q].callback
        /\ \A q \in Requests \ {Top.r} : prepared[q] = jqXHR[q]
    BY <1>2, <2>3 DEF CallShape
  <2>5. \/ Done(Top.r, prepared, FALSE, Front(stack))
        \/ /\ jqXHR' = prepared
           /\ stack' = Append(Front(stack), [Top EXCEPT !.at = "ajaxSend"])
           /\ log' = log \/ log' = Append(log, << "ajaxSend", Top.r >>)
           /\ s' = s /\ active' = active
    BY <1>10 DEF FindTransport, Continue
  <2> HIDE DEF prepared
  <2>6. CASE Done(Top.r, prepared, FALSE, Front(stack))
    <3>1. Top.r \in network' => s[Top.r].transport # "xhr"
      BY <2>1, <2>3 DEF TransportsFit
    <3>2. QED BY <2>1, <2>2, <2>3, <2>4, <2>6, <3>1, DoneKeeps
  <2>7. CASE jqXHR' = prepared /\ stack' = Append(Front(stack), [Top EXCEPT !.at = "ajaxSend"])
             /\ (log' = log \/ log' = Append(log, << "ajaxSend", Top.r >>))
             /\ s' = s /\ active' = active
    <3>1. TransportsFit'
      BY <2>1, <2>3, <2>4, <2>7 DEF TransportsFit
    <3>2. QED BY <2>1, <2>2, <2>4, <2>7, <3>1, TopMovesKeeps
  <2>8. QED BY <2>5, <2>6, <2>7
<1>11. CASE Send
  <2> DEFINE sent == [jqXHR EXCEPT ![Top.r].timer = s[Top.r].timeout, ![Top.r].state = 1]
  <2>1. stack # << >> /\ Top.at = "ajaxSend"
    BY <1>11 DEF Send, At
  <2>2. Top.at \in CallEvents /\ Top.at \notin DoneEvents
    BY <2>1 DEF CallEvents, DoneEvents
  <2>3. Top.r \in Requests /\ jqXHR[Top.r].state \in {0, 2}
    BY <1>1, <2>1, <2>2
  <2>4. CASE /\ jqXHR[Top.r].transport
             /\ jqXHR' = [sent EXCEPT ![Top.r].callback = TRUE]
             /\ network' = network \cup {Top.r}
             /\ stack' = Front(stack) /\ log' = log /\ s' = s /\ active' = active
    <3>1. jqXHR[Top.r].state = 0
      BY <2>3, <2>4 DEF TransportsFit
    <3>2. /\ DOMAIN jqXHR' = Requests /\ \A q \in Requests : CallShape(jqXHR'[q])
          /\ jqXHR'[Top.r].state = 1
          /\ \A q \in Requests \ {Top.r} : jqXHR'[q] = jqXHR[q]
      BY <1>2, <2>3, <2>4 DEF CallShape
    <3>3. TransportsFit'
      BY <2>3, <2>4, <3>2 DEF TransportsFit
    <3>4. QED BY <2>1, <2>2, <2>4, <3>1, <3>2, <3>3, ReturnKeeps
  <2>5. CASE /\ Done(Top.r, sent, FALSE, Front(stack))
             /\ twice' = IF jqXHR[Top.r].state = 2 THEN twice \cup {Top.r} ELSE twice
             /\ network' = network
    <3>1. jqXHR[Top.r].state = 0
      BY <2>3, <2>5
    <3>2. /\ DOMAIN sent = Requests /\ \A q \in Requests : CallShape(sent[q])
          /\ \A q \in Requests \ {Top.r} : sent[q] = jqXHR[q]
      BY <1>2, <2>3 DEF CallShape
    <3>3. Top.r \in network' => s[Top.r].transport # "xhr"
      BY <2>3, <2>5, <3>1 DEF TransportsFit
    <3> HIDE DEF sent
    <3>4. QED BY <2>1, <2>2, <2>3, <2>5, <3>1, <3>2, <3>3, DoneKeeps
  <2>6. QED BY <1>11, <2>4, <2>5 DEF Send, Leave
<1>12. CASE Ajax
  BY <1>12, AjaxKeeps
<1>13. ASSUME NEW r \in Requests, Abort(r) PROVE CallsInv'
  <2>1. /\ jqXHR[r].state \in {0, 1} /\ Done(r, jqXHR, FALSE, stack)
        /\ network' \subseteq network /\ (r \in network' => s[r].transport # "xhr")
    BY <1>13 DEF Abort
  <2>2. QED BY <1>2, <2>1, DoneKeeps
<1>14. CASE AbortRequest \/ TimeoutFires
  BY <1>13, <1>14 DEF AbortRequest, TimeoutFires
<1>15. CASE Answer
  <2>1. PICK r \in network, success \in BOOLEAN :
          /\ stack = << >> /\ s[r].transport = "xhr" /\ network' = network \ {r}
          /\ Done(r, jqXHR, success, stack)
    BY <1>15 DEF Answer
  <2>2. r \in Requests /\ jqXHR[r].state = 1
    BY <2>1 DEF TransportsFit
  <2>3. network' \subseteq network /\ r \notin network'
    BY <2>1
  <2>4. QED BY <1>2, <2>1, <2>2, <2>3, DoneKeeps
<1>16. CASE ScriptRuns
  <2>0. PICK r \in network : \E named :
          /\ named = jqXHR \/ named = [jqXHR EXCEPT ![window[jqXHR[r].name]].container = r]
          /\ stack = << >> /\ network' = network \ {r}
          /\ IF jqXHR[r].callback
             THEN Done(r, named, named[r].container # Nobody, stack)
             ELSE jqXHR' = named /\ s' = s /\ active' = active /\ stack' = stack /\ log' = log
    BY <1>16 DEF ScriptRuns
  <2>1. PICK named :
          /\ named = jqXHR \/ named = [jqXHR EXCEPT ![window[jqXHR[r].name]].container = r]
          /\ stack = << >> /\ network' = network \ {r}
          /\ IF jqXHR[r].callback
             THEN Done(r, named, named[r].container # Nobody, stack)
             ELSE jqXHR' = named /\ s' = s /\ active' = active /\ stack' = stack /\ log' = log
    BY <2>0
  <2>2. /\ DOMAIN named = Requests /\ \A q \in Requests : CallShape(named[q])
        /\ \A q \in Requests : /\ named[q].state = jqXHR[q].state
                               /\ named[q].transport = jqXHR[q].transport
                               /\ named[q].callback = jqXHR[q].callback
    BY <1>2, <2>1 DEF CallShape
  <2>3. r \in Requests /\ network' \subseteq network /\ r \notin network'
    BY <2>1 DEF TransportsFit
  <2>4. CASE jqXHR[r].callback
    <3>1. jqXHR[r].state = 1
      BY <2>3, <2>4 DEF TransportsFit
    <3>2. PICK success \in BOOLEAN : success = (named[r].container # Nobody)
      OBVIOUS
    <3>3. Done(r, named, success, stack)
      BY <2>1, <2>4, <3>2
    <3>4. QED BY <2>2, <2>3, <3>1, <3>3, DoneKeeps
  <2>5. CASE ~jqXHR[r].callback
    <3>1. TransportsFit'
      BY <2>1, <2>2, <2>3, <2>5 DEF TransportsFit
    <3>2. QED BY <2>1, <2>2, <2>5, <3>1, NothingCountedChanges
  <2>6. QED BY <2>4, <2>5
<1>17. CASE ScriptFails
  <2>1. /\ stack' = stack /\ log' = log /\ s' = s /\ active' = active /\ jqXHR' = jqXHR
        /\ network' \subseteq network
    BY <1>17 DEF ScriptFails
  <2>2. TransportsFit'
    BY <2>1 DEF TransportsFit
  <2>3. QED BY <1>2, <2>1, <2>2, NothingCountedChanges
<1>18. QED BY <1>3, <1>4, <1>5, <1>6, <1>7, <1>8, <1>9, <1>10, <1>11, <1>12, <1>14, <1>15,
              <1>16, <1>17 DEF AjaxNext, CallGoesOn

\* The invariant of the requests holds as long as none was aborted by a handler of
\* ajaxSend: jquery-1.9.1.js:8015-8028.
LEMMA AjaxInvariant ==
  AjaxSpec => []AjaxInv
<1>1. AjaxInit => AjaxInv
  <2> SUFFICES ASSUME AjaxInit PROVE CallsInv
    BY DEF AjaxInv
  <2>1. /\ stack = << >> /\ log = << >> /\ active = 0 /\ network = {} /\ s \in [Requests -> Options]
        /\ DOMAIN jqXHR = Requests
        /\ \A r \in Requests : jqXHR[r] = NotCalled
    BY DEF AjaxInit
  <2>2. AjaxTypeOK
    BY <2>1 DEF AjaxTypeOK, CallShape, NotCalled
  <2>3. FramesFit
    BY <2>1 DEF FramesFit
  <2>4. TransportsFit
    BY <2>1 DEF TransportsFit, NotCalled
  <2>5. ActiveIsCounted
    <3>1. Counted = {}
      BY <2>1 DEF Counted, Owes, NotCalled
    <3>2. QED BY <2>1, <3>1, FS_EmptySet DEF ActiveIsCounted
  <2>6. LogInv(log, active)
    BY <2>1 DEF LogInv, MarksOf, Running
  <2>7. QED BY <2>2, <2>3, <2>4, <2>5, <2>6 DEF CallsInv, CountInv
<1>2. AjaxInv /\ [AjaxNext]_avars => AjaxInv'
  <2> SUFFICES ASSUME AjaxInv, [AjaxNext]_avars, twice' = {} PROVE CallsInv'
    BY DEF AjaxInv
  <2>1. CASE AjaxNext
    <3>1. twice = {}
      BY <2>1 DEF AjaxNext, CallGoesOn, TriggerResult, Complete, TriggerComplete, CountDown, DoneReturns,
         CallBeforeSend, Cancel, FindTransport, Send, Ajax, AbortRequest, TimeoutFires, Abort, Answer,
         ScriptRuns, ScriptFails
    <3>2. QED BY <2>1, <3>1, CallsKeep DEF AjaxInv
  <2>2. CASE UNCHANGED avars
    <3>1. CallsInv
      BY <2>2 DEF AjaxInv, avars
    <3>2. QED BY <2>2, <3>1 DEF CallsInv, AjaxTypeOK, FramesFit, TransportsFit, CountInv,
               ActiveIsCounted, Counted, Owes, LogInv, MarksOf, Running, avars
  <2>3. QED BY <2>1, <2>2
<1>3. QED BY <1>1, <1>2, PTL DEF AjaxSpec

\* jquery-1.9.1.js:7877-7880, 8093-8096.  Whatever the handlers of the events start and abort,
\* ajaxStart and ajaxStop are triggered in turn, unless a request is aborted by a handler of
\* its ajaxSend.
THEOREM AjaxTheorem ==
  AjaxSpec => []StartsAndStopsAlternate
<1>1. AjaxInv => StartsAndStopsAlternate
  BY DEF AjaxInv, CallsInv, CountInv, LogInv, MarksOf, Marks, StartsAndStopsAlternate
<1>2. QED BY <1>1, AjaxInvariant, PTL

-----------------------------------------------------------------------------
(* Dialogs: the page is modal as long as a modal dialog is open.           *)

\* before is a strict total order of K.
IsOrder(before, K) ==
  /\ \A x \in K : << x, x >> \notin before
  /\ \A x, y \in K : x # y => << x, y >> \in before \/ << y, x >> \in before
  /\ \A x, y, z \in K : << x, y >> \in before /\ << y, z >> \in before => << x, z >> \in before

\* In an order each place is taken, and by one only.
LEMMA RanksAreTaken ==
  ASSUME NEW K, IsFiniteSet(K), NEW before, IsOrder(before, K)
  PROVE  /\ Ranks(K, before) \in [K -> 1..Cardinality(K)]
         /\ \A x, y \in K : << x, y >> \in before => Ranks(K, before)[x] < Ranks(K, before)[y]
         /\ \A x, y \in K : Ranks(K, before)[x] = Ranks(K, before)[y] => x = y
         /\ \A n \in 1..Cardinality(K) : \E x \in K : Ranks(K, before)[x] = n
<1> DEFINE InFrontOf(y) == {x \in K : << x, y >> \in before}
           place == Ranks(K, before)
           n == Cardinality(K)
<1>1. n \in Nat
  BY FS_CardinalityType
<1>2. ASSUME NEW y \in K
      PROVE  /\ IsFiniteSet(InFrontOf(y))
             /\ Cardinality(InFrontOf(y)) \in Nat
             /\ Cardinality(InFrontOf(y)) + 1 \in 1..n
  <2>1. InFrontOf(y) \subseteq K \ {y} /\ InFrontOf(y) \subseteq K
    BY DEF IsOrder
  <2>2. IsFiniteSet(K \ {y}) /\ Cardinality(K \ {y}) = n - 1
    BY FS_RemoveElement
  <2>3. IsFiniteSet(InFrontOf(y)) /\ Cardinality(InFrontOf(y)) <= n - 1
    BY <2>1, <2>2, FS_Subset
  <2>4. Cardinality(InFrontOf(y)) \in Nat
    BY <2>3, FS_CardinalityType
  <2>5. QED BY <1>1, <2>3, <2>4
<1>3. \A y \in K : place[y] = Cardinality(InFrontOf(y)) + 1
  BY DEF Ranks
<1>4. place \in [K -> 1..n]
  BY <1>2, <1>3 DEF Ranks
<1> HIDE DEF place
<1>5. ASSUME NEW x \in K, NEW y \in K, << x, y >> \in before
      PROVE  place[x] < place[y]
  <2>1. x \notin InFrontOf(x) /\ InFrontOf(x) \cup {x} \subseteq InFrontOf(y)
    BY <1>5 DEF IsOrder
  <2>2. Cardinality(InFrontOf(x) \cup {x}) = Cardinality(InFrontOf(x)) + 1
    BY <1>2, <2>1, FS_AddElement
  <2>3. Cardinality(InFrontOf(x) \cup {x}) <= Cardinality(InFrontOf(y))
    BY <1>2, <2>1, FS_Subset
  <2>4. /\ Cardinality(InFrontOf(x)) \in Nat /\ Cardinality(InFrontOf(y)) \in Nat
        /\ place[x] = Cardinality(InFrontOf(x)) + 1 /\ place[y] = Cardinality(InFrontOf(y)) + 1
    BY <1>2, <1>3
  <2> HIDE DEF InFrontOf
  <2>5. QED BY <2>2, <2>3, <2>4
<1>6. ASSUME NEW x \in K, NEW y \in K, place[x] = place[y]
      PROVE  x = y
  <2>1. place[x] \in Nat /\ place[y] \in Nat
    BY <1>4
  <2>2. << x, y >> \notin before
    BY <1>5, <1>6, <2>1
  <2>3. << y, x >> \notin before
    BY <1>5, <1>6, <2>1
  <2>4. QED BY <2>2, <2>3 DEF IsOrder
<1>7. place \in Injection(K, 1..n)
  BY <1>4, <1>6 DEF Injection, IsInjective
<1>8. IsFiniteSet(1..n) /\ Cardinality(1..n) = n
  BY <1>1, FS_Interval
<1>9. place \in Surjection(K, 1..n)
  BY <1>7, <1>8, FS_Injection
<1>10. \A i \in 1..n : \E x \in K : place[x] = i
  BY <1>9 DEF Surjection
<1>11. QED BY <1>4, <1>5, <1>6, <1>10 DEF place

\* What is put into another order remains the same, and is there as often.
LEMMA ReorderedIsSame ==
  ASSUME NEW S, NEW ls \in Seq(S), IsInjective(ls), NEW before, IsOrder(before, DOMAIN ls)
  PROVE  /\ InOrder(ls, DOMAIN ls, before) \in Seq(S)
         /\ IsInjective(InOrder(ls, DOMAIN ls, before))
         /\ Range(InOrder(ls, DOMAIN ls, before)) = Range(ls)
<1> DEFINE K == DOMAIN ls
           place == Ranks(K, before)
           From(n) == CHOOSE j \in K : place[j] = n
           r == InOrder(ls, DOMAIN ls, before)
<1>1. K = 1..Len(ls) /\ Len(ls) \in Nat
  OBVIOUS
<1>2. IsFiniteSet(K) /\ Cardinality(K) = Len(ls)
  BY <1>1, FS_Interval
<1>3. /\ place \in [K -> K]
      /\ \A x, y \in K : place[x] = place[y] => x = y
      /\ \A n \in K : \E x \in K : place[x] = n
  BY <1>1, <1>2, RanksAreTaken
<1> HIDE DEF place
<1>4. \A n \in K : From(n) \in K /\ place[From(n)] = n
  BY <1>3
<1>5. \A j \in K : From(place[j]) = j
  BY <1>3, <1>4
<1>6. r = [n \in K |-> ls[From(n)]]
  BY <1>1, <1>2 DEF InOrder, place
<1> HIDE DEF From, r
<1>7. r \in Seq(S)
  <2>1. \A j \in K : ls[j] \in S
    OBVIOUS
  <2>2. QED BY <1>1, <1>4, <1>6, <2>1
<1>8. IsInjective(r)
  <2>1. SUFFICES ASSUME NEW a \in K, NEW b \in K, r[a] = r[b]
                 PROVE  a = b
    BY <1>6 DEF IsInjective
  <2>2. From(a) = From(b)
    BY <1>4, <1>6, <2>1 DEF IsInjective
  <2>3. QED BY <1>4, <2>2
<1>9. Range(r) = Range(ls)
  <2>1. \A n \in K : r[n] = ls[From(n)] /\ From(n) \in K
    BY <1>4, <1>6
  <2>2. \A j \in K : ls[j] = r[place[j]] /\ place[j] \in K
    BY <1>3, <1>5, <1>6
  <2>3. DOMAIN r = K
    BY <1>6
  <2>4. ASSUME NEW y \in Range(r) PROVE y \in Range(ls)
    <3>1. PICK n \in K : y = r[n]
      BY <2>3 DEF Range
    <3>2. QED BY <2>1, <3>1 DEF Range
  <2>5. ASSUME NEW y \in Range(ls) PROVE y \in Range(r)
    <3>1. PICK j \in K : y = ls[j]
      BY DEF Range
    <3>2. QED BY <2>2, <2>3, <3>1 DEF Range
  <2>6. QED BY <2>4, <2>5
<1>10. QED BY <1>7, <1>8, <1>9 DEF r

\* A dialog that comes to the top changes the order of the layers only.
LEMMA RaisedIsSame ==
  ASSUME NEW S, NEW ls \in Seq(S), IsInjective(ls), NEW d, Box(d) \in Range(ls)
  PROVE  /\ Raised(ls, d) \in Seq(S)
         /\ IsInjective(Raised(ls, d))
         /\ Range(Raised(ls, d)) = Range(ls)
<1> DEFINE K == DOMAIN ls
           mine == CHOOSE i \in K : ls[i] = Box(d)
           Level(i) == IF i < mine THEN 1 ELSE IF i = mine THEN 3 ELSE IF Visible(ls[i]) THEN 2 ELSE 4
           before == {p \in K \X K : \/ Level(p[1]) < Level(p[2])
                                     \/ Level(p[1]) = Level(p[2]) /\ p[1] < p[2]}
<1>1. K \subseteq Int
  OBVIOUS
<1>2. \A i \in K : Level(i) \in Int
  OBVIOUS
<1>3. Raised(ls, d) = InOrder(ls, DOMAIN ls, before)
  BY DEF Raised
<1> HIDE DEF Level
<1>4. \A x, y \in K : << x, y >> \in before <=> \/ Level(x) < Level(y)
                                                \/ Level(x) = Level(y) /\ x < y
  OBVIOUS
<1> HIDE DEF before
<1>5. IsOrder(before, K)
  <2> HIDE DEF K
  <2>1. \A x \in K : << x, x >> \notin before
    BY <1>1, <1>2, <1>4
  <2>2. \A x, y \in K : x # y => << x, y >> \in before \/ << y, x >> \in before
    BY <1>1, <1>2, <1>4
  <2>3. ASSUME NEW x \in K, NEW y \in K, NEW z \in K,
               << x, y >> \in before, << y, z >> \in before
        PROVE  << x, z >> \in before
    BY <1>1, <1>2, <1>4, <2>3
  <2>4. QED BY <2>1, <2>2, <2>3 DEF IsOrder
<1>6. QED BY <1>3, <1>5, ReorderedIsSame

\* An element taken out is gone, and the others are there.
LEMMA TakenOutIsGone ==
  ASSUME NEW S, NEW ls \in Seq(S), IsInjective(ls), NEW x
  PROVE  /\ TakenOut(ls, x) \in Seq(S)
         /\ IsInjective(TakenOut(ls, x))
         /\ Range(TakenOut(ls, x)) = Range(ls) \ {x}
<1>1. CASE x \notin Range(ls)
  <2>1. TakenOut(ls, x) = ls
    BY <1>1 DEF TakenOut
  <2>2. QED BY <1>1, <2>1
<1>2. CASE x \in Range(ls)
  <2> DEFINE i == CHOOSE j \in DOMAIN ls : ls[j] = x
             r == RemoveAt(ls, i)
             n == Len(ls)
  <2>1. TakenOut(ls, x) = r
    BY <1>2 DEF TakenOut
  <2>2. i \in 1..n /\ ls[i] = x /\ n \in Nat
    BY <1>2 DEF Range
  <2> HIDE DEF i
  <2>3. /\ r \in Seq(S)
        /\ Len(r) = n - 1
        /\ \A k \in 1..(n - 1) : r[k] = IF k < i THEN ls[k] ELSE ls[k + 1]
    <3> DEFINE before == SubSeq(ls, 1, i - 1)
               behind == SubSeq(ls, i + 1, n)
    <3>1. /\ before \in Seq(S) /\ Len(before) = i - 1
          /\ \A k \in 1..(i - 1) : before[k] = ls[k]
      BY <2>2, SubSeqProperties
    <3>2. /\ behind \in Seq(S) /\ Len(behind) = n - i
          /\ \A k \in 1..(n - i) : behind[k] = ls[i + k]
      BY <2>2, SubSeqProperties
    <3>3. r = before \o behind
      BY DEF RemoveAt
    <3> HIDE DEF before, behind, r
    <3>4. /\ r \in Seq(S)
          /\ Len(r) = Len(before) + Len(behind)
          /\ \A k \in 1..(Len(before) + Len(behind)) :
               r[k] = IF k <= Len(before) THEN before[k] ELSE behind[k - Len(before)]
      BY <3>1, <3>2, <3>3, ConcatProperties
    <3>5. Len(r) = n - 1
      BY <2>2, <3>1, <3>2, <3>4
    <3>6. ASSUME NEW k \in 1..(n - 1)
          PROVE  r[k] = IF k < i THEN ls[k] ELSE ls[k + 1]
      <4>1. r[k] = IF k <= i - 1 THEN before[k] ELSE behind[k - (i - 1)]
        BY <2>2, <3>1, <3>2, <3>4
      <4>2. CASE k < i
        BY <2>2, <3>1, <4>1, <4>2
      <4>3. CASE k >= i
        <5>1. k - (i - 1) \in 1..(n - i) /\ i + (k - (i - 1)) = k + 1
          BY <2>2, <4>3
        <5>2. QED BY <2>2, <3>2, <4>1, <4>3, <5>1
      <4>4. QED BY <2>2, <4>2, <4>3
    <3>7. QED BY <3>4, <3>5, <3>6
  <2> HIDE DEF r
  <2>4. DOMAIN r = 1..(n - 1) /\ DOMAIN ls = 1..n
    BY <2>3
  <2>5. IsInjective(r)
    BY <2>2, <2>3, <2>4 DEF IsInjective
  <2>6. \A k \in 1..(n - 1) : r[k] \in Range(ls) \ {x}
    <3>1. SUFFICES ASSUME NEW k \in 1..(n - 1)
                   PROVE  r[k] \in Range(ls) /\ r[k] # x
      OBVIOUS
    <3>2. PICK j \in 1..n : r[k] = ls[j] /\ j # i
      BY <2>2, <2>3
    <3>3. QED BY <2>2, <2>4, <3>2 DEF Range, IsInjective
  <2>7. \A y \in Range(ls) \ {x} : \E k \in 1..(n - 1) : r[k] = y
    <3>1. SUFFICES ASSUME NEW j \in 1..n, ls[j] # x
                   PROVE  \E k \in 1..(n - 1) : r[k] = ls[j]
      BY <2>4 DEF Range
    <3>2. CASE j < i
      BY <2>2, <2>3, <3>2
    <3>3. CASE j > i
      <4>1. j - 1 \in 1..(n - 1) /\ r[j - 1] = ls[j]
        BY <2>2, <2>3, <3>3
      <4>2. QED BY <4>1
    <3>4. QED BY <2>2, <3>1, <3>2, <3>3
  <2>8. Range(r) = Range(ls) \ {x}
    BY <2>4, <2>6, <2>7 DEF Range
  <2>9. QED BY <2>1, <2>3, <2>5, <2>8
<1>3. QED BY <1>1, <1>2

\* A new element comes last.
LEMMA AppendedIsThere ==
  ASSUME NEW S, NEW ls \in Seq(S), IsInjective(ls), NEW x \in S, x \notin Range(ls)
  PROVE  /\ Append(ls, x) \in Seq(S)
         /\ IsInjective(Append(ls, x))
         /\ Range(Append(ls, x)) = Range(ls) \cup {x}
<1>1. /\ Append(ls, x) \in Seq(S)
      /\ DOMAIN Append(ls, x) = 1..(Len(ls) + 1)
      /\ \A i \in 1..Len(ls) : Append(ls, x)[i] = ls[i]
      /\ Append(ls, x)[Len(ls) + 1] = x
  OBVIOUS
<1>2. DOMAIN ls = 1..Len(ls) /\ Len(ls) \in Nat
  OBVIOUS
<1>3. \A i \in 1..Len(ls) : ls[i] # x
  BY <1>2 DEF Range
<1>4. IsInjective(Append(ls, x))
  BY <1>1, <1>2, <1>3 DEF IsInjective
<1>5. Range(Append(ls, x)) = Range(ls) \cup {x}
  BY <1>1, <1>2 DEF Range
<1>6. QED BY <1>1, <1>4, <1>5

-----------------------------------------------------------------------------

\* The modal dialogs that are open.
OpenModals == {d \in Created : modal[d] /\ isOpen[d]}

\* The dialogs that exist, their layers and the effects that they still have.
DialogsTypeOK ==
  /\ Created \subseteq Dialogs
  /\ modal \in [Created -> BOOLEAN]
  /\ isOpen \in [Created -> BOOLEAN]
  /\ layers \in Seq([of : Dialogs, overlay : BOOLEAN])
  /\ fades \in [Dialogs -> Seq({"show", "hide"})]
  /\ overlayInstances \in Nat
  /\ traps \in Nat
  /\ delays \in Nat

\* Each dialog has its wrapper in the document once, and each open modal one its overlay.
LayersAre ==
  /\ IsInjective(layers)
  /\ Range(layers) = {Box(d) : d \in Created} \cup {Veil(d) : d \in OpenModals}

\* There are as many overlays as open modal dialogs, which their counter says.
OverlaysAre ==
  /\ IsFiniteSet(OpenModals)
  /\ overlayInstances = Cardinality(OpenModals)

\* The effects of a dialog show and hide it in turn, and the last one does what was asked for
\* last; a dialog that is open is visible, and while it fades it still is.
FadesOf(d) ==
  /\ fades[d] # << >> => d \in Created /\ d \in Fading /\ d \in shown
  /\ fades[d] # << >> => (fades[d][Len(fades[d])] = "show" <=> isOpen[d])
  /\ \A i \in 1..(Len(fades[d]) - 1) : fades[d][i] # fades[d][i + 1]
  /\ d \in Created /\ isOpen[d] => d \in shown

\* The trap for the focus is there only while an overlay is, and until it is there the delay that
\* sets it goes on.
TrapsAre ==
  /\ traps > 0 => overlayInstances > 0
  /\ overlayInstances > 0 => traps > 0 \/ delays > 0

\* All that the theorem needs, with the effects in turn and the trap for the focus.
DialogsInv ==
  /\ DialogsTypeOK
  /\ LayersAre
  /\ OverlaysAre
  /\ \A d \in Dialogs : FadesOf(d)
  /\ TrapsAre

\* A wrapper or an overlay.
Layer == [of : Dialogs, overlay : BOOLEAN]

\* Wrappers and overlays are not confused.
LEMMA LayersDiffer ==
  /\ \A d \in Dialogs : Box(d) \in Layer /\ Veil(d) \in Layer
  /\ \A d, e : Box(d) # Veil(e) /\ (Box(d) = Box(e) => d = e) /\ (Veil(d) = Veil(e) => d = e)
BY DEF Box, Veil, Layer

\* A dialog has its wrapper in the document, and an overlay if it is modal and open.
LEMMA LayersOf ==
  ASSUME LayersAre, NEW d
  PROVE  /\ Box(d) \in Range(layers) <=> d \in Created
         /\ Veil(d) \in Range(layers) <=> d \in OpenModals
BY LayersDiffer DEF LayersAre

\* The count is that of the open modal dialogs, each has its overlay once, and so on.
LEMMA InvGivesModality == DialogsInv => ModalityHolds
<1> SUFFICES ASSUME DialogsInv
             PROVE  ModalityHolds
  OBVIOUS
<1> USE DEF DialogsInv
<1>1. ASSUME NEW d \in Dialogs
      PROVE  Cardinality({i \in DOMAIN layers : layers[i] = Veil(d)}) =
               (IF Modal(d) /\ isOpen[d] THEN 1 ELSE 0)
  <2> DEFINE I == {i \in DOMAIN layers : layers[i] = Veil(d)}
  <2>1. CASE d \in OpenModals
    <3>1. PICK i \in DOMAIN layers : layers[i] = Veil(d)
      BY <2>1, LayersOf DEF Range
    <3>2. I = {i}
      BY <3>1 DEF LayersAre, IsInjective
    <3>3. Cardinality(I) = 1
      BY <3>2, FS_Singleton
    <3>4. QED BY <2>1, <3>3 DEF OpenModals, Modal
  <2>2. CASE d \notin OpenModals
    <3>1. I = {}
      BY <2>2, LayersOf DEF Range
    <3>2. Cardinality(I) = 0
      BY <3>1, FS_EmptySet
    <3>3. ~(Modal(d) /\ isOpen[d])
      BY <2>2 DEF OpenModals, Modal
    <3>4. QED BY <3>2, <3>3
  <2>3. QED BY <2>1, <2>2
<1>2. OverlaysAreCounted
  <2>1. OpenModals = {d \in Created : modal[d] /\ isOpen[d]}
    BY DEF OpenModals
  <2>2. QED BY <1>1, <2>1 DEF OverlaysAreCounted, OverlaysAre
<1>3. traps > 0 => shown # {}
  <2>1. SUFFICES ASSUME traps > 0 PROVE shown # {}
    OBVIOUS
  <2>2. OpenModals # {}
    BY <2>1, FS_EmptySet DEF TrapsAre, OverlaysAre
  <2>3. PICK d \in OpenModals : TRUE
    BY <2>2
  <2>4. d \in Dialogs /\ d \in Created /\ isOpen[d]
    BY <2>3 DEF OpenModals, DialogsTypeOK
  <2>5. d \in shown
    BY <2>4 DEF FadesOf
  <2>6. QED BY <2>5
<1>4. delays = 0 => (traps > 0 <=> overlayInstances > 0)
  BY DEF TrapsAre, DialogsTypeOK
<1>5. QED BY <1>2, <1>3, <1>4 DEF ModalityHolds, TrapWhileModal

\* A dialog that comes to the top.
LEMMA RaisedKeeps ==
  ASSUME DialogsTypeOK, LayersAre, NEW d \in Created, layers' = Raised(layers, d),
         UNCHANGED << modal, isOpen >>
  PROVE  layers' \in Seq(Layer) /\ LayersAre'
<1>1. layers \in Seq(Layer) /\ IsInjective(layers) /\ Box(d) \in Range(layers)
  BY LayersOf DEF DialogsTypeOK, LayersAre, Layer
<1>2. /\ Raised(layers, d) \in Seq(Layer)
      /\ IsInjective(Raised(layers, d))
      /\ Range(Raised(layers, d)) = Range(layers)
  BY <1>1, RaisedIsSame
<1>3. Created' = Created /\ OpenModals' = OpenModals
  BY DEF Created, OpenModals
<1>4. QED BY <1>2, <1>3 DEF LayersAre

\* What is behind the first.
LEMMA TailIsBehind ==
  ASSUME NEW S, NEW effects \in Seq(S), effects # << >>
  PROVE  /\ Tail(effects) \in Seq(S) /\ Len(Tail(effects)) = Len(effects) - 1 /\ Len(effects) \in Nat \ {0}
         /\ \A i \in 1..(Len(effects) - 1) : Tail(effects)[i] = effects[i + 1]
         /\ \A i \in 1..Len(effects) : effects[i] \in S
         /\ Head(effects) = effects[1]
OBVIOUS

\* Effects in turn, and one more.
LEMMA EffectFollows ==
  ASSUME NEW S, NEW effects \in Seq(S), NEW x \in S,
         \A i \in 1..(Len(effects) - 1) : effects[i] # effects[i + 1],
         effects # << >> => effects[Len(effects)] # x
  PROVE  /\ Append(effects, x) # << >> /\ Append(effects, x)[Len(Append(effects, x))] = x
         /\ \A i \in 1..(Len(Append(effects, x)) - 1) : Append(effects, x)[i] # Append(effects, x)[i + 1]
<1> DEFINE t == Append(effects, x)
<1>1. /\ Len(t) = Len(effects) + 1 /\ t[Len(t)] = x /\ Len(effects) \in Nat /\ t # << >>
      /\ \A i \in 1..Len(effects) : t[i] = effects[i]
      /\ effects # << >> => Len(effects) > 0
  <2>1. /\ Len(t) = Len(effects) + 1 /\ t[Len(effects) + 1] = x /\ t \in Seq(S)
        /\ \A i \in 1..Len(effects) : t[i] = effects[i]
    BY AppendProperties
  <2>2. Len(effects) \in Nat /\ (effects # << >> => Len(effects) > 0)
    BY EmptySeq
  <2> HIDE DEF t
  <2>3. t # << >>
    BY <2>1, <2>2, EmptySeq
  <2>4. QED BY <2>1, <2>2, <2>3
<1> HIDE DEF t
<1>2. ASSUME NEW i \in 1..(Len(t) - 1) PROVE t[i] # t[i + 1]
  <2>1. CASE i = Len(effects)
    BY <1>1, <2>1
  <2>2. CASE i < Len(effects)
    <3>1. i \in 1..(Len(effects) - 1) /\ t[i] = effects[i] /\ t[i + 1] = effects[i + 1]
      BY <1>1, <2>2
    <3>2. QED BY <3>1
  <2>3. QED BY <1>1, <2>1, <2>2
<1>3. QED BY <1>1, <1>2 DEF t

\* One step of what a dialog's effects do.
LEMMA OpeningFades ==
  ASSUME DialogsInv, NEW d \in Dialogs, NEW e \in Dialogs, d \in Created => ~isOpen[d],
         d \in Created', e \in Created' \ {d} => e \in Created /\ isOpen'[e] = isOpen[e],
         e \in Created => e \in Created', isOpen'[d],
         fades' = [fades EXCEPT ![d] = IF d \in Fading THEN Append(@, "show") ELSE @],
         shown' = IF fades[d] = << >> THEN shown \cup {d} ELSE shown
  PROVE  FadesOf(e)'
<1> DEFINE effects == fades[d]
<1>1. /\ effects \in Seq({"show", "hide"})
      /\ fades'[d] = IF d \in Fading THEN Append(effects, "show") ELSE effects
      /\ e # d => fades'[e] = fades[e]
  BY DEF DialogsInv, DialogsTypeOK
<1>2. FadesOf(d) /\ FadesOf(e)
  BY DEF DialogsInv
<1>3. CASE e # d
  <2>1. e \in shown' <=> e \in shown
    BY <1>3
  <2>2. QED BY <1>1, <1>2, <1>3, <2>1 DEF FadesOf
<1>4. CASE e = d
  <2>1. d \in shown'
    BY <1>2 DEF FadesOf
  <2>2. effects # << >> => d \in Fading /\ effects[Len(effects)] = "hide"
    <3>1. SUFFICES ASSUME effects # << >> PROVE d \in Fading /\ effects[Len(effects)] = "hide"
      OBVIOUS
    <3>2. Len(effects) \in DOMAIN effects
      BY <1>1, <3>1
    <3>3. effects[Len(effects)] \in {"show", "hide"}
      BY <1>1, <3>2
    <3>4. QED BY <1>2, <3>1, <3>3 DEF FadesOf
  <2>3. CASE d \in Fading
    <3>1. \A i \in 1..(Len(effects) - 1) : effects[i] # effects[i + 1]
      BY <1>2 DEF FadesOf
    <3>2. fades'[d] = Append(effects, "show")
      BY <1>1, <2>3
    <3> HIDE DEF effects
    <3>3. /\ Append(effects, "show")[Len(Append(effects, "show"))] = "show"
          /\ \A i \in 1..(Len(Append(effects, "show")) - 1) : Append(effects, "show")[i] # Append(effects, "show")[i + 1]
      <4> DEFINE S == {"show", "hide"}
      <4>1. effects \in Seq(S) /\ "show" \in S /\ (effects # << >> => effects[Len(effects)] # "show")
        BY <1>1, <2>2
      <4> HIDE DEF S
      <4>2. QED BY <3>1, <4>1, EffectFollows
    <3>4. QED BY <1>4, <2>1, <2>3, <3>2, <3>3 DEF FadesOf
  <2>4. CASE d \notin Fading
    <3>1. fades'[d] = << >>
      BY <1>1, <2>2, <2>4
    <3>2. QED BY <1>4, <2>1, <3>1 DEF FadesOf
  <2>5. QED BY <2>3, <2>4
<1>5. QED BY <1>3, <1>4

\* Opening a dialog.
LEMMA OpeningKeeps ==
  ASSUME DialogsInv, NEW d \in Dialogs, NEW m \in BOOLEAN, NEW ls \in Seq(Layer), IsInjective(ls),
         Range(ls) = {Box(c) : c \in Created \cup {d}} \cup {Veil(c) : c \in OpenModals},
         d \in Created => ~isOpen[d] /\ m = modal[d],
         modal' = Including(modal, d, m),
         Opening(d, m, ls)
  PROVE  DialogsInv'
<1> DEFINE vs == IF m THEN Append(ls, Veil(d)) ELSE ls
           O  == OpenModals \cup (IF m THEN {d} ELSE {})
<1>1. /\ Created \subseteq Dialogs /\ modal \in [Created -> BOOLEAN] /\ isOpen \in [Created -> BOOLEAN]
      /\ overlayInstances \in Nat /\ traps \in Nat /\ delays \in Nat
      /\ fades \in [Dialogs -> Seq({"show", "hide"})]
  BY DEF DialogsInv, DialogsTypeOK
<1>2. /\ Created' = Created \cup {d}
      /\ modal' \in [Created' -> BOOLEAN] /\ isOpen' \in [Created' -> BOOLEAN]
      /\ modal'[d] = m /\ isOpen'[d]
      /\ \A c \in Created \ {d} : modal'[c] = modal[c] /\ isOpen'[c] = isOpen[c]
  BY <1>1 DEF Created, Including, Opening
<1>3. d \notin OpenModals
  BY DEF OpenModals
<1>4. OpenModals' = O
  BY <1>1, <1>2, <1>3 DEF OpenModals
<1>5. LayersAre' /\ layers' \in Seq(Layer)
  <2>1. Veil(d) \notin Range(ls) /\ Box(d) \in Range(ls) /\ Veil(d) \in Layer
    BY <1>3, LayersDiffer
  <2>2. /\ vs \in Seq(Layer) /\ IsInjective(vs)
        /\ Range(vs) = Range(ls) \cup (IF m THEN {Veil(d)} ELSE {})
    <3>1. CASE m
      BY <2>1, <3>1, AppendedIsThere
    <3>2. CASE ~m
      BY <3>2
    <3>3. QED BY <3>1, <3>2
  <2>3. layers' = Raised(vs, d)
    BY DEF Opening, LayersOpened
  <2> HIDE DEF vs
  <2>4. /\ layers' \in Seq(Layer) /\ IsInjective(layers') /\ Range(layers') = Range(vs)
    BY <2>1, <2>2, <2>3, RaisedIsSame
  <2>5. Range(layers') = {Box(c) : c \in Created'} \cup {Veil(c) : c \in OpenModals'}
    BY <1>2, <1>4, <2>2, <2>4
  <2>6. QED BY <2>4, <2>5 DEF LayersAre
<1>6. OverlaysAre'
  <2>1. IsFiniteSet(OpenModals) /\ overlayInstances = Cardinality(OpenModals)
    BY DEF DialogsInv, OverlaysAre
  <2>2. overlayInstances' = overlayInstances + (IF m THEN 1 ELSE 0)
    BY DEF Opening
  <2>3. CASE m
    <3>1. O = OpenModals \cup {d}
      BY <2>3
    <3>2. IsFiniteSet(O) /\ Cardinality(O) = Cardinality(OpenModals) + 1
      BY <1>3, <2>1, <3>1, FS_AddElement
    <3>3. QED BY <1>4, <2>1, <2>2, <2>3, <3>2 DEF OverlaysAre
  <2>4. CASE ~m
    BY <1>1, <1>4, <2>1, <2>2, <2>4 DEF OverlaysAre
  <2>5. QED BY <2>3, <2>4
<1>7. TrapsAre'
  BY <1>1 DEF DialogsInv, TrapsAre, Opening
<1>8. \A e \in Dialogs : FadesOf(e)'
  <2>1. /\ fades' = [fades EXCEPT ![d] = IF d \in Fading THEN Append(@, "show") ELSE @]
        /\ shown' = IF fades[d] = << >> THEN shown \cup {d} ELSE shown
    BY DEF Opening
  <2>2. QED BY <1>2, <2>1, OpeningFades
<1>9. DialogsTypeOK'
  <2>1. fades' \in [Dialogs -> Seq({"show", "hide"})]
    BY <1>1 DEF Opening
  <2>2. overlayInstances' \in Nat /\ delays' \in Nat /\ traps' = traps
    BY <1>1 DEF Opening
  <2>3. QED BY <1>1, <1>2, <1>5, <2>1, <2>2 DEF DialogsTypeOK, Layer
<1>10. QED BY <1>5, <1>6, <1>7, <1>8, <1>9 DEF DialogsInv

\* An overlay goes: it is one of those counted, and the last one takes the trap with it.
LEMMA OverlayGoesKeeps ==
  ASSUME DialogsInv, NEW d, OverlayGoes(d), OpenModals' = OpenModals \ {d}, delays' = delays
  PROVE  OverlaysAre' /\ TrapsAre' /\ overlayInstances' \in Nat /\ traps' \in Nat
<1>1. /\ IsFiniteSet(OpenModals) /\ overlayInstances = Cardinality(OpenModals)
      /\ overlayInstances \in Nat /\ traps \in Nat /\ delays \in Nat
      /\ Veil(d) \in Range(layers) <=> d \in OpenModals
  BY LayersOf DEF DialogsInv, DialogsTypeOK, OverlaysAre
<1>2. CASE d \in OpenModals
  <2>1. /\ IsFiniteSet(OpenModals') /\ Cardinality(OpenModals') = overlayInstances - 1
    BY <1>1, <1>2, FS_RemoveElement
  <2>2. Cardinality(OpenModals') \in Nat
    BY <2>1, FS_CardinalityType
  <2>3. overlayInstances' = overlayInstances - 1 /\ traps' = IF overlayInstances = 1 THEN 0 ELSE traps
    BY <1>1, <1>2 DEF OverlayGoes
  <2>4. QED BY <1>1, <2>1, <2>2, <2>3 DEF DialogsInv, OverlaysAre, TrapsAre
<1>3. CASE d \notin OpenModals
  <2>1. OpenModals' = OpenModals
    BY <1>3
  <2>2. overlayInstances' = overlayInstances /\ traps' = traps
    BY <1>1, <1>3 DEF OverlayGoes
  <2>3. QED BY <1>1, <2>1, <2>2 DEF DialogsInv, OverlaysAre, TrapsAre
<1>4. QED BY <1>2, <1>3

\* Closing a dialog.
LEMMA CloseKeeps ==
  ASSUME DialogsInv, NEW d \in Dialogs, CloseDialog(d)
  PROVE  DialogsInv'
<1> DEFINE effects == fades[d]
<1>1. /\ Created \subseteq Dialogs /\ modal \in [Created -> BOOLEAN] /\ isOpen \in [Created -> BOOLEAN]
      /\ fades \in [Dialogs -> Seq({"show", "hide"})] /\ layers \in Seq(Layer) /\ delays \in Nat
      /\ effects \in Seq({"show", "hide"})
  BY DEF DialogsInv, DialogsTypeOK, Layer
<1>2. /\ d \in Created /\ isOpen[d] /\ Created' = Created /\ modal' = modal
      /\ isOpen' = [isOpen EXCEPT ![d] = FALSE] /\ delays' = delays
  BY DEF CloseDialog, Created
<1>3. OpenModals' = OpenModals \ {d}
  BY <1>1, <1>2 DEF OpenModals
<1>4. OverlaysAre' /\ TrapsAre' /\ overlayInstances' \in Nat /\ traps' \in Nat
  BY <1>2, <1>3, OverlayGoesKeeps DEF CloseDialog
<1>5. layers' \in Seq(Layer) /\ LayersAre'
  <2>1. /\ layers' \in Seq(Layer) /\ IsInjective(layers')
        /\ Range(layers') = Range(layers) \ {Veil(d)}
    BY <1>1, TakenOutIsGone DEF CloseDialog, DialogsInv, LayersAre
  <2>2. Range(layers') = {Box(c) : c \in Created'} \cup {Veil(c) : c \in OpenModals'}
    BY <1>2, <1>3, <2>1, LayersDiffer DEF DialogsInv, LayersAre
  <2>3. QED BY <2>1, <2>2 DEF LayersAre
<1>6. /\ d \in Fading => fades' = [fades EXCEPT ![d] = Append(@, "hide")] /\ shown' = shown
      /\ d \notin Fading => fades' = fades /\ shown' = shown \ {d}
  BY DEF CloseDialog, Hiding
<1>7. FadesOf(d)'
  <2>1. FadesOf(d) /\ d \in shown
    BY <1>2 DEF DialogsInv, FadesOf
  <2>2. CASE d \in Fading
    <3>1. effects # << >> => effects[Len(effects)] # "hide"
      BY <1>2, <2>1 DEF FadesOf
    <3>2. \A i \in 1..(Len(effects) - 1) : effects[i] # effects[i + 1]
      BY <2>1 DEF FadesOf
    <3>3. fades'[d] = Append(effects, "hide") /\ shown' = shown /\ ~isOpen'[d]
      BY <1>1, <1>2, <1>6, <2>2
    <3> DEFINE after == Append(effects, "hide")
    <3> HIDE DEF effects
    <3>4. /\ after[Len(after)] = "hide"
          /\ \A i \in 1..(Len(after) - 1) : after[i] # after[i + 1]
      <4> DEFINE S == {"show", "hide"}
      <4>1. effects \in Seq(S) /\ "hide" \in S
        BY <1>1
      <4> HIDE DEF S
      <4>2. QED BY <3>1, <3>2, <4>1, EffectFollows
    <3> HIDE DEF after
    <3>5. fades'[d] = after /\ d \in Created' /\ d \in shown'
      BY <1>2, <2>1, <3>3 DEF after
    <3>6. ~(after[Len(after)] = "show") /\ ~isOpen'[d]
      BY <3>3, <3>4
    <3>7. QED BY <2>2, <3>4, <3>5, <3>6, Zenon DEF FadesOf
  <2>3. CASE d \notin Fading
    <3>1. fades'[d] = << >> /\ ~isOpen'[d]
      BY <1>1, <1>2, <1>6, <2>1, <2>3 DEF FadesOf
    <3>2. QED BY <3>1 DEF FadesOf
  <2>4. QED BY <2>2, <2>3
<1>8. ASSUME NEW e \in Dialogs, e # d
      PROVE  FadesOf(e)'
  <2>1. /\ fades'[e] = fades[e] /\ (e \in shown' <=> e \in shown)
        /\ e \in Created => isOpen'[e] = isOpen[e]
    BY <1>1, <1>2, <1>6, <1>8
  <2>2. QED BY <1>2, <2>1 DEF DialogsInv, FadesOf
<1>9. DialogsTypeOK'
  <2>1. fades' \in [Dialogs -> Seq({"show", "hide"})]
    <3>1. Append(effects, "hide") \in Seq({"show", "hide"})
      BY <1>1
    <3>2. fades' = [fades EXCEPT ![d] = Append(effects, "hide")] \/ fades' = fades
      BY <1>6
    <3> HIDE DEF effects
    <3>3. QED BY <1>1, <3>1, <3>2
  <2>2. isOpen' \in [Created' -> BOOLEAN]
    BY <1>1, <1>2
  <2>3. QED BY <1>1, <1>2, <1>4, <1>5, <2>1, <2>2 DEF DialogsTypeOK, Layer
<1>10. QED BY <1>4, <1>5, <1>7, <1>8, <1>9 DEF DialogsInv

\* Removing a dialog from the page.
LEMMA DestroyKeeps ==
  ASSUME DialogsInv, NEW d \in Dialogs, DestroyDialog(d)
  PROVE  DialogsInv'
<1>1. /\ Created \subseteq Dialogs /\ modal \in [Created -> BOOLEAN] /\ isOpen \in [Created -> BOOLEAN]
      /\ fades \in [Dialogs -> Seq({"show", "hide"})] /\ layers \in Seq(Layer) /\ delays \in Nat
  BY DEF DialogsInv, DialogsTypeOK, Layer
<1>2. /\ d \in Created /\ Created' = Created \ {d} /\ delays' = delays
      /\ modal' \in [Created' -> BOOLEAN] /\ isOpen' \in [Created' -> BOOLEAN]
      /\ \A c \in Created' : modal'[c] = modal[c] /\ isOpen'[c] = isOpen[c]
  BY <1>1 DEF DestroyDialog, Created, Dropped
<1>3. OpenModals' = OpenModals \ {d}
  BY <1>1, <1>2 DEF OpenModals
<1>4. OverlaysAre' /\ TrapsAre' /\ overlayInstances' \in Nat /\ traps' \in Nat
  BY <1>2, <1>3, OverlayGoesKeeps DEF DestroyDialog
<1>5. layers' \in Seq(Layer) /\ LayersAre'
  <2> DEFINE ls == TakenOut(layers, Veil(d))
  <2>1. /\ ls \in Seq(Layer) /\ IsInjective(ls)
        /\ Range(ls) = Range(layers) \ {Veil(d)}
    BY <1>1, TakenOutIsGone DEF DialogsInv, LayersAre
  <2>2. layers' = TakenOut(ls, Box(d))
    BY DEF DestroyDialog
  <2> HIDE DEF ls
  <2>3. /\ layers' \in Seq(Layer) /\ IsInjective(layers')
        /\ Range(layers') = Range(ls) \ {Box(d)}
    BY <2>1, <2>2, TakenOutIsGone
  <2>4. Range(layers') = {Box(c) : c \in Created'} \cup {Veil(c) : c \in OpenModals'}
    BY <1>2, <1>3, <2>1, <2>3, LayersDiffer DEF DialogsInv, LayersAre
  <2>5. QED BY <2>3, <2>4 DEF LayersAre
<1>6. fades' = [fades EXCEPT ![d] = << >>] /\ shown' = shown \ {d}
  BY DEF DestroyDialog
<1>7. ASSUME NEW e \in Dialogs
      PROVE  FadesOf(e)'
  <2>1. CASE e = d
    <3>1. fades'[e] = << >> /\ e \notin Created'
      BY <1>1, <1>2, <1>6, <2>1
    <3>2. QED BY <3>1 DEF FadesOf
  <2>2. CASE e # d
    <3>1. /\ fades'[e] = fades[e] /\ (e \in shown' <=> e \in shown)
          /\ e \in Created' <=> e \in Created
          /\ e \in Created => isOpen'[e] = isOpen[e]
      BY <1>1, <1>2, <1>6, <2>2
    <3>2. QED BY <3>1 DEF DialogsInv, FadesOf
  <2>3. QED BY <2>1, <2>2
<1>8. DialogsTypeOK'
  <2>1. fades' \in [Dialogs -> Seq({"show", "hide"})]
    BY <1>1, <1>6
  <2>2. QED BY <1>1, <1>2, <1>4, <1>5, <2>1 DEF DialogsTypeOK, Layer
<1>9. QED BY <1>4, <1>5, <1>7, <1>8 DEF DialogsInv

\* What has no part in the effects and overlays.
LEMMA OthersKeepFades ==
  ASSUME DialogsInv, UNCHANGED << modal, isOpen, shown, fades >>
  PROVE  /\ \A e \in Dialogs : FadesOf(e)'
         /\ Created' = Created /\ OpenModals' = OpenModals
BY DEF DialogsInv, FadesOf, Created, OpenModals

\* The end of an effect.
LEMMA EffectEndsKeeps ==
  ASSUME DialogsInv, NEW d \in Dialogs, EffectEnds(d)
  PROVE  DialogsInv'
<1> DEFINE effects == fades[d]
           t == Tail(effects)
<1>1. /\ effects \in Seq({"show", "hide"}) /\ effects # << >>
      /\ fades' = [fades EXCEPT ![d] = t]
      /\ UNCHANGED << modal, isOpen, layers, overlayInstances, traps, delays >>
      /\ fades'[d] = t
      /\ fades \in [Dialogs -> Seq({"show", "hide"})]
  BY DEF DialogsInv, DialogsTypeOK, EffectEnds
<1>2. /\ t \in Seq({"show", "hide"}) /\ Len(t) = Len(effects) - 1 /\ Len(effects) \in Nat \ {0}
      /\ \A i \in 1..(Len(effects) - 1) : t[i] = effects[i + 1]
      /\ t = << >> <=> Len(effects) = 1
      /\ \A i \in 1..Len(effects) : effects[i] \in {"show", "hide"}
      /\ t # << >> => Head(t) = effects[2]
      /\ Head(effects) = effects[1]
  <2>1. /\ t \in Seq({"show", "hide"}) /\ Len(t) = Len(effects) - 1 /\ Len(effects) \in Nat \ {0}
        /\ \A i \in 1..(Len(effects) - 1) : t[i] = effects[i + 1]
        /\ \A i \in 1..Len(effects) : effects[i] \in {"show", "hide"}
        /\ Head(effects) = effects[1]
    BY <1>1, TailIsBehind
  <2> HIDE DEF effects, t
  <2>2. (t = << >> <=> Len(t) = 0) /\ (t # << >> => Head(t) = t[1])
    <3>1. Len(t) = 0 => t = << >>
      BY <2>1, EmptySeq
    <3>2. t = << >> => Len(t) = 0
      BY EmptySeq
    <3>3. t # << >> => Head(t) = t[1]
      BY <2>1, TailIsBehind
    <3>4. QED BY <3>1, <3>2, <3>3
  <2>3. QED BY <2>1, <2>2
<1>3. /\ d \in Created /\ d \in Fading /\ d \in shown
      /\ effects[Len(effects)] = "show" <=> isOpen[d]
      /\ \A i \in 1..(Len(effects) - 1) : effects[i] # effects[i + 1]
  BY <1>1 DEF DialogsInv, FadesOf
<1>4. Created' = Created /\ OpenModals' = OpenModals
  BY <1>1 DEF Created, OpenModals
<1>5. LET hidden == IF Head(effects) = "hide" THEN shown \ {d} ELSE shown
      IN  shown' = IF t # << >> /\ Head(t) = "show" THEN hidden \cup {d} ELSE hidden
  BY <1>1 DEF EffectEnds
<1> HIDE DEF effects, t
<1>6. FadesOf(d)'
  <2>1. CASE t = << >>
    <3>1. isOpen[d] => effects[1] = "show"
      BY <1>2, <1>3, <2>1
    <3>2. isOpen[d] => d \in shown'
      BY <1>2, <1>3, <1>5, <2>1, <3>1
    <3>3. QED BY <1>1, <1>2, <2>1, <3>2 DEF FadesOf
  <2>2. CASE t # << >>
    <3>1. Len(effects) >= 2
      BY <1>2, <2>2
    <3>2. effects[1] # effects[2] /\ effects[1] \in {"show", "hide"} /\ effects[2] \in {"show", "hide"}
      BY <1>2, <1>3, <3>1
    <3>3. d \in shown'
      BY <1>2, <1>3, <1>5, <2>2, <3>2
    <3>4. t[Len(t)] = effects[Len(effects)]
      BY <1>2, <3>1
    <3>5. ASSUME NEW i \in 1..(Len(t) - 1) PROVE t[i] # t[i + 1]
      <4>1. /\ t[i] = effects[i + 1] /\ t[i + 1] = effects[i + 2] /\ i + 1 \in 1..(Len(effects) - 1)
            /\ (i + 1) + 1 = i + 2
        BY <1>2
      <4>2. QED BY <1>3, <4>1
    <3>6. QED BY <1>1, <1>3, <1>4, <3>3, <3>4, <3>5 DEF FadesOf
  <2>3. QED BY <2>1, <2>2
<1>7. ASSUME NEW e \in Dialogs, e # d
      PROVE  FadesOf(e)'
  <2>1. fades'[e] = fades[e] /\ (e \in shown' <=> e \in shown)
    BY <1>1, <1>5, <1>7
  <2>2. QED BY <1>1, <1>4, <2>1 DEF DialogsInv, FadesOf
<1>8. DialogsTypeOK' /\ LayersAre' /\ OverlaysAre' /\ TrapsAre'
  <2>1. fades' \in [Dialogs -> Seq({"show", "hide"})]
    BY <1>1, <1>2
  <2>2. QED
    BY <1>1, <1>4, <2>1 DEF DialogsInv, DialogsTypeOK, LayersAre, OverlaysAre, TrapsAre
<1>9. QED BY <1>6, <1>7, <1>8 DEF DialogsInv

\* Steps that only change the order of the layers, or the focus.
LEMMA RaisingKeeps ==
  ASSUME DialogsInv, NEW d \in Created, layers' = Raised(layers, d),
         UNCHANGED << modal, isOpen, shown, fades, overlayInstances, traps, delays >>
  PROVE  DialogsInv'
<1>1. layers' \in Seq(Layer) /\ LayersAre'
  BY RaisedKeeps DEF DialogsInv
<1>2. /\ \A e \in Dialogs : FadesOf(e)'
      /\ Created' = Created /\ OpenModals' = OpenModals
  BY OthersKeepFades
<1>3. QED
  BY <1>1, <1>2 DEF DialogsInv, DialogsTypeOK, OverlaysAre, TrapsAre, Layer

\* What only moves the focus.
LEMMA FocusKeeps ==
  ASSUME DialogsInv,
         UNCHANGED << modal, isOpen, layers, shown, fades, overlayInstances, traps, delays >>
  PROVE  DialogsInv'
<1>1. /\ \A e \in Dialogs : FadesOf(e)'
      /\ Created' = Created /\ OpenModals' = OpenModals
  BY OthersKeepFades
<1>2. QED
  BY <1>1 DEF DialogsInv, DialogsTypeOK, LayersAre, OverlaysAre, TrapsAre

\* The delay of an overlay.
LEMMA TrapKeeps ==
  ASSUME DialogsInv, Trap
  PROVE  DialogsInv'
<1>1. /\ \A e \in Dialogs : FadesOf(e)'
      /\ Created' = Created /\ OpenModals' = OpenModals
  BY OthersKeepFades DEF Trap
<1>2. LayersAre' /\ OverlaysAre'
  BY <1>1 DEF DialogsInv, LayersAre, OverlaysAre, Trap
<1>3. DialogsTypeOK' /\ TrapsAre'
  BY <1>1 DEF DialogsInv, DialogsTypeOK, TrapsAre, Trap, TrapIfOpen
<1>4. QED BY <1>1, <1>2, <1>3 DEF DialogsInv

\* jquery-ui-1.10.2.custom.js:4431-4482.  ModalityHolds, for any dialogs, effects and delays:
\* each open modal dialog has one overlay, and the focus is trapped while there is one.
THEOREM DialogsTheorem == DialogsSpec => []ModalityHolds
<1>1. DialogsInit => DialogsInv
  <2>1. SUFFICES ASSUME DialogsInit
                 PROVE  DialogsInv
    OBVIOUS
  <2>2. Created = {} /\ OpenModals = {} /\ Range(layers) = {} /\ DOMAIN layers = {}
    BY <2>1 DEF DialogsInit, Created, OpenModals, Range
  <2>3. DialogsTypeOK
    BY <2>1, <2>2 DEF DialogsInit, DialogsTypeOK, Created
  <2>4. LayersAre /\ OverlaysAre /\ TrapsAre
    BY <2>1, <2>2, FS_EmptySet DEF DialogsInit, LayersAre, OverlaysAre, TrapsAre, IsInjective
  <2>5. \A d \in Dialogs : FadesOf(d)
    BY <2>1, <2>2 DEF DialogsInit, FadesOf
  <2>6. QED BY <2>3, <2>4, <2>5 DEF DialogsInv
<1>2. DialogsInv /\ [DialogsNext]_dialogVars => DialogsInv'
  <2>1. SUFFICES ASSUME DialogsInv, [DialogsNext]_dialogVars
                 PROVE  DialogsInv'
    OBVIOUS
  <2>2. ASSUME NEW d \in Dialogs, NEW m \in BOOLEAN, CreateDialog(d, m)
        PROVE  DialogsInv'
    <3> DEFINE ls == Append(layers, Box(d))
    <3>1. d \notin Created /\ modal' = Including(modal, d, m) /\ Opening(d, m, ls)
      BY <2>2 DEF CreateDialog
    <3>2. /\ ls \in Seq(Layer) /\ IsInjective(ls)
          /\ Range(ls) = Range(layers) \cup {Box(d)}
      <4>1. layers \in Seq(Layer) /\ IsInjective(layers)
        BY <2>1 DEF DialogsInv, DialogsTypeOK, LayersAre, Layer
      <4>2. Box(d) \in Layer /\ Box(d) \notin Range(layers)
        BY <2>1, <3>1, LayersDiffer, LayersOf DEF DialogsInv
      <4>3. QED BY <4>1, <4>2, AppendedIsThere
    <3> HIDE DEF ls
    <3>3. Range(ls) = {Box(c) : c \in Created \cup {d}} \cup {Veil(c) : c \in OpenModals}
      BY <2>1, <3>2 DEF DialogsInv, LayersAre
    <3>4. QED BY <2>1, <3>1, <3>2, <3>3, OpeningKeeps
  <2>3. ASSUME NEW d \in Dialogs, OpenDialog(d)
        PROVE  DialogsInv'
    <3>1. CASE isOpen[d]
      BY <2>1, <2>3, <3>1, RaisingKeeps DEF OpenDialog
    <3>2. CASE ~isOpen[d]
      <4>1. d \in Created /\ modal' = modal /\ Opening(d, modal[d], layers)
        BY <2>3, <3>2 DEF OpenDialog
      <4>2. /\ modal[d] \in BOOLEAN /\ layers \in Seq(Layer) /\ IsInjective(layers)
            /\ modal' = Including(modal, d, modal[d])
        BY <2>1, <4>1 DEF DialogsInv, DialogsTypeOK, LayersAre, Layer, Including, Created
      <4>3. Range(layers) = {Box(c) : c \in Created \cup {d}} \cup {Veil(c) : c \in OpenModals}
        BY <2>1, <4>1 DEF DialogsInv, LayersAre
      <4>4. QED BY <2>1, <3>2, <4>1, <4>2, <4>3, OpeningKeeps
    <3>3. QED BY <3>1, <3>2
  <2>4. ASSUME NEW d \in Dialogs, MouseDownInDialog(d)
        PROVE  DialogsInv'
    <3>1. Box(d) \in Range(layers)
      BY <2>4 DEF MouseDownInDialog, Reachable, Range
    <3>2. d \in Created
      BY <2>1, <3>1, LayersOf DEF DialogsInv
    <3>3. QED BY <2>1, <2>4, <3>2, RaisingKeeps DEF MouseDownInDialog
  <2>5. ASSUME NEW d \in Dialogs, MoveToTop(d)
        PROVE  DialogsInv'
    BY <2>1, <2>5, RaisingKeeps DEF MoveToTop
  <2>6. ASSUME NEW d \in Dialogs, KeepFocus(d) \/ CheckFocus(d)
        PROVE  DialogsInv'
    BY <2>1, <2>6, FocusKeeps DEF KeepFocus, CheckFocus
  <2>7. CASE FocusPage
    BY <2>1, <2>7, FocusKeeps DEF FocusPage
  <2>8. CASE UNCHANGED dialogVars
    BY <2>1, <2>8, FocusKeeps DEF dialogVars
  <2>9. QED
    BY <2>1, <2>2, <2>3, <2>4, <2>5, <2>6, <2>7, <2>8, CloseKeeps, DestroyKeeps, EffectEndsKeeps,
       TrapKeeps
    DEF DialogsNext
<1>3. QED BY <1>1, <1>2, InvGivesModality, PTL DEF DialogsSpec

-----------------------------------------------------------------------------
(* Callback lists: what is added to a list with memory hears of its value. *)

\* Those of K that are less than j.
Below(K, j) == {i \in K : i < j}

\* What s has at some places is a sequence; where each comes from, so many are in front of it.
LEMMA ChosenIsFrom ==
  ASSUME NEW S, NEW ls \in Seq(S), NEW K \in SUBSET DOMAIN ls
  PROVE  /\ IsFiniteSet(K) /\ Cardinality(K) \in Nat
         /\ Chosen(ls, K) \in Seq(S)
         /\ Len(Chosen(ls, K)) = Cardinality(K)
         /\ \A n \in 1..Cardinality(K) : \E j \in K :
              /\ Chosen(ls, K)[n] = ls[j]
              /\ n = Cardinality(Below(K, j)) + 1
<1> DEFINE before == Ascending(K)
           rank == Ranks(K, before)
           From(n) == CHOOSE j \in K : rank[j] = n
           c == Cardinality(K)
<1>1. DOMAIN ls = 1..Len(ls) /\ Len(ls) \in Nat
  OBVIOUS
<1>2. IsFiniteSet(K) /\ c \in Nat
  <2>1. IsFiniteSet(1..Len(ls))
    BY <1>1, FS_Interval
  <2>2. IsFiniteSet(K)
    BY <1>1, <2>1, FS_Subset
  <2>3. QED BY <2>2, FS_CardinalityType
<1>3. K \subseteq Int
  BY <1>1
<1>4. \A x, y \in K : << x, y >> \in before <=> x < y
  BY DEF Ascending
<1>5. IsOrder(before, K)
  <2> HIDE DEF before
  <2>1. QED BY <1>3, <1>4 DEF IsOrder
<1>6. /\ rank \in [K -> 1..c]
      /\ \A n \in 1..c : \E j \in K : rank[j] = n
  BY <1>2, <1>5, RanksAreTaken
<1>7. \A j \in K : rank[j] = Cardinality(Below(K, j)) + 1
  <2>1. SUFFICES ASSUME NEW j \in K
                 PROVE  rank[j] = Cardinality(Below(K, j)) + 1
    OBVIOUS
  <2>2. {i \in K : << i, j >> \in before} = Below(K, j)
    BY <1>4 DEF Below
  <2>3. QED BY <2>2 DEF Ranks
<1>8. Chosen(ls, K) = [n \in 1..c |-> ls[From(n)]]
  BY DEF Chosen, InOrder
<1> HIDE DEF rank, before
<1>9. \A n \in 1..c : From(n) \in K /\ rank[From(n)] = n
  BY <1>6
<1> HIDE DEF From, c
<1>10. \A n \in 1..c : ls[From(n)] \in S
  BY <1>1, <1>9
<1>11. Chosen(ls, K) \in Seq(S) /\ Len(Chosen(ls, K)) = c
  BY <1>2, <1>8, <1>10
<1>12. \A n \in 1..c : /\ Chosen(ls, K)[n] = ls[From(n)]
                       /\ n = Cardinality(Below(K, From(n))) + 1
  BY <1>7, <1>8, <1>9
<1>13. QED BY <1>2, <1>9, <1>11, <1>12 DEF c

\* The numbers up to m that are in K and those that are not.
LEMMA CountedInTwo ==
  ASSUME NEW m \in Nat, NEW K \in SUBSET Nat, NEW L \in SUBSET Nat, K \cap L = {}, 1..m \subseteq K \cup L, 0 \notin K \cup L
  PROVE  /\ Cardinality({i \in K : i <= m}) \in Nat
         /\ Cardinality({i \in L : i <= m}) \in Nat
         /\ Cardinality({i \in K : i <= m}) + Cardinality({i \in L : i <= m}) = m
         /\ IsFiniteSet({i \in K : i <= m})
<1> DEFINE A == {i \in K : i <= m}
           B == {i \in L : i <= m}
<1>1. A \cup B = 1..m /\ A \cap B = {}
  <2>1. \A i \in 1..m : i \in A \cup B
    OBVIOUS
  <2>2. \A i \in A \cup B : i \in Nat /\ i # 0 /\ i <= m
    OBVIOUS
  <2>3. A \cap B = {}
    OBVIOUS
  <2> HIDE DEF A, B
  <2>4. QED BY <2>1, <2>2, <2>3
<1>2. IsFiniteSet(1..m) /\ Cardinality(1..m) = m
  BY FS_Interval
<1>3. IsFiniteSet(A) /\ IsFiniteSet(B)
  <2>1. A \subseteq 1..m /\ B \subseteq 1..m
    BY <1>1
  <2>2. QED BY <1>2, <2>1, FS_Subset
<1>4. Cardinality(A \cup B) = Cardinality(A) + Cardinality(B) - Cardinality(A \cap B)
  BY <1>3, FS_Union
<1>5. Cardinality(A \cap B) = 0
  BY <1>1, FS_EmptySet
<1>6. Cardinality(A) \in Nat /\ Cardinality(B) \in Nat
  BY <1>3, FS_CardinalityType
<1>7. Cardinality(A) + Cardinality(B) = m
  <2> HIDE DEF A, B
  <2>1. Cardinality(A \cup B) = m
    BY <1>1, <1>2, Zenon
  <2>2. QED BY <2>1, <1>4, <1>5, <1>6
<1>8. QED BY <1>3, <1>6, <1>7, Zenon

\* What users fire.
Data == {<< n >> : n \in Nat}

\* The variables of a list that users made by Callbacks.
OwnList ==
  [list : Seq(UserFunctions) \cup {Undefined}, stack : Seq(Data) \cup {Undefined},
   memory : Data \cup {Undefined}, fired : BOOLEAN, firing : BOOLEAN, start : {1},
   length : Int, index : Int]

\* Its fire calls: no callback of jQuery is in it.
OwnCalls == [list : {Own}, data : Data, at : {"loop", "function"},
             runs : UserFunctions \cup {Undefined}]

\* Calls of the functions in it.
Tellings == [list : {Own}, f : UserFunctions, data : Data]

\* f was called with the data.
Told(t, f, data) == \E j \in DOMAIN t : t[j] = [list |-> Own, f |-> f, data |-> data]

\* How far a fire call has come: what is up to here has been called.
Behind(l, call) == IF call.at = "function" THEN l.index ELSE l.index - 1

\* At most one call of the list fires, and its loop knows where it is.
FiringIs(l, calls) ==
  /\ calls \in Seq(OwnCalls)
  /\ Len(calls) <= 1
  /\ l.firing <=> calls # << >>
  /\ l.firing => l.fired
  /\ calls # << >> /\ calls[1].at = "function" => calls[1].runs \in UserFunctions
  /\ calls # << >> /\ l.list # Undefined =>
       /\ l.length = Len(l.list)
       /\ Behind(l, calls[1]) >= 0
       /\ calls[1].at = "function" => l.index <= Len(l.list)

\* What a list remembers all its callbacks were called with, and while it is firing those that
\* the loop has behind it.
MemoryIs(l, calls, t) ==
  l.list # Undefined /\ l.memory # Undefined =>
    /\ calls # << >> => calls[1].data = l.memory
    /\ \A i \in DOMAIN l.list :
         (calls # << >> => i <= Behind(l, calls[1])) => Told(t, l.list[i], l.memory)

\* The users' list, its fire calls, and what was called.
WorldIs(w, t) ==
  /\ DOMAIN w = {"lists", "calls"}
  /\ DOMAIN w.lists = Lists
  /\ w.lists[Own] \in OwnList
  /\ t \in Seq(Tellings)
  /\ FiringIs(w.lists[Own], w.calls)
  /\ MemoryIs(w.lists[Own], w.calls, t)

\* As long as no exception left a loop and no list was emptied under one.
ListsInv ==
  use = "callbacks" /\ ~broken => fires \in Nat /\ WorldIs(World, told)

\* A fire call begins: what is in front of its start was called with the data.
LEMMA FireIs ==
  ASSUME NEW w, NEW t \in Seq(Tellings), NEW data \in Data,
         DOMAIN w.lists = Lists, w.calls = << >>,
         DOMAIN w.lists[Own] = {"list", "stack", "memory", "fired", "firing", "start", "length", "index"},
         w.lists[Own].list \in Seq(UserFunctions),
         w.lists[Own].stack \in Seq(Data) \cup {Undefined},
         w.lists[Own].start \in Nat \ {0},
         \A i \in DOMAIN w.lists[Own].list :
           i < w.lists[Own].start => Told(t, w.lists[Own].list[i], data)
  PROVE  WorldIs(Fire(w, Own, data), t)
<1> DEFINE l == w.lists[Own]
           r == Fire(w, Own, data)
           m == r.lists[Own]
           c == [list |-> Own, data |-> data, at |-> "loop", runs |-> Undefined]
<1>1. DOMAIN r = {"lists", "calls"} /\ DOMAIN r.lists = Lists /\ r.calls = << c >>
  BY DEF Fire
<1>2. m = [l EXCEPT !.memory = IF "memory" \in options[Own] THEN data ELSE Undefined,
                    !.fired = TRUE, !.index = l.start, !.start = 1,
                    !.length = Len(l.list), !.firing = TRUE]
  BY DEF Fire, Lists
<1>3. /\ m \in OwnList /\ m.list = l.list /\ m.index = l.start /\ m.length = Len(l.list)
      /\ m.firing /\ m.fired /\ m.memory \in {data, Undefined}
  <2>1. /\ DOMAIN l = {"list", "stack", "memory", "fired", "firing", "start", "length", "index"}
        /\ l.list \in Seq(UserFunctions) /\ l.stack \in Seq(Data) \cup {Undefined}
        /\ l.start \in Nat \ {0}
    OBVIOUS
  <2>2. Len(l.list) \in Int
    BY <2>1
  <2> HIDE DEF l, m, r
  <2>3. /\ DOMAIN m = {"list", "stack", "memory", "fired", "firing", "start", "length", "index"}
        /\ m.list = l.list /\ m.stack = l.stack /\ m.index = l.start /\ m.length = Len(l.list)
        /\ m.firing = TRUE /\ m.fired = TRUE /\ m.start = 1 /\ m.memory \in {data, Undefined}
    BY <1>2, <2>1
  <2>4. m = [list |-> m.list, stack |-> m.stack, memory |-> m.memory, fired |-> m.fired,
             firing |-> m.firing, start |-> m.start, length |-> m.length, index |-> m.index]
    BY <1>2, <2>1, <2>3
  <2>5. m.memory \in Data \cup {Undefined}
    BY <2>3
  <2>6. m \in OwnList
    <3>1. /\ m.list \in Seq(UserFunctions) \cup {Undefined}
          /\ m.stack \in Seq(Data) \cup {Undefined}
      BY <2>1, <2>3
    <3>2. /\ m.start \in {1} /\ m.length \in Int /\ m.index \in Int
      BY <2>1, <2>2, <2>3
    <3>3. m.fired \in BOOLEAN /\ m.firing \in BOOLEAN
      BY <2>3, Zenon
    <3>4. [list |-> m.list, stack |-> m.stack, memory |-> m.memory, fired |-> m.fired,
           firing |-> m.firing, start |-> m.start, length |-> m.length, index |-> m.index] \in OwnList
      BY <2>5, <3>1, <3>2, <3>3 DEF OwnList
    <3>5. QED BY <2>4, <3>4, Zenon
  <2>7. QED BY <2>3, <2>6
<1> HIDE DEF r, m
<1>4. c \in OwnCalls /\ r.calls \in Seq(OwnCalls) /\ Len(r.calls) = 1 /\ r.calls[1] = c
  BY <1>1 DEF OwnCalls
<1>5. Behind(m, c) = l.start - 1
  BY <1>3 DEF Behind
<1> HIDE DEF c
<1>6. c.at = "loop" /\ c.data = data /\ r.calls # << >>
  BY <1>1 DEF c
<1>7. FiringIs(m, r.calls)
  BY <1>3, <1>4, <1>5, <1>6 DEF FiringIs
<1>8. MemoryIs(m, r.calls, t)
  BY <1>3, <1>4, <1>5, <1>6 DEF MemoryIs
<1>9. QED BY <1>1, <1>3, <1>7, <1>8 DEF WorldIs, r, m

\* The value of a user, now or later.
LEMMA FireWithIs ==
  ASSUME NEW w, NEW t, WorldIs(w, t), NEW data \in Data
  PROVE  WorldIs(FireWith(w, Own, data), t)
<1> DEFINE l == w.lists[Own]
<1>1. CASE l.list = Undefined \/ (l.fired /\ l.stack = Undefined)
  BY <1>1 DEF FireWith
<1>2. CASE ~(l.list = Undefined \/ (l.fired /\ l.stack = Undefined)) /\ l.firing
  <2> DEFINE r == [w EXCEPT !.lists[Own].stack = Append(@, data)]
             m == r.lists[Own]
  <2>1. FireWith(w, Own, data) = r
    BY <1>2 DEF FireWith
  <2>2. DOMAIN r = {"lists", "calls"} /\ DOMAIN r.lists = Lists /\ r.calls = w.calls
    BY DEF WorldIs
  <2>3. m = [l EXCEPT !.stack = Append(@, data)]
    BY DEF WorldIs, Lists
  <2>4. l.stack \in Seq(Data)
    BY <1>2 DEF WorldIs, FiringIs, OwnList
  <2>5. Append(l.stack, data) \in Seq(Data)
    BY <2>4
  <2>6. m \in OwnList /\ m.list = l.list /\ m.index = l.index /\ m.length = l.length
        /\ m.firing = l.firing /\ m.fired = l.fired /\ m.memory = l.memory
    <3>1. l \in OwnList
      BY DEF WorldIs
    <3> HIDE DEF l, m, r
    <3>2. QED BY <2>3, <2>5, <3>1 DEF OwnList
  <2> HIDE DEF r, m
  <2>7. QED BY <2>1, <2>2, <2>6 DEF WorldIs, FiringIs, MemoryIs, Behind, m
<1>3. CASE ~(l.list = Undefined \/ (l.fired /\ l.stack = Undefined)) /\ ~l.firing
  <2>1. FireWith(w, Own, data) = Fire(w, Own, data)
    BY <1>3 DEF FireWith
  <2>2. /\ w.calls = << >> /\ DOMAIN w.lists = Lists /\ t \in Seq(Tellings)
        /\ l.list \in Seq(UserFunctions) /\ l.stack \in Seq(Data) \cup {Undefined} /\ l.start = 1
        /\ DOMAIN l = {"list", "stack", "memory", "fired", "firing", "start", "length", "index"}
    BY <1>3 DEF WorldIs, FiringIs, OwnList
  <2>3. \A i \in DOMAIN l.list : ~(i < l.start)
    BY <2>2
  <2>4. QED BY <2>1, <2>2, <2>3, FireIs
<1>4. QED BY <1>1, <1>2, <1>3

\* A list with other callbacks.
With(l, list, length, index) == [l EXCEPT !.list = list, !.length = length, !.index = index]

\* It is a list of users, too, and the same but for these.
LEMMA ListWith ==
  ASSUME NEW l \in OwnList, NEW list \in Seq(UserFunctions), NEW length \in Int, NEW index \in Int
  PROVE  LET m == With(l, list, length, index)
         IN  /\ m \in OwnList /\ m.list = list /\ m.length = length /\ m.index = index
             /\ m.firing = l.firing /\ m.fired = l.fired /\ m.memory = l.memory
BY DEF OwnList, With

\* An operation that leaves the calls alone and puts l where the list was.
Puts(r, w, l) ==
  /\ DOMAIN r = {"lists", "calls"} /\ DOMAIN r.lists = Lists
  /\ r.calls = w.calls
  /\ r.lists[Own] = l

\* Such an operation is right if the list that it puts there is.
LEMMA PutsIs ==
  ASSUME NEW w, NEW t, WorldIs(w, t), NEW r, NEW l \in OwnList, Puts(r, w, l),
         FiringIs(l, w.calls), MemoryIs(l, w.calls, t)
  PROVE  WorldIs(r, t)
BY DEF WorldIs, Puts

\* Adding a callback: it is called at once if the list remembers a value, or else when the
\* loop comes there.
LEMMA AddIs ==
  ASSUME NEW w, NEW t, WorldIs(w, t), NEW f \in UserFunctions,
         w.calls # << >> => w.calls[1].at = "function"
  PROVE  WorldIs(Add(w, Own, f), t)
<1> DEFINE l == w.lists[Own]
           known == "unique" \in options[Own] /\ Contains(l.list, f)
           list == IF known THEN l.list ELSE Append(l.list, f)
<1>1. CASE l.list = Undefined
  BY <1>1 DEF Add
<1>2. CASE l.list # Undefined
  <2>1. l \in OwnList /\ l.list \in Seq(UserFunctions) /\ Own \in Lists
    BY <1>2 DEF WorldIs, OwnList, Lists
  <2>2. /\ list \in Seq(UserFunctions) /\ Len(list) \in {Len(l.list), Len(l.list) + 1}
        /\ Len(l.list) \in Nat
        /\ \A i \in 1..Len(l.list) : list[i] = l.list[i]
    BY <2>1, AppendProperties
  <2> HIDE DEF list, known
  <2>3. CASE l.firing
    <3> DEFINE r == [w EXCEPT !.lists[Own].list = list, !.lists[Own].length = Len(list)]
               m == [l EXCEPT !.list = list, !.length = Len(list)]
    <3>1. Add(w, Own, f) = r
      BY <1>2, <2>3 DEF Add, list, known
    <3>2. Puts(r, w, m)
      BY <2>1 DEF WorldIs, Puts
    <3> HIDE DEF l, r
    <3>3. /\ m \in OwnList /\ m.list = list /\ m.length = Len(list) /\ m.index = l.index
          /\ m.firing = l.firing /\ m.fired = l.fired /\ m.memory = l.memory
      <4>1. Len(list) \in Int /\ l.index \in Int
        BY <2>1, <2>2 DEF OwnList
      <4>2. m = With(l, list, Len(list), l.index)
        BY <2>1 DEF OwnList, With
      <4> HIDE DEF m
      <4>3. QED BY <2>1, <2>2, <4>1, <4>2, ListWith
    <3> HIDE DEF m
    <3>4. w.calls # << >> /\ w.calls[1].at = "function" /\ l.index <= Len(l.list)
      BY <1>2, <2>3 DEF WorldIs, FiringIs, l
    <3>5. FiringIs(m, w.calls)
      BY <1>2, <2>1, <2>2, <3>3, <3>4 DEF WorldIs, FiringIs, Behind, OwnList, l
    <3>6. MemoryIs(m, w.calls, t)
      <4>1. l.index \in Int
        BY <2>1 DEF OwnList
      <4>2. Behind(l, w.calls[1]) = l.index /\ Behind(m, w.calls[1]) = l.index
        BY <3>3, <3>4 DEF Behind
      <4>3. SUFFICES ASSUME m.memory # Undefined
                     PROVE  /\ w.calls[1].data = m.memory
                            /\ \A i \in DOMAIN m.list : i <= l.index => Told(t, m.list[i], m.memory)
        BY <3>4, <4>2 DEF MemoryIs
      <4>4. /\ w.calls[1].data = l.memory
            /\ \A i \in DOMAIN l.list : i <= l.index => Told(t, l.list[i], l.memory)
        BY <1>2, <3>3, <3>4, <4>2, <4>3 DEF WorldIs, MemoryIs, l
      <4>5. \A i \in DOMAIN list : i <= l.index => i \in DOMAIN l.list /\ list[i] = l.list[i]
        BY <2>1, <2>2, <3>4, <4>1
      <4>6. QED BY <3>3, <4>4, <4>5
    <3>7. QED BY <3>1, <3>2, <3>3, <3>5, <3>6, PutsIs
  <2>4. CASE ~l.firing /\ l.memory = Undefined
    <3> DEFINE r == [w EXCEPT !.lists[Own].list = list]
               m == [l EXCEPT !.list = list]
    <3>1. Add(w, Own, f) = r
      BY <1>2, <2>4 DEF Add, list, known
    <3>2. Puts(r, w, m)
      BY <2>1 DEF WorldIs, Puts
    <3> HIDE DEF l, r
    <3>3. /\ m \in OwnList /\ m.list = list
          /\ m.firing = l.firing /\ m.fired = l.fired /\ m.memory = l.memory
      BY <2>1, <2>2 DEF OwnList
    <3> HIDE DEF m
    <3>4. w.calls = << >>
      BY <2>4 DEF WorldIs, FiringIs, l
    <3>5. FiringIs(m, w.calls) /\ MemoryIs(m, w.calls, t)
      BY <2>4, <3>3, <3>4 DEF WorldIs, FiringIs, MemoryIs, l
    <3>6. QED BY <3>1, <3>2, <3>3, <3>5, PutsIs
  <2>5. CASE ~l.firing /\ l.memory # Undefined
    <3> DEFINE v == [w EXCEPT !.lists[Own].list = list, !.lists[Own].start = Len(l.list) + 1]
               m == [l EXCEPT !.list = list, !.start = Len(l.list) + 1]
    <3>1. Add(w, Own, f) = Fire(v, Own, l.memory)
      BY <1>2, <2>5 DEF Add, list, known
    <3>2. Puts(v, w, m)
      BY <2>1 DEF WorldIs, Puts
    <3>3. w.calls = << >> /\ t \in Seq(Tellings) /\ l.memory \in Data
          /\ l.stack \in Seq(Data) \cup {Undefined}
      BY <2>1, <2>5 DEF WorldIs, FiringIs, OwnList
    <3>4. \A i \in DOMAIN l.list : Told(t, l.list[i], l.memory)
      BY <1>2, <2>5, <3>3 DEF WorldIs, MemoryIs
    <3> HIDE DEF l, v
    <3>5. /\ DOMAIN m = {"list", "stack", "memory", "fired", "firing", "start", "length", "index"}
          /\ m.list = list /\ m.start = Len(l.list) + 1 /\ m.stack = l.stack
      BY <2>1 DEF OwnList
    <3> HIDE DEF m
    <3>6. \A i \in DOMAIN list : i < Len(l.list) + 1 => Told(t, list[i], l.memory)
      BY <2>1, <2>2, <3>4
    <3>7. v.lists[Own] = m /\ DOMAIN v.lists = Lists /\ v.calls = << >>
      BY <3>2, <3>3 DEF Puts
    <3>8. m.start \in Nat \ {0} /\ m.list \in Seq(UserFunctions)
          /\ m.stack \in Seq(Data) \cup {Undefined}
      BY <2>2, <3>3, <3>5
    <3>9. \A i \in DOMAIN m.list : i < m.start => Told(t, m.list[i], l.memory)
      BY <3>5, <3>6
    <3>10. QED BY <3>1, <3>3, <3>5, <3>7, <3>8, <3>9, FireIs
  <2>6. QED BY <2>3, <2>4, <2>5
<1>3. QED BY <1>1, <1>2

\* Removing a callback: the loop is moved back by as many places as it loses behind it.
LEMMA RemoveFromIs ==
  ASSUME NEW w, NEW t, WorldIs(w, t), NEW f,
         w.calls # << >> => w.calls[1].at = "function"
  PROVE  WorldIs(RemoveFrom(w, Own, f), t)
<1> DEFINE l == w.lists[Own]
           K == {i \in DOMAIN l.list : l.list[i] # f}
           P == {i \in DOMAIN l.list : l.list[i] = f}
           places == {i \in DOMAIN l.list : l.firing /\ l.list[i] = f}
           list == Chosen(l.list, K)
           length == l.length - Cardinality(places)
           index == l.index - Cardinality({i \in places : i <= l.index})
           r == [w EXCEPT !.lists[Own].list = list, !.lists[Own].length = @ - Cardinality(places),
                          !.lists[Own].index = @ - Cardinality({i \in places : i <= l.index})]
           m == [l EXCEPT !.list = list, !.length = length, !.index = index]
<1>1. CASE l.list = Undefined
  BY <1>1 DEF RemoveFrom
<1>2. CASE l.list # Undefined
  <2>1. l \in OwnList /\ l.list \in Seq(UserFunctions) /\ Own \in Lists
        /\ l.length \in Int /\ l.index \in Int
    BY <1>2 DEF WorldIs, OwnList, Lists
  <2>2. RemoveFrom(w, Own, f) = r
    BY <1>2 DEF RemoveFrom
  <2>3. Puts(r, w, m)
    BY <2>1 DEF WorldIs, Puts
  <2> HIDE DEF r
  <2>4. DOMAIN l.list = 1..Len(l.list) /\ Len(l.list) \in Nat
    BY <2>1
  <2>5. /\ IsFiniteSet(K) /\ Cardinality(K) \in Nat
        /\ list \in Seq(UserFunctions) /\ Len(list) = Cardinality(K)
        /\ \A n \in 1..Cardinality(K) : \E j \in K :
             list[n] = l.list[j] /\ n = Cardinality(Below(K, j)) + 1
    <3>1. K \in SUBSET DOMAIN l.list
      OBVIOUS
    <3>2. list = Chosen(l.list, K)
      OBVIOUS
    <3> HIDE DEF K, l, list
    <3>3. QED BY <2>1, <3>1, <3>2, ChosenIsFrom
  <2>6. K \in SUBSET Nat /\ P \in SUBSET Nat /\ K \cap P = {} /\ 0 \notin K \cup P
        /\ K \cup P = 1..Len(l.list)
    BY <2>4
  <2>7. IsFiniteSet(places) /\ IsFiniteSet({i \in places : i <= l.index})
    <3>1. IsFiniteSet(DOMAIN l.list)
      BY <2>4, FS_Interval
    <3>2. QED BY <3>1, FS_Subset
  <2>8. Cardinality(places) \in Nat /\ Cardinality({i \in places : i <= l.index}) \in Nat
    BY <2>7, FS_CardinalityType
  <2> HIDE DEF K, P, list
  <2>9. /\ m \in OwnList /\ m.list = list /\ m.length = length /\ m.index = index
        /\ m.firing = l.firing /\ m.fired = l.fired /\ m.memory = l.memory
    <3> DEFINE a == Cardinality(places)
               b == Cardinality({i \in places : i <= l.index})
    <3>1. length = l.length - a /\ index = l.index - b /\ a \in Nat /\ b \in Nat
      BY <2>8
    <3> HIDE DEF a, b, l, length, index
    <3>2. length \in Int /\ index \in Int
      BY <2>1, <3>1
    <3>3. m = With(l, list, length, index)
      BY DEF With
    <3> HIDE DEF m, length, index, l
    <3>4. QED BY <2>1, <2>5, <3>2, <3>3, ListWith
  <2> HIDE DEF m
  <2>10. CASE ~l.firing
    <3>1. w.calls = << >>
      BY <2>10 DEF WorldIs, FiringIs
    <3>2. FiringIs(m, w.calls)
      BY <2>9, <2>10, <3>1 DEF FiringIs
    <3>3. MemoryIs(m, w.calls, t)
      <4>1. \A n \in DOMAIN list : \E j \in DOMAIN l.list : list[n] = l.list[j]
        <5>1. DOMAIN list = 1..Cardinality(K)
          BY <2>5
        <5>2. K \subseteq DOMAIN l.list
          BY <2>4, <2>6
        <5>3. QED BY <2>5, <5>1, <5>2
      <4>2. l.memory # Undefined => \A j \in DOMAIN l.list : Told(t, l.list[j], l.memory)
        BY <1>2, <3>1 DEF WorldIs, MemoryIs
      <4> HIDE DEF l
      <4>3. QED BY <2>9, <3>1, <4>1, <4>2 DEF MemoryIs
    <3>4. QED BY <2>2, <2>3, <2>9, <3>2, <3>3, PutsIs
  <2>11. CASE l.firing
    <3>1. /\ w.calls # << >> /\ w.calls[1].at = "function" /\ l.index \in 0..Len(l.list)
          /\ l.length = Len(l.list)
      BY <1>2, <2>1, <2>4, <2>11 DEF WorldIs, FiringIs, Behind
    <3>2. places = P
      BY <2>11 DEF P
    <3> DEFINE k == Cardinality({i \in K : i <= l.index})
               p == Cardinality({i \in P : i <= l.index})
    <3>3. k \in Nat /\ p \in Nat /\ k + p = l.index /\ IsFiniteSet({i \in K : i <= l.index})
      <4>1. l.index \in Nat /\ 1..l.index \subseteq K \cup P
        BY <2>4, <2>6, <3>1
      <4>2. QED BY <2>6, <4>1, CountedInTwo
    <3>4. index = k
      <4>1. index = l.index - p
        BY <3>2
      <4> HIDE DEF k, p, index
      <4>2. QED BY <2>1, <3>3, <4>1
    <3>5. k <= Cardinality(K)
      BY <2>5, FS_Subset
    <3>6. length = Len(list)
      <4>1. Cardinality({i \in K : i <= Len(l.list)}) + Cardinality({i \in P : i <= Len(l.list)}) = Len(l.list)
        BY <2>4, <2>6, CountedInTwo
      <4>2. {i \in K : i <= Len(l.list)} = K /\ {i \in P : i <= Len(l.list)} = P
        BY <2>4, <2>6
      <4>3. Cardinality(K) + Cardinality(P) = Len(l.list)
        BY <4>1, <4>2
      <4>4. length = Len(l.list) - Cardinality(P) /\ Cardinality(P) \in Nat
        BY <2>8, <3>1, <3>2
      <4> HIDE DEF length
      <4>5. QED BY <2>4, <2>5, <4>3, <4>4
    <3>7. ASSUME NEW n \in 1..Cardinality(K), n <= k
          PROVE  \E j \in DOMAIN l.list : list[n] = l.list[j] /\ j <= l.index
      <4>1. PICK j \in K : list[n] = l.list[j] /\ n = Cardinality(Below(K, j)) + 1
        BY <2>5
      <4>2. j \in DOMAIN l.list /\ j \in Nat
        BY <2>6, <4>1 DEF K
      <4>3. CASE j > l.index
        <5>1. {i \in K : i <= l.index} \subseteq Below(K, j)
          BY <2>1, <2>6, <4>2, <4>3 DEF Below
        <5>2. IsFiniteSet(Below(K, j))
          BY <2>5, FS_Subset DEF Below
        <5>3. k <= Cardinality(Below(K, j)) /\ Cardinality(Below(K, j)) \in Nat
          BY <5>1, <5>2, FS_Subset, FS_CardinalityType
        <5> HIDE DEF k
        <5>4. QED BY <3>3, <3>7, <4>1, <5>3
      <4>4. QED BY <2>1, <4>1, <4>2, <4>3
    <3> HIDE DEF k, p, length, index, places
    <3>8. FiringIs(m, w.calls)
      BY <2>5, <2>9, <2>11, <3>1, <3>3, <3>4, <3>5, <3>6 DEF WorldIs, FiringIs, Behind
    <3>9. MemoryIs(m, w.calls, t)
      <4>1. Behind(m, w.calls[1]) = k /\ Behind(l, w.calls[1]) = l.index
        BY <2>9, <3>1, <3>4 DEF Behind
      <4>2. l.memory # Undefined =>
              /\ w.calls[1].data = l.memory
              /\ \A j \in DOMAIN l.list : j <= l.index => Told(t, l.list[j], l.memory)
        BY <1>2, <3>1, <4>1 DEF WorldIs, MemoryIs
      <4>3. \A n \in DOMAIN list : n <= k =>
              \E j \in DOMAIN l.list : list[n] = l.list[j] /\ j <= l.index
        BY <2>5, <3>7
      <4> HIDE DEF l
      <4>4. QED BY <2>9, <3>1, <4>1, <4>2, <4>3 DEF MemoryIs
    <3>10. QED BY <2>2, <2>3, <2>9, <3>8, <3>9, PutsIs
  <2>12. QED BY <2>10, <2>11
<1>3. QED BY <1>1, <1>2

\* The one call that is under way.
LEMMA OneCall ==
  ASSUME NEW l, NEW calls, FiringIs(l, calls), calls # << >>
  PROVE  /\ Last(calls) = calls[1] /\ Front(calls) = << >>
         /\ calls[1] \in OwnCalls
         /\ \A c : Append(Front(calls), c) = << c >>
<1>1. calls \in Seq(OwnCalls) /\ Len(calls) = 1
  <2>1. calls \in Seq(OwnCalls) /\ Len(calls) <= 1
    BY DEF FiringIs
  <2>2. Len(calls) \in Nat /\ Len(calls) # 0
    BY <2>1, EmptySeq
  <2>3. QED BY <2>1, <2>2
<1>2. Last(calls) = calls[1] /\ calls[1] \in OwnCalls
  BY <1>1 DEF Last
<1>3. Front(calls) = << >>
  BY <1>1 DEF Front
<1>4. QED BY <1>2, <1>3

\* A list that is disabled or emptied.
LEMMA DisableIs ==
  ASSUME NEW w, NEW t, WorldIs(w, t)
  PROVE  WorldIs(Disable(w, Own), t)
<1> DEFINE l == w.lists[Own]
           m == [l EXCEPT !.list = Undefined, !.stack = Undefined, !.memory = Undefined]
           r == Disable(w, Own)
<1>1. Puts(r, w, m)
  BY DEF WorldIs, Puts, Disable, Lists
<1>2. l \in OwnList
  BY DEF WorldIs
<1> HIDE DEF r, l
<1>3. m \in OwnList /\ m.list = Undefined /\ m.firing = l.firing /\ m.fired = l.fired
  BY <1>2 DEF OwnList
<1> HIDE DEF m
<1>4. FiringIs(m, w.calls) /\ MemoryIs(m, w.calls, t)
  BY <1>3 DEF WorldIs, FiringIs, MemoryIs, l
<1>5. QED BY <1>1, <1>3, <1>4, PutsIs DEF r

\* A locked list that remembers a value keeps its callbacks.
LEMMA LockIs ==
  ASSUME NEW w, NEW t, WorldIs(w, t)
  PROVE  WorldIs(Lock(w, Own), t)
<1> DEFINE l == w.lists[Own]
           m == [l EXCEPT !.stack = Undefined]
           r == [w EXCEPT !.lists[Own].stack = Undefined]
<1>1. Puts(r, w, m)
  BY DEF WorldIs, Puts, Lists
<1>2. l \in OwnList
  BY DEF WorldIs
<1>3. Lock(w, Own) = IF l.memory = Undefined THEN Disable(r, Own) ELSE r
  BY DEF Lock
<1> HIDE DEF r, l
<1>4. m \in OwnList /\ m.list = l.list /\ m.firing = l.firing /\ m.fired = l.fired
      /\ m.length = l.length /\ m.index = l.index /\ m.memory = l.memory
  BY <1>2 DEF OwnList
<1> HIDE DEF m
<1>5. FiringIs(m, w.calls) /\ MemoryIs(m, w.calls, t)
  BY <1>4 DEF WorldIs, FiringIs, MemoryIs, Behind, l
<1>6. WorldIs(r, t)
  BY <1>1, <1>4, <1>5, PutsIs
<1>7. QED BY <1>3, <1>6, DisableIs

\* An emptied list has nobody to call.
LEMMA EmptyListIs ==
  ASSUME NEW w, NEW t, WorldIs(w, t), w.calls = << >>
  PROVE  WorldIs(EmptyList(w, Own), t)
<1> DEFINE l == w.lists[Own]
           m == [l EXCEPT !.list = << >>]
           r == EmptyList(w, Own)
<1>1. Puts(r, w, m)
  BY DEF WorldIs, Puts, EmptyList, Lists
<1>2. l \in OwnList
  BY DEF WorldIs
<1> HIDE DEF r, l
<1>3. m \in OwnList /\ m.list = << >> /\ m.firing = l.firing /\ m.fired = l.fired
  <2> DEFINE none == << >>
  <2>1. none \in Seq(UserFunctions) /\ l.length \in Int /\ l.index \in Int
    BY <1>2, EmptySeq DEF OwnList
  <2>2. m = With(l, none, l.length, l.index)
    BY <1>2 DEF OwnList, With
  <2> HIDE DEF m, none
  <2>3. /\ m \in OwnList /\ m.list = none /\ m.firing = l.firing /\ m.fired = l.fired
    BY <1>2, <2>1, <2>2, ListWith
  <2>4. QED BY <2>3 DEF none
<1> HIDE DEF m
<1>4. FiringIs(m, w.calls) /\ MemoryIs(m, w.calls, t)
  BY <1>3 DEF WorldIs, FiringIs, MemoryIs, l
<1>5. QED BY <1>1, <1>3, <1>4, PutsIs DEF r

\* The loop goes on behind the callback that returned.
LEMMA NextCallbackIs ==
  ASSUME NEW w, NEW t, WorldIs(w, t), w.calls # << >>, w.calls[1].at = "function"
  PROVE  WorldIs(NextCallback(w), t)
<1> DEFINE l == w.lists[Own]
           m == [l EXCEPT !.index = @ + 1]
           c == [w.calls[1] EXCEPT !.at = "loop"]
           r == NextCallback(w)
<1>1. /\ Last(w.calls) = w.calls[1] /\ w.calls[1] \in OwnCalls
      /\ \A d : Append(Front(w.calls), d) = << d >>
  BY OneCall DEF WorldIs
<1>2. w.calls[1].list = Own
  BY <1>1 DEF OwnCalls
<1>3. /\ DOMAIN r = {"lists", "calls"} /\ DOMAIN r.lists = Lists
      /\ r.calls = << c >> /\ r.lists[Own] = m
  BY <1>1, <1>2 DEF WorldIs, NextCallback, Lists
<1>4. l \in OwnList /\ t \in Seq(Tellings)
  BY DEF WorldIs
<1> HIDE DEF r, l
<1>5. m \in OwnList /\ m.list = l.list /\ m.firing = l.firing /\ m.fired = l.fired
      /\ m.length = l.length /\ m.index = l.index + 1 /\ m.memory = l.memory /\ l.index \in Int
  BY <1>4 DEF OwnList
<1>6. c \in OwnCalls /\ c.at = "loop" /\ c.data = w.calls[1].data
  BY <1>1 DEF OwnCalls
<1> HIDE DEF m, c
<1>7. << c >> \in Seq(OwnCalls) /\ Len(<< c >>) = 1 /\ << c >>[1] = c /\ << c >> # << >>
  BY <1>6
<1>8. Behind(m, c) = l.index /\ Behind(l, w.calls[1]) = l.index
  BY <1>5, <1>6 DEF Behind
<1>9. FiringIs(m, << c >>)
  BY <1>5, <1>6, <1>7, <1>8 DEF WorldIs, FiringIs, l
<1>10. MemoryIs(m, << c >>, t)
  BY <1>5, <1>6, <1>7, <1>8 DEF WorldIs, MemoryIs, l
<1>11. QED BY <1>3, <1>4, <1>5, <1>9, <1>10 DEF WorldIs, r

\* The end of fire, when each callback has heard of the value, if the list remembers it.
LEMMA FinishIs ==
  ASSUME NEW w, NEW t, WorldIs(w, t), w.calls # << >>,
         w.lists[Own].list # Undefined /\ w.lists[Own].memory # Undefined =>
           \A i \in DOMAIN w.lists[Own].list :
             Told(t, w.lists[Own].list[i], w.lists[Own].memory)
  PROVE  WorldIs(FinishFiring(w), t)
<1> DEFINE l == w.lists[Own]
           m == [l EXCEPT !.firing = FALSE]
           v == [lists |-> [w.lists EXCEPT ![Own].firing = FALSE], calls |-> Front(w.calls)]
<1>1. /\ Last(w.calls) = w.calls[1] /\ w.calls[1] \in OwnCalls /\ Front(w.calls) = << >>
  BY OneCall DEF WorldIs
<1>2. Last(w.calls).list = Own
  BY <1>1 DEF OwnCalls
<1>3. /\ DOMAIN v = {"lists", "calls"} /\ DOMAIN v.lists = Lists
      /\ v.calls = << >> /\ v.lists[Own] = m
  BY <1>1 DEF WorldIs, Lists
<1>4. l \in OwnList /\ t \in Seq(Tellings) /\ Own \in Lists
  BY DEF WorldIs, Lists
<1>5. l.list # Undefined /\ l.memory # Undefined =>
        \A i \in DOMAIN l.list : Told(t, l.list[i], l.memory)
  OBVIOUS
<1>6. FinishFiring(w) =
        IF l.list = Undefined THEN v
        ELSE IF l.stack # Undefined
        THEN IF l.stack = << >> THEN v
             ELSE Fire([v EXCEPT !.lists[Own].stack = Tail(@)], Own, Head(l.stack))
        ELSE IF l.memory # Undefined THEN [v EXCEPT !.lists[Own].list = << >>]
        ELSE Disable(v, Own)
  BY <1>2 DEF FinishFiring
<1> HIDE DEF v, l
<1>7. m \in OwnList /\ m.list = l.list /\ ~m.firing /\ m.stack = l.stack /\ m.memory = l.memory
      /\ m.start = 1 /\ DOMAIN m = {"list", "stack", "memory", "fired", "firing", "start", "length", "index"}
  BY <1>4 DEF OwnList
<1> HIDE DEF m
<1>8. << >> \in Seq(OwnCalls) /\ Len(<< >>) = 0
  BY EmptySeq
<1>9. FiringIs(m, << >>) /\ MemoryIs(m, << >>, t)
  BY <1>5, <1>7, <1>8 DEF FiringIs, MemoryIs
<1>10. WorldIs(v, t)
  BY <1>3, <1>4, <1>7, <1>9 DEF WorldIs
<1>11. CASE l.list # Undefined /\ l.stack # Undefined /\ l.stack # << >>
  <2> DEFINE u == [v EXCEPT !.lists[Own].stack = Tail(@)]
             k == [m EXCEPT !.stack = Tail(@)]
  <2>1. Puts(u, v, k)
    BY <1>3, <1>4 DEF Puts
  <2>2. l.stack \in Seq(Data) /\ l.list \in Seq(UserFunctions)
    BY <1>4, <1>11 DEF OwnList
  <2>3. Tail(l.stack) \in Seq(Data) /\ Head(l.stack) \in Data
    BY <1>11, <2>2, HeadTailProperties
  <2> HIDE DEF u
  <2>4. /\ DOMAIN k = {"list", "stack", "memory", "fired", "firing", "start", "length", "index"}
        /\ k.list = l.list /\ k.stack = Tail(l.stack) /\ k.start = 1
    BY <1>7
  <2> HIDE DEF k
  <2>5. /\ DOMAIN u.lists = Lists /\ u.calls = << >> /\ u.lists[Own] = k
    BY <1>3, <2>1 DEF Puts
  <2>6. \A i \in DOMAIN k.list : ~(i < k.start)
    BY <2>2, <2>4
  <2>7. k.list \in Seq(UserFunctions) /\ k.stack \in Seq(Data) \cup {Undefined} /\ k.start \in Nat \ {0}
    BY <2>2, <2>3, <2>4
  <2>8. WorldIs(Fire(u, Own, Head(l.stack)), t)
    BY <1>4, <2>3, <2>4, <2>5, <2>6, <2>7, FireIs
  <2>9. QED BY <1>6, <1>11, <2>8 DEF u
<1>12. CASE l.list # Undefined /\ l.stack = Undefined /\ l.memory # Undefined
  <2>1. FinishFiring(w) = EmptyList(v, Own)
    BY <1>6, <1>12 DEF EmptyList
  <2>2. QED BY <1>3, <1>10, <2>1, EmptyListIs
<1>13. CASE l.list # Undefined /\ l.stack = Undefined /\ l.memory = Undefined
  BY <1>6, <1>10, <1>13, DisableIs
<1>14. CASE l.list = Undefined \/ (l.stack # Undefined /\ l.stack = << >>)
  BY <1>6, <1>10, <1>14
<1>15. QED BY <1>11, <1>12, <1>13, <1>14

\* A function is called: it hears of the value of the call.
LEMMA CalledIs ==
  ASSUME NEW w, NEW t, WorldIs(w, t), w.calls # << >>, w.calls[1].at = "loop",
         w.lists[Own].list # Undefined, w.lists[Own].index \in DOMAIN w.lists[Own].list,
         NEW f, f = w.lists[Own].list[w.lists[Own].index],
         NEW r, r = [w EXCEPT !.calls = Append(Front(@), [w.calls[1] EXCEPT !.at = "function", !.runs = f])]
  PROVE  WorldIs(r, Append(t, [list |-> Own, f |-> f, data |-> w.calls[1].data]))
<1> DEFINE l == w.lists[Own]
           c == [w.calls[1] EXCEPT !.at = "function", !.runs = f]
           e == [list |-> Own, f |-> f, data |-> w.calls[1].data]
           heard == Append(t, e)
<1>1. /\ w.calls[1] \in OwnCalls
      /\ \A d : Append(Front(w.calls), d) = << d >>
  BY OneCall DEF WorldIs
<1>2. /\ DOMAIN r = {"lists", "calls"} /\ r.lists = w.lists /\ r.calls = << c >>
  BY <1>1 DEF WorldIs
<1>3. l \in OwnList /\ t \in Seq(Tellings) /\ l.list \in Seq(UserFunctions) /\ l.index \in Int
  BY DEF WorldIs, OwnList
<1>4. f \in UserFunctions /\ l.index \in 1..Len(l.list) /\ f = l.list[l.index]
  BY <1>3
<1>5. c \in OwnCalls /\ c.at = "function" /\ c.data = w.calls[1].data /\ c.runs = f
  BY <1>1, <1>4 DEF OwnCalls
<1>6. e \in Tellings
  BY <1>1, <1>4 DEF OwnCalls, Tellings
<1> HIDE DEF c
<1>7. << c >> \in Seq(OwnCalls) /\ Len(<< c >>) = 1 /\ << c >>[1] = c /\ << c >> # << >>
  BY <1>5
<1>8. Behind(l, c) = l.index /\ Behind(l, w.calls[1]) = l.index - 1
  BY <1>5 DEF Behind
<1>9. FiringIs(l, << c >>)
  BY <1>3, <1>4, <1>5, <1>7, <1>8 DEF WorldIs, FiringIs
<1>10. /\ heard \in Seq(Tellings)
       /\ \A g, d : Told(t, g, d) => Told(heard, g, d)
       /\ Told(heard, f, w.calls[1].data)
  <2> HIDE DEF e
  <2>1. /\ heard \in Seq(Tellings) /\ Len(heard) = Len(t) + 1 /\ Len(t) \in Nat /\ heard[Len(t) + 1] = e
        /\ \A j \in 1..Len(t) : heard[j] = t[j]
    BY <1>3, <1>6, AppendProperties
  <2> HIDE DEF heard
  <2>2. DOMAIN heard = 1..(Len(t) + 1) /\ DOMAIN t = 1..Len(t)
    BY <1>3, <2>1
  <2>3. \A g, d : Told(t, g, d) => Told(heard, g, d)
    BY <2>1, <2>2 DEF Told
  <2>4. Len(t) + 1 \in DOMAIN heard
    BY <2>1, <2>2
  <2>5. Told(heard, f, w.calls[1].data)
    BY <2>1, <2>4 DEF Told, e
  <2>6. QED BY <2>1, <2>3, <2>5
<1> HIDE DEF heard, l
<1>11. MemoryIs(l, << c >>, heard)
  <2>1. SUFFICES ASSUME l.memory # Undefined
                 PROVE  /\ c.data = l.memory
                        /\ \A i \in DOMAIN l.list : i <= l.index => Told(heard, l.list[i], l.memory)
    BY <1>7, <1>8 DEF MemoryIs
  <2>2. /\ w.calls[1].data = l.memory
        /\ \A i \in DOMAIN l.list : i <= l.index - 1 => Told(t, l.list[i], l.memory)
    BY <1>8, <2>1 DEF WorldIs, MemoryIs, l
  <2>3. ASSUME NEW i \in DOMAIN l.list, i <= l.index
        PROVE  Told(heard, l.list[i], l.memory)
    <3>1. i \in Int
      BY <1>3
    <3>2. CASE i = l.index
      BY <1>4, <1>10, <2>2, <3>2
    <3>3. CASE i # l.index
      BY <1>3, <1>10, <2>2, <2>3, <3>1, <3>3
    <3>4. QED BY <3>2, <3>3
  <2>4. QED BY <1>5, <2>2, <2>3
<1>12. DOMAIN r.lists = Lists /\ r.lists[Own] = l
  BY <1>2 DEF WorldIs, l
<1>13. QED BY <1>2, <1>3, <1>9, <1>10, <1>11, <1>12 DEF WorldIs, heard

\* A list that forgets its value.
LEMMA ForgottenIs ==
  ASSUME NEW w, NEW t, WorldIs(w, t), NEW r, r = [w EXCEPT !.lists[Own].memory = Undefined]
  PROVE  /\ WorldIs(r, t) /\ r.calls = w.calls
         /\ r.lists[Own].memory = Undefined
<1> DEFINE l == w.lists[Own]
           m == [l EXCEPT !.memory = Undefined]
<1>1. Puts(r, w, m)
  BY DEF WorldIs, Puts, Lists
<1>2. l \in OwnList
  BY DEF WorldIs
<1> HIDE DEF l
<1>3. /\ m \in OwnList /\ m.memory = Undefined
      /\ m.list = l.list /\ m.firing = l.firing /\ m.fired = l.fired
      /\ m.length = l.length /\ m.index = l.index
  BY <1>2 DEF OwnList
<1> HIDE DEF m
<1>4. FiringIs(m, w.calls) /\ MemoryIs(m, w.calls, t)
  BY <1>3 DEF WorldIs, FiringIs, MemoryIs, Behind, l
<1>5. QED BY <1>1, <1>3, <1>4, PutsIs DEF Puts

\* What a step makes of the lists and of their calls.
LEMMA BecomeIs ==
  ASSUME NEW r, Become(r), WorldIs(r, told')
  PROVE  WorldIs(World, told)'
BY DEF Become, World, WorldIs

\* The call that is under way is one of the list.
LEMMA InnerIs ==
  ASSUME WorldIs(World, told), firings # << >>
  PROVE  /\ InnerFiring = World.calls[1] /\ World.calls = firings /\ World.lists = lists
         /\ InnerFiring \in OwnCalls /\ InnerFiring.list = Own
         /\ InnerFiring.at \in {"loop", "function"}
         /\ TopList = lists[Own]
         /\ InnerFiring.at = "function" => InnerFiring.runs \in UserFunctions
<1>1. World.calls = firings /\ World.lists = lists
  BY DEF World
<1>2. FiringIs(lists[Own], firings)
  BY <1>1 DEF WorldIs
<1>3. Last(firings) = firings[1] /\ firings[1] \in OwnCalls
  BY <1>2, OneCall
<1>4. InnerFiring.list = Own /\ InnerFiring.at \in {"loop", "function"}
  BY <1>3 DEF InnerFiring, OwnCalls
<1>5. QED BY <1>1, <1>2, <1>3, <1>4 DEF InnerFiring, TopList, FiringIs

\* In the beginning nothing fires and nothing is remembered.
LEMMA ListsInitially ==
  ASSUME ListsInit
  PROVE  ListsInv
<1> SUFFICES ASSUME use = "callbacks"
             PROVE  fires \in Nat /\ WorldIs(World, told)
  BY DEF ListsInv
<1> DEFINE l == lists[Own]
<1>1. /\ World.lists = lists /\ World.calls = << >> /\ DOMAIN World = {"lists", "calls"}
      /\ told = << >> /\ fires = 0
  BY DEF ListsInit, World
<1>2. PICK once \in BOOLEAN : l = NewList(<< >>, once) /\ DOMAIN lists = Lists
  <2>1. PICK own \in SUBSET {"once", "memory", "unique", "stopOnFalse"} :
          lists = [n \in Lists |-> IF n = Own THEN NewList(<< >>, "once" \in own)
                                              ELSE NewDeferredList(n)]
    BY DEF ListsInit
  <2>2. Own \in Lists
    BY DEF Lists
  <2>3. l = NewList(<< >>, "once" \in own) /\ DOMAIN lists = Lists
    BY <2>1, <2>2
  <2>4. CASE "once" \in own
    BY <2>3, <2>4 DEF NewList
  <2>5. CASE "once" \notin own
    BY <2>3, <2>5 DEF NewList
  <2>6. QED BY <2>4, <2>5
<1> HIDE DEF l
<1>3. << >> \in Seq(UserFunctions) /\ << >> \in Seq(Data) /\ << >> \in Seq(Tellings)
      /\ << >> \in Seq(OwnCalls) /\ Len(<< >>) = 0
  BY EmptySeq
<1>4. l \in OwnList /\ l.list = << >> /\ l.memory = Undefined /\ l.firing = FALSE
  BY <1>2, <1>3 DEF NewList, OwnList
<1>5. FiringIs(l, << >>) /\ MemoryIs(l, << >>, << >>)
  BY <1>3, <1>4 DEF FiringIs, MemoryIs
<1>6. QED BY <1>1, <1>2, <1>3, <1>4, <1>5 DEF WorldIs, l

\* Each step of the lists keeps that.
LEMMA ListsStep ==
  ASSUME ListsInv, [ListsNext]_lvars
  PROVE  ListsInv'
<1> DEFINE Fine == fires \in Nat /\ WorldIs(World, told)
<1> SUFFICES ASSUME use' = "callbacks", ~broken'
             PROVE  Fine'
  BY Zenon DEF ListsInv
<1>2. use = "callbacks" /\ ~broken => fires \in Nat /\ WorldIs(World, told)
  BY DEF ListsInv
<1>3. CASE UNCHANGED lvars
  BY <1>2, <1>3 DEF lvars, World
<1>4. CASE LoopEnds
  <2>1. fires \in Nat /\ WorldIs(World, told) /\ fires' = fires /\ told' = told /\ firings # << >>
        /\ InnerFiring.at = "loop"
    BY <1>2, <1>4, Zenon DEF LoopEnds, AtLoop
  <2>2. /\ InnerFiring = World.calls[1] /\ World.calls = firings /\ World.lists = lists
        /\ TopList = lists[Own]
    BY <2>1, InnerIs
  <2> DEFINE l == lists[Own]
  <2>3. ~(l.list # Undefined /\ l.index <= l.length)
    BY <1>4, <2>2 DEF LoopEnds, LoopGoesOn
  <2>4. ASSUME l.list # Undefined, l.memory # Undefined, NEW i \in DOMAIN l.list
        PROVE  Told(told, l.list[i], l.memory)
    <3>1. /\ l \in OwnList /\ FiringIs(l, firings) /\ MemoryIs(l, firings, told)
      BY <2>1, <2>2 DEF WorldIs
    <3> HIDE DEF l
    <3>2. l.length = Len(l.list) /\ l.list \in Seq(UserFunctions) /\ l.index \in Int
      BY <2>1, <2>4, <3>1 DEF FiringIs, OwnList
    <3>3. Behind(l, firings[1]) = l.index - 1
      BY <2>1, <2>2 DEF Behind
    <3>4. i <= l.index - 1
      BY <2>3, <2>4, <3>2
    <3>5. QED BY <2>1, <2>4, <3>1, <3>3, <3>4 DEF MemoryIs
  <2>5. WorldIs(FinishFiring(World), told)
    BY <2>1, <2>2, <2>4, FinishIs
  <2>6. WorldIs(World, told)'
    BY <1>4, <2>1, <2>5, BecomeIs DEF LoopEnds
  <2>7. QED BY <2>1, <2>6
<1>5. CASE LoopFails
  BY <1>5 DEF LoopFails
<1>6. CASE CallFunction
  <2>1. /\ fires \in Nat /\ WorldIs(World, told) /\ fires' = fires /\ firings # << >>
        /\ InnerFiring.at = "loop"
    BY <1>2, <1>6, Zenon DEF CallFunction, AtCallback, LoopGoesOn, AtLoop
  <2>2. /\ InnerFiring = World.calls[1] /\ World.calls = firings /\ World.lists = lists
        /\ TopList = lists[Own] /\ InnerFiring.list = Own
    BY <2>1, InnerIs
  <2>3. /\ lists[Own].list # Undefined /\ lists[Own].index \in DOMAIN lists[Own].list
        /\ Callback = lists[Own].list[lists[Own].index]
    BY <1>6, <2>2 DEF CallFunction, AtCallback, LoopGoesOn, Callback
  <2> DEFINE r == CallbackRunning("function", Callback)
             heard == Append(told, [list |-> Own, f |-> Callback, data |-> InnerFiring.data])
  <2>4. r = [World EXCEPT !.calls = Append(Front(@), [World.calls[1] EXCEPT !.at = "function", !.runs = Callback])]
    BY <2>2 DEF CallbackRunning
  <2> HIDE DEF r
  <2>5. WorldIs(r, heard)
    BY <2>1, <2>2, <2>3, <2>4, CalledIs
  <2>6. told' = heard /\ Become(r)
    BY <1>6, <2>2 DEF CallFunction, r
  <2>7. WorldIs(World, told)'
    BY <2>5, <2>6, BecomeIs
  <2>8. QED BY <2>1, <2>7
<1>7. ASSUME AtCallback, IsBuiltin(Callback), use = "callbacks", ~broken
      PROVE  FALSE
  <2>1. WorldIs(World, told) /\ firings # << >>
    BY <1>2, <1>7 DEF AtCallback, LoopGoesOn, AtLoop
  <2>2. TopList = lists[Own] /\ lists[Own] \in OwnList
    BY <2>1, InnerIs DEF WorldIs
  <2>3. TopList.list \in Seq(UserFunctions) /\ TopList.index \in DOMAIN TopList.list
    BY <1>7, <2>2 DEF AtCallback, LoopGoesOn, OwnList
  <2>4. Callback \in UserFunctions
    BY <2>3 DEF Callback
  <2>5. QED BY <1>7, <2>4 DEF IsBuiltin
<1>8. CASE CallFiring \/ CallSettler \/ CallUpdate
  BY <1>7, <1>8 DEF CallFiring, CallSettler, CallUpdate
<1>9. CASE BuiltinReturns
  BY <1>2, <1>9, InnerIs DEF BuiltinReturns
<1>10. CASE CallEnds
  <2>1. /\ fires \in Nat /\ WorldIs(World, told) /\ fires' = fires /\ told' = told
        /\ firings # << >> /\ InnerFiring.at = "function"
    BY <1>2, <1>10, Zenon DEF CallEnds, InFunction
  <2>2. /\ InnerFiring = World.calls[1] /\ World.calls = firings /\ InnerFiring.list = Own
    BY <2>1, InnerIs
  <2>3. CASE Become(NextCallback(World))
    <3>1. WorldIs(NextCallback(World), told)
      BY <2>1, <2>2, NextCallbackIs
    <3>2. QED BY <2>1, <2>3, <3>1, BecomeIs
  <2>4. CASE Become(FinishFiring([World EXCEPT !.lists[InnerFiring.list].memory = Undefined]))
    <3> DEFINE r == [World EXCEPT !.lists[Own].memory = Undefined]
    <3>1. WorldIs(r, told) /\ r.calls = World.calls /\ r.lists[Own].memory = Undefined
      BY <2>1, ForgottenIs
    <3>2. Become(FinishFiring(r))
      BY <2>2, <2>4
    <3> HIDE DEF r
    <3>3. WorldIs(FinishFiring(r), told)
      BY <2>1, <2>2, <3>1, FinishIs
    <3>4. QED BY <2>1, <3>2, <3>3, BecomeIs
  <2>5. QED BY <1>10, <2>3, <2>4 DEF CallEnds
<1>11. CASE ReturnToForwarder
  <2>1. WorldIs(World, told) /\ firings # << >> /\ InnerFiring.at = "function"
    BY <1>2, <1>11, Zenon DEF ReturnToForwarder, InFunction
  <2>2. InnerFiring.runs \in UserFunctions
    BY <2>1, InnerIs
  <2>3. QED BY <1>11, <2>2 DEF ReturnToForwarder, IsForwarder, IsBuiltin
<1>12. CASE CallbackThrows
  BY <1>12 DEF CallbackThrows
<1>13. ASSUME InScript, WorldIs(World, told)
       PROVE  World.calls # << >> => World.calls[1].at = "function"
  BY <1>13, InnerIs DEF InScript, InFunction, World
<1>14. CASE FireValue
  <2>1. /\ fires \in Nat /\ WorldIs(World, told) /\ fires' = fires + 1 /\ told' = told
        /\ use = "callbacks"
    BY <1>2, <1>14, Zenon DEF FireValue
  <2>2. Become(FireWith(World, Own, << fires' >>))
    BY <1>14, <2>1 DEF FireValue
  <2>3. fires' \in Nat /\ << fires' >> \in Data
    BY <2>1 DEF Data
  <2>4. WorldIs(FireWith(World, Own, << fires' >>), told')
    BY <2>1, <2>3, FireWithIs
  <2>5. QED BY <2>2, <2>3, <2>4, BecomeIs
<1>15. CASE AddFunction
  <2>1. /\ fires \in Nat /\ WorldIs(World, told) /\ fires' = fires /\ told' = told
        /\ use = "callbacks" /\ InScript
    BY <1>2, <1>15, Zenon DEF AddFunction
  <2>2. PICK f \in UserFunctions : Become(Add(World, Own, f))
    BY <1>15, <2>1 DEF AddFunction
  <2>3. WorldIs(Add(World, Own, f), told)
    BY <1>13, <2>1, AddIs
  <2>4. QED BY <2>1, <2>2, <2>3, BecomeIs
<1>16. CASE AddAlways
  <2>1. Watched # {} /\ use = "callbacks"
    BY <1>16 DEF AddAlways
  <2>2. QED BY <2>1 DEF Watched
<1>17. CASE ChangeList
  <2>1. /\ fires \in Nat /\ WorldIs(World, told) /\ fires' = fires /\ told' = told
        /\ use = "callbacks" /\ InScript
    BY <1>2, <1>17, Zenon DEF ChangeList
  <2>2. CASE \E f \in UserFunctions : Become(RemoveFrom(World, Own, f))
    <3>1. PICK f \in UserFunctions : Become(RemoveFrom(World, Own, f))
      BY <2>2
    <3>2. WorldIs(RemoveFrom(World, Own, f), told)
      BY <1>13, <2>1, RemoveFromIs
    <3>3. QED BY <2>1, <3>1, <3>2, BecomeIs
  <2>3. CASE Become(Disable(World, Own))
    BY <2>1, <2>3, DisableIs, BecomeIs
  <2>4. CASE Become(Lock(World, Own))
    BY <2>1, <2>4, LockIs, BecomeIs
  <2>5. QED BY <1>17, <2>2, <2>3, <2>4 DEF ChangeList
<1>18. CASE EmptyIt
  <2>1. /\ fires \in Nat /\ WorldIs(World, told) /\ fires' = fires /\ told' = told
        /\ ~lists[Own].firing
    BY <1>2, <1>18, Zenon DEF EmptyIt
  <2>2. World.calls = << >>
    BY <2>1 DEF WorldIs, FiringIs, World
  <2>3. WorldIs(EmptyList(World, Own), told)
    BY <2>1, <2>2, EmptyListIs
  <2>4. QED BY <1>18, <2>1, <2>3, BecomeIs DEF EmptyIt
<1>19. CASE Combine
  BY <1>19 DEF Combine
<1>20. QED
  BY <1>3, <1>4, <1>5, <1>6, <1>8, <1>9, <1>10, <1>11, <1>12, <1>14, <1>15, <1>16, <1>17,
     <1>18, <1>19 DEF ListsNext

\* When nothing fires, all callbacks are behind the loop.
LEMMA NobodyMissed ==
  ListsInv => NobodyMissesTheLastValue
<1>1. SUFFICES ASSUME ListsInv, use = "callbacks", firings = << >>, ~broken,
                      lists[Own].list # Undefined, lists[Own].memory # Undefined,
                      NEW i \in DOMAIN lists[Own].list
               PROVE  Told(told, lists[Own].list[i], lists[Own].memory)
  BY DEF NobodyMissesTheLastValue, Told
<1>2. MemoryIs(lists[Own], << >>, told)
  BY <1>1 DEF ListsInv, WorldIs, World
<1>3. QED BY <1>1, <1>2 DEF MemoryIs

\* jquery-1.9.1.js:1057-1108.  For any callbacks, any number of values and any number of calls
\* of users, by the callbacks too: when a list with memory is done each callback that is in it
\* was called with the last value.
THEOREM ListsTheorem == ListsSpec => []NobodyMissesTheLastValue
<1>1. ListsInit => ListsInv
  BY ListsInitially
<1>2. ListsInv /\ [ListsNext]_lvars => ListsInv'
  BY ListsStep
<1>3. QED BY <1>1, <1>2, NobodyMissed, PTL DEF ListsSpec

-----------------------------------------------------------------------------
(* EventHandlers: a handler has one call for an event.                     *)

\* What on makes of a binding.
HandleObjs ==
  [handleObj : Nat, guid : {b.guid : b \in Bindings}, one : {b.one : b \in Bindings},
   selector : {b.selector : b \in Bindings}, namespace : {b.namespace : b \in Bindings}]

CallsOfHandlers == [event : Nat, elem : Elements, handler : HandleObjs]

\* A list of handlers of element e: they have numbers of their own, up to n, and home says of
\* each number where it was bound.
ListFits(l, home, e, n) ==
  /\ l \in [list : Seq(HandleObjs), delegateCount : Nat]
  /\ l.delegateCount <= Len(l.list)
  /\ \A i \in DOMAIN l.list : l.list[i].handleObj \in 1..n /\ home[l.list[i].handleObj] = e
  /\ \A i, j \in DOMAIN l.list : l.list[i].handleObj = l.list[j].handleObj => i = j

HandlersFit(handlers, home, n) ==
  /\ handlers \in [Elements -> [EventTypes -> [list : Seq(HandleObjs), delegateCount : Nat]]]
  /\ \A e \in Elements, t \in EventTypes : ListFits(handlers[e][t], home, e, n)

\* What an event is still to call at the element that has its turn.
QueueFits(queue, home, e, n) ==
  /\ queue \in Seq(Elements \X HandleObjs)
  /\ \A i \in DOMAIN queue : queue[i][2].handleObj \in 1..n /\ home[queue[i][2].handleObj] = e
  /\ IsInjective(queue)

EventFields ==
  {"native", "default", "type", "target", "path", "namespace", "number", "only", "current", "at",
   "queue", "group", "running", "prevented", "stopped", "immediate"}

\* An element's handle has its turn once.
Turns == {<< >>, << "handle" >>, << "attribute" >>, << "attribute", "handle" >>,
          << "handle", "attribute" >>}

HandleWaits(v) == \E i \in DOMAIN v.at : v.at[i] = "handle"

\* An event under way comes to each element once.
EventFits(v, home, n) ==
  /\ DOMAIN v = EventFields
  /\ v.type \in EventTypes /\ v.target \in Elements
  /\ v.number \in Nat /\ v.number < n
  /\ v.path \in Seq(Elements) /\ IsInjective(v.path) /\ v.current \notin Range(v.path)
  /\ v.at \in Turns /\ (v.at # << >> => v.current \in Elements)
  /\ QueueFits(v.queue, home, v.current, n)
  /\ v.queue # << >> => ~HandleWaits(v)
  /\ v.default => v.type = "click" /\ v.queue = << >>

\* It has called no handler of an element to which it is still to come, or whose handle waits,
\* and no handler that is in the queue.
NotYetCalled(v, home, calls) ==
  ~v.default =>
    \A i \in DOMAIN calls : calls[i].event = v.number =>
      LET e == home[calls[i].handler.handleObj]
      IN  /\ e \notin Range(v.path)
          /\ e = v.current => ~HandleWaits(v)
          /\ << calls[i].elem, calls[i].handler >> \notin Range(v.queue)

\* The events under way.
DispatchesFit(ds, home, calls, n) ==
  /\ ds \in Seq(Range(ds))
  /\ \A k \in DOMAIN ds : EventFits(ds[k], home, n) /\ NotYetCalled(ds[k], home, calls)
  /\ \A k, m \in DOMAIN ds : ds[k].number = ds[m].number => k = m

CallsFit(calls, n) ==
  /\ calls \in Seq(CallsOfHandlers)
  /\ \A i \in DOMAIN calls : calls[i].event < n /\ calls[i].handler.handleObj <= n

\* The default action's own event is told from others.
DefaultTold(ds, type) == (\E k \in DOMAIN ds : ds[k].default) => type = "click"

OnceEach(calls) ==
  \A i, j \in DOMAIN calls : i < j /\ calls[i].event = calls[j].event =>
    << calls[i].handler, calls[i].elem >> # << calls[j].handler, calls[j].elem >>

EventsFit(home) ==
  /\ bound \in Nat
  /\ HandlersFit(events, home, bound)
  /\ DispatchesFit(dispatches, home, called, bound)
  /\ CallsFit(called, bound)
  /\ DefaultTold(dispatches, triggered)
  /\ OnceEach(called)

EventsInv == ~spoiled => \E home \in [Nat -> Elements \cup {NoElement}] : EventsFit(home)

\* A sequence is one of its own elements.
LEMMA OwnRange ==
  ASSUME NEW S, NEW q \in Seq(S)
  PROVE  q \in Seq(Range(q))
BY DEF Range

\* The numbers up to n name the same elements when there is one more.
LEMMA ListAgain ==
  ASSUME NEW n \in Nat, NEW home, NEW longer, \A i \in 1..n : longer[i] = home[i],
         NEW l, NEW e, ListFits(l, home, e, n)
  PROVE  ListFits(l, longer, e, n + 1)
<1>1. \A i \in DOMAIN l.list : l.list[i].handleObj \in 1..(n + 1) /\ longer[l.list[i].handleObj] = e
  BY DEF ListFits
<1>2. QED BY <1>1 DEF ListFits

\* A new handler is put behind the delegated ones or at the end.
LEMMA ListAdded ==
  ASSUME NEW n \in Nat, NEW home, NEW longer, \A i \in 1..n : longer[i] = home[i],
         NEW l, NEW e, ListFits(l, home, e, n), longer[n + 1] = e,
         NEW o \in HandleObjs, o.handleObj = n + 1
  PROVE  ListFits(WithHandler(l, o), longer, e, n + 1)
<1> DEFINE q == l.list
           c == l.delegateCount
<1>1. /\ q \in Seq(HandleObjs) /\ c \in Nat /\ c <= Len(q) /\ Len(q) \in Nat
      /\ l = [list |-> q, delegateCount |-> c]
  BY DEF ListFits
<1>2. \A i \in 1..Len(q) : /\ q[i].handleObj \in 1..n /\ q[i].handleObj # n + 1
                           /\ longer[q[i].handleObj] = e
  BY <1>1 DEF ListFits
<1>3. \A i, j \in 1..Len(q) : q[i].handleObj = q[j].handleObj => i = j
  BY <1>1 DEF ListFits
<1> HIDE DEF q, c
<1>4. ASSUME NEW p \in 0..Len(q), NEW r \in Seq(HandleObjs), Len(r) = Len(q) + 1, r[p + 1] = o,
             \A i \in 1..p : r[i] = q[i],
             \A i \in (p + 1)..Len(q) : r[i + 1] = q[i],
             NEW d \in Nat, d <= Len(r)
      PROVE  ListFits([list |-> r, delegateCount |-> d], longer, e, n + 1)
  <2>1. \A i \in DOMAIN r : \/ i = p + 1
                            \/ i \in 1..p /\ r[i] = q[i]
                            \/ i - 1 \in (p + 1)..Len(q) /\ r[i] = q[i - 1]
    <3>1. TAKE i \in DOMAIN r
    <3>2. i \in 1..(Len(q) + 1) /\ p \in Nat /\ Len(q) \in Nat
      BY <1>1, <1>4
    <3>3. CASE i <= p
      BY <1>4, <3>2, <3>3
    <3>4. CASE i > p + 1
      <4>1. i - 1 \in (p + 1)..Len(q) /\ (i - 1) + 1 = i
        BY <3>2, <3>4
      <4>2. QED BY <1>4, <4>1
    <3>5. QED BY <3>2, <3>3, <3>4
  <2>2. ASSUME NEW i \in DOMAIN r
        PROVE  /\ i = p + 1 => r[i].handleObj = n + 1
               /\ i # p + 1 => \E k \in 1..Len(q) : /\ r[i] = q[k]
                                                  /\ k = IF i <= p THEN i ELSE i - 1
    <3>1. i \in 1..(Len(q) + 1) /\ p \in 0..Len(q) /\ Len(q) \in Nat
      BY <1>1, <1>4
    <3>2. CASE i \in 1..p /\ r[i] = q[i]
      BY <3>1, <3>2
    <3>3. CASE i - 1 \in (p + 1)..Len(q) /\ r[i] = q[i - 1]
      BY <3>1, <3>3
    <3>4. QED BY <1>4, <2>1, <3>1, <3>2, <3>3
  <2>3. ASSUME NEW i \in DOMAIN r
        PROVE  r[i].handleObj \in 1..(n + 1) /\ longer[r[i].handleObj] = e
    BY <1>2, <2>2
  <2>4. ASSUME NEW i \in DOMAIN r, NEW j \in DOMAIN r, r[i].handleObj = r[j].handleObj
        PROVE  i = j
    <3>1. i \in Int /\ j \in Int /\ p \in Int
      BY <1>4
    <3>2. CASE i = p + 1 \/ j = p + 1
      BY <1>2, <2>2, <2>4, <3>2
    <3>3. CASE i # p + 1 /\ j # p + 1
      <4>1. PICK k \in 1..Len(q) : r[i] = q[k] /\ k = IF i <= p THEN i ELSE i - 1
        BY <2>2, <3>3
      <4>2. PICK m \in 1..Len(q) : r[j] = q[m] /\ m = IF j <= p THEN j ELSE j - 1
        BY <2>2, <3>3
      <4>3. k = m
        BY <1>3, <2>4, <4>1, <4>2
      <4>4. QED BY <3>1, <3>3, <4>1, <4>2, <4>3
    <3>4. QED BY <3>2, <3>3
  <2>5. QED BY <1>4, <2>3, <2>4 DEF ListFits
<1>5. CASE o.selector = NoElement
  <2> DEFINE r == Append(q, o)
  <2>1. WithHandler(l, o) = [list |-> r, delegateCount |-> c]
    BY <1>1, <1>5 DEF WithHandler
  <2>2. /\ r \in Seq(HandleObjs) /\ Len(r) = Len(q) + 1 /\ r[Len(q) + 1] = o
        /\ \A i \in 1..Len(q) : r[i] = q[i]
    BY <1>1, AppendProperties
  <2> HIDE DEF r
  <2>3. QED BY <1>1, <1>4, <2>1, <2>2
<1>6. CASE o.selector # NoElement
  <2> DEFINE r == InsertAt(q, c + 1, o)
  <2>1. WithHandler(l, o) = [list |-> r, delegateCount |-> c + 1]
    BY <1>1, <1>6 DEF WithHandler
  <2>2. /\ r \in Seq(HandleObjs) /\ Len(r) = Len(q) + 1 /\ r[c + 1] = o
        /\ \A i \in 1..c : r[i] = q[i]
        /\ \A i \in (c + 1)..Len(q) : r[i + 1] = q[i]
    <3> DEFINE a == SubSeq(q, 1, c)
               b == SubSeq(q, c + 1, Len(q))
    <3>1. r = (a \o << o >>) \o b
      <4>1. (c + 1) - 1 = c
        BY <1>1
      <4>2. r = SubSeq(q, 1, (c + 1) - 1) \o << o >> \o SubSeq(q, c + 1, Len(q))
        BY Zenon DEF InsertAt
      <4>3. QED BY <4>1, <4>2, Zenon
    <3>2. /\ a \in Seq(HandleObjs) /\ Len(a) = c /\ (\A i \in 1..c : a[i] = q[i])
          /\ b \in Seq(HandleObjs) /\ Len(b) = Len(q) - c
          /\ \A i \in 1..(Len(q) - c) : b[i] = q[c + i]
      BY <1>1
    <3> HIDE DEF a, b, r
    <3> DEFINE x == a \o << o >>
    <3>3. /\ x \in Seq(HandleObjs) /\ Len(x) = c + 1 /\ x[c + 1] = o
          /\ \A i \in 1..c : x[i] = q[i]
      BY <1>1, <3>2
    <3> HIDE DEF x
    <3>4. /\ r \in Seq(HandleObjs) /\ Len(r) = Len(q) + 1 /\ r[c + 1] = o
          /\ \A i \in 1..c : r[i] = q[i]
          /\ \A i \in 1..(Len(q) - c) : r[c + 1 + i] = q[c + i]
      <4>1. r = x \o b
        BY <3>1 DEF x
      <4>2. r \in Seq(HandleObjs) /\ Len(r) = Len(x) + Len(b)
        BY <3>2, <3>3, <4>1, ConcatProperties
      <4>3. \A i \in 1..Len(r) : r[i] = IF i <= Len(x) THEN x[i] ELSE b[i - Len(x)]
        <5>1. \A i \in 1..(Len(x) + Len(b)) : (x \o b)[i] = IF i <= Len(x) THEN x[i] ELSE b[i - Len(x)]
          BY <3>2, <3>3, ConcatProperties
        <5>2. QED BY <4>1, <4>2, <5>1
      <4>4. Len(r) = Len(q) + 1
        BY <1>1, <3>2, <3>3, <4>2
      <4>5. \A i \in 1..(c + 1) : r[i] = x[i]
        BY <1>1, <3>3, <4>3, <4>4
      <4>6. ASSUME NEW i \in 1..(Len(q) - c) PROVE r[c + 1 + i] = b[i]
        <5>1. c + 1 + i \in 1..Len(r) /\ ~(c + 1 + i <= Len(x)) /\ (c + 1 + i) - Len(x) = i
          BY <1>1, <3>3, <4>4
        <5>2. QED BY <4>3, <5>1
      <4>7. QED BY <1>1, <3>2, <3>3, <4>2, <4>4, <4>5, <4>6
    <3>5. ASSUME NEW i \in (c + 1)..Len(q) PROVE r[i + 1] = q[i]
      <4>1. i - c \in 1..(Len(q) - c) /\ c + 1 + (i - c) = i + 1 /\ c + (i - c) = i
        BY <1>1
      <4>2. QED BY <3>4, <4>1
    <3>6. QED BY <3>4, <3>5
  <2> HIDE DEF r
  <2>3. c \in 0..Len(q) /\ c + 1 \in Nat /\ c + 1 <= Len(r)
    BY <1>1, <2>2
  <2>4. ListFits([list |-> r, delegateCount |-> c + 1], longer, e, n + 1)
    BY <1>4, <2>2, <2>3
  <2>5. QED BY <2>1, <2>4
<1>7. QED BY <1>5, <1>6

\* What off leaves.
LEMMA ListCut ==
  ASSUME NEW n \in Nat, NEW home, NEW l, NEW e, ListFits(l, home, e, n),
         NEW guid, NEW selector, NEW namespace
  PROVE  ListFits(WithoutHandlers(l, guid, selector, namespace), home, e, n)
<1> DEFINE q == l.list
           K == {i \in DOMAIN q : ~Matches(q[i], guid, selector, namespace)}
           r == Chosen(q, K)
           D == {i \in DOMAIN r : r[i].selector # NoElement}
<1>1. q \in Seq(HandleObjs)
  BY DEF ListFits
<1>2. /\ r \in Seq(HandleObjs) /\ Len(r) = Cardinality(K) /\ Cardinality(K) \in Nat
      /\ \A i \in 1..Cardinality(K) : \E j \in K : r[i] = q[j] /\ i = Cardinality(Below(K, j)) + 1
  <2>1. K \in SUBSET DOMAIN q
    OBVIOUS
  <2> HIDE DEF K, q
  <2>2. QED BY <1>1, <2>1, ChosenIsFrom
<1>3. WithoutHandlers(l, guid, selector, namespace) = [list |-> r, delegateCount |-> Cardinality(D)]
  BY DEF WithoutHandlers
<1>4. \A j \in K : /\ q[j].handleObj \in 1..n /\ home[q[j].handleObj] = e
                   /\ \A k \in K : q[j].handleObj = q[k].handleObj => j = k
  BY DEF ListFits
<1> HIDE DEF r, K, q
<1>5. Cardinality(D) \in Nat /\ Cardinality(D) <= Len(r)
  <2>1. IsFiniteSet(1..Len(r)) /\ Cardinality(1..Len(r)) = Len(r) /\ D \subseteq 1..Len(r)
    <3>1. Len(r) \in Nat /\ DOMAIN r = 1..Len(r)
      BY <1>2
    <3>2. D \subseteq 1..Len(r)
      BY <3>1
    <3> DEFINE m == Len(r)
    <3>3. m \in Nat
      BY <3>1
    <3> HIDE DEF m, D
    <3>4. IsFiniteSet(1..m) /\ Cardinality(1..m) = m
      BY <3>3, FS_Interval
    <3>5. QED BY <3>2, <3>4 DEF m
  <2> HIDE DEF D
  <2>2. QED BY <2>1, FS_Subset, FS_CardinalityType
<1> HIDE DEF D
<1>6. DOMAIN r = 1..Cardinality(K)
  BY <1>2
<1>7. \A i \in DOMAIN r : r[i].handleObj \in 1..n /\ home[r[i].handleObj] = e
  BY <1>2, <1>4, <1>6
<1>8. ASSUME NEW i \in DOMAIN r, NEW j \in DOMAIN r, r[i].handleObj = r[j].handleObj
      PROVE  i = j
  <2>1. PICK a \in K : r[i] = q[a] /\ i = Cardinality(Below(K, a)) + 1
    BY <1>2, <1>6
  <2>2. PICK b \in K : r[j] = q[b] /\ j = Cardinality(Below(K, b)) + 1
    BY <1>2, <1>6
  <2>3. a = b
    BY <1>4, <1>8, <2>1, <2>2
  <2>4. QED BY <2>1, <2>2, <2>3
<1>9. QED BY <1>2, <1>3, <1>5, <1>7, <1>8 DEF ListFits

\* What on and off make of the lists of an element.
LEMMA AddFits ==
  ASSUME NEW n \in Nat, NEW home, NEW longer, \A i \in 1..n : longer[i] = home[i],
         HandlersFit(events, home, n), NEW e \in Elements, NEW type \in EventTypes,
         longer[n + 1] = e, NEW o \in HandleObjs, o.handleObj = n + 1, AddHandler(e, type, o)
  PROVE  HandlersFit(events', longer, n + 1)
<1>1. /\ events \in [Elements -> [EventTypes -> [list : Seq(HandleObjs), delegateCount : Nat]]]
      /\ \A f \in Elements, t \in EventTypes : ListFits(events[f][t], home, f, n)
  BY DEF HandlersFit
<1>2. events' = [events EXCEPT ![e][type] = WithHandler(@, o)]
  BY DEF AddHandler
<1>3. ListFits(WithHandler(events[e][type], o), longer, e, n + 1)
  BY <1>1, ListAdded
<1>4. WithHandler(events[e][type], o) \in [list : Seq(HandleObjs), delegateCount : Nat]
  BY <1>3 DEF ListFits
<1>5. events' \in [Elements -> [EventTypes -> [list : Seq(HandleObjs), delegateCount : Nat]]]
  BY <1>1, <1>2, <1>4
<1>6. ASSUME NEW f \in Elements, NEW t \in EventTypes
      PROVE  ListFits(events'[f][t], longer, f, n + 1)
  <2>1. CASE f = e /\ t = type
    BY <1>1, <1>2, <1>3, <2>1
  <2>2. CASE ~(f = e /\ t = type)
    <3>1. events'[f][t] = events[f][t]
      BY <1>1, <1>2, <2>2
    <3>2. QED BY <1>1, <3>1, ListAgain
  <2>3. QED BY <2>1, <2>2
<1>7. QED BY <1>5, <1>6 DEF HandlersFit

LEMMA RemoveFits ==
  ASSUME NEW n \in Nat, NEW home, HandlersFit(events, home, n), NEW e, NEW types, NEW guid,
         NEW selector, NEW namespace, RemoveHandlers(e, types, guid, selector, namespace)
  PROVE  HandlersFit(events', home, n)
<1> DEFINE l(f, t) == events[f][t]
           Cut(f, t) == WithoutHandlers(events[f][t], guid, selector, namespace)
<1>1. /\ events \in [Elements -> [EventTypes -> [list : Seq(HandleObjs), delegateCount : Nat]]]
      /\ \A f \in Elements, t \in EventTypes : ListFits(events[f][t], home, f, n)
  BY DEF HandlersFit
<1>2. events' = [events EXCEPT ![e] = [t \in EventTypes |-> IF t \in types THEN Cut(e, t) ELSE events[e][t]]]
  BY DEF RemoveHandlers
<1>3. \A f \in Elements, t \in EventTypes : ListFits(Cut(f, t), home, f, n)
  BY <1>1, ListCut
<1>4. \A f \in Elements, t \in EventTypes : Cut(f, t) \in [list : Seq(HandleObjs), delegateCount : Nat]
  BY <1>3 DEF ListFits
<1> HIDE DEF Cut
<1>5. events' \in [Elements -> [EventTypes -> [list : Seq(HandleObjs), delegateCount : Nat]]]
  BY <1>1, <1>2, <1>4
<1>6. \A f \in Elements, t \in EventTypes : events'[f][t] \in {Cut(f, t), events[f][t]}
  BY <1>1, <1>2
<1>7. \A f \in Elements, t \in EventTypes : ListFits(events'[f][t], home, f, n)
  BY <1>1, <1>3, <1>6
<1>8. QED BY <1>5, <1>7 DEF HandlersFit

\* What is put into an order is a sequence, without repetition if there was none.
LEMMA InOrderIs ==
  ASSUME NEW S, NEW K, IsFiniteSet(K), NEW f \in [K -> S], NEW before, IsOrder(before, K)
  PROVE  /\ InOrder(f, K, before) \in Seq(S)
         /\ \A n \in DOMAIN InOrder(f, K, before) : \E j \in K :
              InOrder(f, K, before)[n] = f[j] /\ Ranks(K, before)[j] = n
<1> DEFINE place == Ranks(K, before)
           From(n) == CHOOSE j \in K : place[j] = n
           c == Cardinality(K)
           r == InOrder(f, K, before)
<1>1. \A n \in 1..c : \E j \in K : place[j] = n
  BY RanksAreTaken
<1>2. r = [n \in 1..c |-> f[From(n)]]
  BY DEF InOrder
<1> HIDE DEF place, r
<1>3. \A n \in 1..c : From(n) \in K /\ place[From(n)] = n
  BY <1>1
<1>4. c \in Nat
  BY FS_CardinalityType
<1> HIDE DEF From, c
<1>5. \A n \in 1..c : f[From(n)] \in S
  BY <1>3
<1>6. r \in Seq(S)
  BY <1>2, <1>4, <1>5
<1>7. \A n \in DOMAIN r : r[n] = f[From(n)] /\ From(n) \in K /\ place[From(n)] = n
  BY <1>2, <1>3
<1>8. QED BY <1>6, <1>7 DEF r, place

\* Two parts that have nothing twice and nothing in common.
LEMMA JoinedIsInjective ==
  ASSUME NEW S, NEW a \in Seq(S), NEW b \in Seq(S), IsInjective(a), IsInjective(b),
         \A i \in DOMAIN a, j \in DOMAIN b : a[i] # b[j]
  PROVE  /\ a \o b \in Seq(S) /\ IsInjective(a \o b)
         /\ \A k \in DOMAIN (a \o b) : (\E i \in DOMAIN a : (a \o b)[k] = a[i])
                                     \/ (\E j \in DOMAIN b : (a \o b)[k] = b[j])
<1> DEFINE r == a \o b
<1>1. /\ r \in Seq(S) /\ Len(r) = Len(a) + Len(b) /\ Len(a) \in Nat /\ Len(b) \in Nat
      /\ DOMAIN r = 1..(Len(a) + Len(b)) /\ DOMAIN a = 1..Len(a) /\ DOMAIN b = 1..Len(b)
  BY ConcatProperties
<1>2. \A k \in 1..(Len(a) + Len(b)) : r[k] = IF k <= Len(a) THEN a[k] ELSE b[k - Len(a)]
  BY ConcatProperties
<1> HIDE DEF r
<1>3. ASSUME NEW k \in DOMAIN r
      PROVE  \/ k \in DOMAIN a /\ r[k] = a[k]
             \/ k > Len(a) /\ k - Len(a) \in DOMAIN b /\ r[k] = b[k - Len(a)]
  BY <1>1, <1>2
<1>4. ASSUME NEW k \in DOMAIN r, NEW m \in DOMAIN r, r[k] = r[m]
      PROVE  k = m
  <2>1. k \in Int /\ m \in Int
    BY <1>1
  <2>2. CASE k \in DOMAIN a /\ r[k] = a[k] /\ m \in DOMAIN a /\ r[m] = a[m]
    BY <1>4, <2>2 DEF IsInjective
  <2>3. CASE /\ k - Len(a) \in DOMAIN b /\ r[k] = b[k - Len(a)]
             /\ m - Len(a) \in DOMAIN b /\ r[m] = b[m - Len(a)]
    <3>1. k - Len(a) = m - Len(a)
      BY <1>4, <2>3 DEF IsInjective
    <3>2. QED BY <1>1, <2>1, <3>1
  <2>4. QED BY <1>3, <1>4, <2>2, <2>3
<1>5. IsInjective(r)
  BY <1>4 DEF IsInjective
<1>6. QED BY <1>1, <1>3, <1>5 DEF r

\* dispatch finds handlers of the element that has its turn, each of them once for each element
\* that it is called for.
LEMMA QueueIs ==
  ASSUME NEW n \in Nat, NEW home, HandlersFit(events, home, n), NEW e \in Elements,
         NEW v, v.type \in EventTypes, v.target \in Elements
  PROVE  QueueFits(HandlerQueue(v, e), home, e, n)
<1> DEFINE h     == events[e][v.type]
           q     == h.list
           path  == Path[v.target]
           found == {p \in (DOMAIN path) \X (1..h.delegateCount) :
                       /\ ~Contains(Path[e], path[p[1]])
                       /\ h.list[p[2]].selector = path[p[1]]}
           innerFirst == {w \in found \X found : \/ w[1][1] < w[2][1]
                                                 \/ w[1][1] = w[2][1] /\ w[1][2] < w[2][2]}
           own   == SubSeq(h.list, h.delegateCount + 1, Len(h.list))
           f     == [p \in found |-> << path[p[1]], h.list[p[2]] >>]
           a     == InOrder(f, found, innerFirst)
           b     == [i \in DOMAIN own |-> << e, own[i] >>]
           c     == h.delegateCount
           S     == Elements \X HandleObjs
<1>1. HandlerQueue(v, e) = a \o b
  BY DEF HandlerQueue
<1>2. /\ q \in Seq(HandleObjs) /\ c \in Nat /\ c <= Len(q) /\ Len(q) \in Nat
      /\ \A i \in 1..Len(q) : q[i].handleObj \in 1..n /\ home[q[i].handleObj] = e
      /\ \A i, j \in 1..Len(q) : q[i].handleObj = q[j].handleObj => i = j
  <2>1. ListFits(h, home, e, n)
    BY DEF HandlersFit
  <2> HIDE DEF h
  <2>2. QED BY <2>1 DEF ListFits
<1>3. /\ path \in Seq(Elements) /\ Len(path) \in Nat /\ DOMAIN path = 1..Len(path)
      /\ \A i, j \in DOMAIN path : path[i] = path[j] => i = j
  <2>1. path \in Seq(Elements) /\ IsInjective(path)
    BY TreeAssumption
  <2> HIDE DEF path
  <2>2. QED BY <2>1 DEF IsInjective
<1>4. \A p \in found : p = << p[1], p[2] >> /\ p[1] \in 1..Len(path) /\ p[2] \in 1..c
  BY <1>3
<1>5. IsFiniteSet(found)
  <2>1. IsFiniteSet(1..Len(path)) /\ IsFiniteSet(1..c)
    <3>1. c \in Int /\ Len(path) \in Int
      BY <1>2, <1>3
    <3> HIDE DEF c, path
    <3>2. QED BY <3>1, FS_Interval
  <2>2. IsFiniteSet((1..Len(path)) \X (1..c))
    BY <2>1, FS_Product
  <2>3. found \subseteq (1..Len(path)) \X (1..c)
    BY <1>3
  <2> HIDE DEF found
  <2>4. QED BY <2>2, <2>3, FS_Subset
<1>6. \A x, y \in found : << x, y >> \in innerFirst <=> \/ x[1] < y[1]
                                                        \/ x[1] = y[1] /\ x[2] < y[2]
  OBVIOUS
<1> HIDE DEF innerFirst, found, path
<1>7. IsOrder(innerFirst, found)
  <2>1. \A p \in found : p[1] \in Int /\ p[2] \in Int
    BY <1>2, <1>3, <1>4
  <2>2. \A x \in found : << x, x >> \notin innerFirst
    BY <1>6, <2>1
  <2>3. \A x, y \in found : x # y => << x, y >> \in innerFirst \/ << y, x >> \in innerFirst
    <3>1. TAKE x \in found, y \in found
    <3>2. x # y => x[1] # y[1] \/ x[2] # y[2]
      BY <1>4
    <3>3. QED BY <1>6, <2>1, <3>2
  <2>4. ASSUME NEW x \in found, NEW y \in found, NEW z \in found,
               << x, y >> \in innerFirst, << y, z >> \in innerFirst
        PROVE  << x, z >> \in innerFirst
    BY <1>6, <2>1, <2>4
  <2>5. QED BY <2>2, <2>3, <2>4 DEF IsOrder
<1>8. f \in [found -> S]
  <2>1. \A p \in found : path[p[1]] \in Elements /\ q[p[2]] \in HandleObjs
    BY <1>2, <1>3, <1>4
  <2>2. QED BY <2>1
<1>9. \A p \in found : f[p] = << path[p[1]], q[p[2]] >> /\ p[2] \in 1..Len(q) /\ p[2] <= c
  BY <1>2, <1>4
<1> HIDE DEF f, S
<1>10. /\ a \in Seq(S)
       /\ \A i \in DOMAIN a : \E p \in found : a[i] = f[p] /\ Ranks(found, innerFirst)[p] = i
  BY <1>5, <1>7, <1>8, InOrderIs
<1> HIDE DEF a
<1>11. IsInjective(a)
  <2>1. ASSUME NEW i \in DOMAIN a, NEW j \in DOMAIN a, a[i] = a[j]
        PROVE  i = j
    <3>1. PICK p \in found : a[i] = f[p] /\ Ranks(found, innerFirst)[p] = i
      BY <1>10
    <3>2. PICK r \in found : a[j] = f[r] /\ Ranks(found, innerFirst)[r] = j
      BY <1>10
    <3>3. path[p[1]] = path[r[1]] /\ q[p[2]] = q[r[2]]
      <4>1. f[p] = f[r] /\ f[p] = << path[p[1]], q[p[2]] >> /\ f[r] = << path[r[1]], q[r[2]] >>
        BY <1>9, <2>1, <3>1, <3>2
      <4>2. << path[p[1]], q[p[2]] >> = << path[r[1]], q[r[2]] >>
        BY <4>1, Zenon
      <4>3. QED BY <4>2
    <3>4. p[1] = r[1] /\ p[2] = r[2]
      BY <1>2, <1>3, <1>4, <1>9, <3>3
    <3>5. p = r
      BY <1>4, <3>4
    <3>6. QED BY <3>1, <3>2, <3>5
  <2>2. QED BY <2>1 DEF IsInjective
<1>12. /\ b \in Seq(S)
       /\ \A j \in DOMAIN b : b[j] = << e, q[c + j] >> /\ c + j \in 1..Len(q) /\ j \in Nat \ {0}
  <2> HIDE DEF q, c
  <2> DEFINE tail == SubSeq(q, c + 1, Len(q))
  <2>1. /\ tail \in Seq(HandleObjs) /\ Len(tail) = Len(q) - c
        /\ \A j \in 1..(Len(q) - c) : tail[j] = q[c + j]
    BY <1>2
  <2>2. own = tail
    BY DEF q, c
  <2> HIDE DEF tail, own
  <2>3. DOMAIN tail = 1..(Len(q) - c) /\ Len(q) - c \in Nat
    BY <1>2, <2>1
  <2>4. b = [j \in 1..(Len(q) - c) |-> << e, q[c + j] >>]
    BY <2>1, <2>2, <2>3
  <2>5. \A j \in 1..(Len(q) - c) : c + j \in 1..Len(q) /\ j \in Nat \ {0} /\ q[c + j] \in HandleObjs
    BY <1>2
  <2> HIDE DEF b
  <2>6. \A j \in 1..(Len(q) - c) : << e, q[c + j] >> \in S
    BY <2>5 DEF S
  <2>7. b \in Seq(S)
    BY <2>3, <2>4, <2>6
  <2>8. QED BY <2>4, <2>5, <2>7
<1> HIDE DEF b, q, c
<1>13. IsInjective(b)
  <2>1. ASSUME NEW i \in DOMAIN b, NEW j \in DOMAIN b, b[i] = b[j]
        PROVE  i = j
    <3>1. q[c + i] = q[c + j]
      BY <1>12, <2>1
    <3>2. c + i = c + j
      BY <1>2, <1>12, <3>1
    <3>3. QED BY <1>2, <1>12, <3>2
  <2>2. QED BY <2>1 DEF IsInjective
<1>14. ASSUME NEW i \in DOMAIN a, NEW j \in DOMAIN b, a[i] = b[j]
       PROVE  FALSE
  <2>1. PICK p \in found : a[i] = f[p]
    BY <1>10
  <2>2. q[p[2]] = q[c + j]
    <3>1. a[i] = << path[p[1]], q[p[2]] >> /\ b[j] = << e, q[c + j] >>
      BY <1>9, <1>12, <2>1
    <3>2. << path[p[1]], q[p[2]] >> = << e, q[c + j] >>
      BY <1>14, <3>1, Zenon
    <3>3. QED BY <3>2
  <2>3. p[2] = c + j
    BY <1>2, <1>9, <1>12, <2>2
  <2>4. QED BY <1>2, <1>4, <1>9, <1>12, <2>3
<1>15. /\ a \o b \in Seq(S) /\ IsInjective(a \o b)
       /\ \A k \in DOMAIN (a \o b) : (\E i \in DOMAIN a : (a \o b)[k] = a[i])
                                   \/ (\E j \in DOMAIN b : (a \o b)[k] = b[j])
  BY <1>10, <1>11, <1>12, <1>13, <1>14, JoinedIsInjective
<1>16. \A k \in DOMAIN (a \o b) : (a \o b)[k][2].handleObj \in 1..n /\ home[(a \o b)[k][2].handleObj] = e
  <2>1. \A i \in DOMAIN a : a[i][2].handleObj \in 1..n /\ home[a[i][2].handleObj] = e
    BY <1>2, <1>9, <1>10
  <2>2. \A j \in DOMAIN b : b[j][2].handleObj \in 1..n /\ home[b[j][2].handleObj] = e
    BY <1>2, <1>12
  <2>3. QED BY <1>15, <2>1, <2>2
<1>17. QED BY <1>1, <1>15, <1>16 DEF QueueFits, S

\* The inner event becomes another one.
Inner(ds, v) == Append(Front(ds), v)

\* r is ds but for its last element, which is v.
LastIs(ds, r, v) ==
  /\ Len(ds) \in Nat \ {0} /\ Last(ds) = ds[Len(ds)] /\ DOMAIN ds = 1..Len(ds)
  /\ r \in Seq(Range(r)) /\ DOMAIN r = 1..Len(ds) /\ r[Len(ds)] = v
  /\ \A k \in 1..(Len(ds) - 1) : r[k] = ds[k]

LEMMA LastChanged ==
  ASSUME NEW ds, ds \in Seq(Range(ds)), ds # << >>, NEW v
  PROVE  LastIs(ds, Inner(ds, v), v)
<1> DEFINE S == Range(ds)
<1>0. ds \in Seq(S) /\ Len(ds) # 0
  BY EmptySeq
<1> HIDE DEF S
<1>1. Len(ds) \in Nat \ {0} /\ Last(ds) = ds[Len(ds)] /\ DOMAIN ds = 1..Len(ds)
  BY <1>0 DEF Last
<1> DEFINE f == Front(ds)
<1>2. /\ f \in Seq(S) /\ Len(f) = Len(ds) - 1
      /\ \A k \in 1..(Len(ds) - 1) : f[k] = ds[k]
  <2>1. \A i \in 1..(Len(ds) - 1) : ds[i] \in S
    BY <1>0, <1>1
  <2>2. 1 \in Int /\ Len(ds) - 1 \in Int /\ f = SubSeq(ds, 1, Len(ds) - 1)
    BY <1>1 DEF Front
  <2> HIDE DEF f
  <2>3. /\ f \in Seq(S)
        /\ Len(f) = IF 1 <= Len(ds) - 1 THEN Len(ds) - 1 - 1 + 1 ELSE 0
        /\ \A i \in 1..(Len(ds) - 1 - 1 + 1) : f[i] = ds[1 + i - 1]
    BY <2>1, <2>2, SubSeqProperties
  <2> DEFINE m == Len(ds) - 1
  <2>4. m \in Nat /\ m - 1 + 1 = m /\ \A i \in 1..m : 1 + i - 1 = i
    BY <1>1
  <2>5. f \in Seq(S) /\ Len(f) = m /\ \A k \in 1..m : f[k] = ds[k]
    <3>1. /\ Len(f) = IF 1 <= m THEN m - 1 + 1 ELSE 0
          /\ \A i \in 1..(m - 1 + 1) : f[i] = ds[1 + i - 1]
      BY <2>3
    <3> HIDE DEF m
    <3>2. Len(f) = m
      BY <2>4, <3>1
    <3>3. QED BY <2>3, <2>4, <3>1, <3>2
  <2>6. QED BY <2>5
<1> HIDE DEF f
<1>3. f \in Seq(S \cup {v})
  BY <1>2
<1>4. /\ Append(f, v) \in Seq(S \cup {v}) /\ Len(Append(f, v)) = Len(f) + 1
      /\ Append(f, v)[Len(f) + 1] = v
      /\ \A k \in 1..Len(f) : Append(f, v)[k] = f[k]
  BY <1>3, AppendProperties
<1>5. /\ Len(Append(f, v)) = Len(ds) /\ Append(f, v)[Len(ds)] = v
      /\ \A k \in 1..(Len(ds) - 1) : Append(f, v)[k] = ds[k]
  BY <1>1, <1>2, <1>4
<1>7. Inner(ds, v) = Append(f, v)
  BY DEF Inner, f
<1> DEFINE r == Append(f, v)
<1> HIDE DEF r
<1>8. r \in Seq(Range(r))
  BY <1>4, OwnRange DEF r
<1>9. DOMAIN r = 1..Len(ds)
  BY <1>4, <1>5 DEF r
<1>10. QED BY <1>1, <1>5, <1>7, <1>8, <1>9 DEF LastIs, r

\* What becomes of the inner event is right if the event itself is, and what it called is its own.
LEMMA ChangeFits ==
  ASSUME NEW home, NEW n, NEW ds, NEW calls, NEW more, NEW v,
         DispatchesFit(ds, home, calls, n), ds # << >>,
         v.number = Last(ds).number,
         EventFits(v, home, n), NotYetCalled(v, home, more),
         \A u : u.number # v.number /\ NotYetCalled(u, home, calls) => NotYetCalled(u, home, more)
  PROVE  DispatchesFit(Append(Front(ds), v), home, more, n)
<1> DEFINE r == Inner(ds, v)
           c == Len(ds)
<1>1. ds \in Seq(Range(ds))
  BY DEF DispatchesFit
<1>2. /\ c \in Nat \ {0} /\ Last(ds) = ds[c] /\ c \in DOMAIN ds /\ DOMAIN ds = 1..c
      /\ r \in Seq(Range(r)) /\ DOMAIN r = 1..c /\ r[c] = v
      /\ \A k \in 1..(c - 1) : r[k] = ds[k]
  <2>1. LastIs(ds, Inner(ds, v), v)
    BY <1>1, LastChanged
  <2>2. QED BY <2>1 DEF LastIs
<1> HIDE DEF r, c
<1>3. DOMAIN r = 1..c
  BY <1>2
<1>4. r \in Seq(Range(r))
  BY <1>2
<1>5. \A k \in 1..c : k # c => /\ r[k] = ds[k] /\ k \in DOMAIN ds
  BY <1>2
<1>6. /\ \A k \in DOMAIN ds : EventFits(ds[k], home, n) /\ NotYetCalled(ds[k], home, calls)
      /\ \A k, m \in DOMAIN ds : ds[k].number = ds[m].number => k = m
  BY DEF DispatchesFit
<1>7. \A k \in 1..c : r[k].number = ds[k].number /\ k \in DOMAIN ds
  BY <1>2, <1>5
<1>8. ASSUME NEW k \in 1..c
      PROVE  EventFits(r[k], home, n) /\ NotYetCalled(r[k], home, more)
  <2>1. CASE k = c
    BY <1>2, <2>1
  <2>2. CASE k # c
    <3>1. r[k] = ds[k] /\ k \in DOMAIN ds
      BY <1>5, <2>2
    <3>2. ds[k].number # v.number
      BY <1>2, <1>6, <2>2, <3>1
    <3>3. EventFits(ds[k], home, n) /\ NotYetCalled(ds[k], home, calls)
      BY <1>6, <3>1
    <3>4. NotYetCalled(ds[k], home, more)
      BY <3>2, <3>3
    <3>5. QED BY <3>1, <3>3, <3>4
  <2>3. QED BY <2>1, <2>2
<1>9. \A k, m \in 1..c : r[k].number = r[m].number => k = m
  BY <1>6, <1>7
<1>10. QED BY <1>3, <1>4, <1>8, <1>9 DEF DispatchesFit, r, Inner

\* A default action is told from others as before.
LEMMA StillTold ==
  ASSUME NEW home, NEW n, NEW ds, NEW calls, DispatchesFit(ds, home, calls, n), ds # << >>,
         NEW type, DefaultTold(ds, type), NEW v, v.default => Last(ds).default
  PROVE  DefaultTold(Append(Front(ds), v), type)
<1> DEFINE r == Inner(ds, v)
           c == Len(ds)
<1>1. ds \in Seq(Range(ds))
  BY DEF DispatchesFit
<1>2. /\ c \in Nat \ {0} /\ Last(ds) = ds[c] /\ c \in DOMAIN ds /\ DOMAIN ds = 1..c
      /\ r \in Seq(Range(r)) /\ DOMAIN r = 1..c /\ r[c] = v
      /\ \A k \in 1..(c - 1) : r[k] = ds[k]
  <2>1. LastIs(ds, Inner(ds, v), v)
    BY <1>1, LastChanged
  <2>2. QED BY <2>1 DEF LastIs
<1> HIDE DEF r, c
<1>3. \A k \in DOMAIN r : r[k].default => ds[k].default /\ k \in DOMAIN ds
  <2>1. DOMAIN r = 1..c
    BY <1>2
  <2>2. TAKE k \in DOMAIN r
  <2>3. CASE k = c
    BY <1>2, <2>3
  <2>4. CASE k # c
    BY <1>2, <2>1, <2>4
  <2>5. QED BY <2>3, <2>4
<1>4. QED BY <1>3 DEF DefaultTold, r, Inner

\* Fields that say what may be called, and fields that do not.
SameTurn(v, u) ==
  /\ DOMAIN v = DOMAIN u
  /\ v.type = u.type /\ v.target = u.target /\ v.number = u.number /\ v.path = u.path
  /\ v.current = u.current /\ v.at = u.at /\ v.queue = u.queue /\ (v.default <=> u.default)

LEMMA SameTurnFits ==
  ASSUME NEW home, NEW n, NEW calls, NEW u, NEW v, EventFits(u, home, n),
         NotYetCalled(u, home, calls), SameTurn(v, u)
  PROVE  EventFits(v, home, n) /\ NotYetCalled(v, home, calls)
<1>1. EventFits(v, home, n)
  BY DEF EventFits, SameTurn, HandleWaits
<1>2. NotYetCalled(v, home, calls)
  BY DEF NotYetCalled, SameTurn, HandleWaits
<1>3. QED BY <1>1, <1>2

\* One more name, and perhaps one more handler with it.
LEMMA LaterFits ==
  ASSUME NEW n \in Nat, NEW home, NEW longer, \A i \in 0..n : longer[i] = home[i]
  PROVE  /\ \A v : EventFits(v, home, n) => EventFits(v, longer, n + 1)
         /\ \A hs : HandlersFit(hs, home, n) => HandlersFit(hs, longer, n + 1)
         /\ \A calls : CallsFit(calls, n) =>
              /\ CallsFit(calls, n + 1)
              /\ \A v : NotYetCalled(v, home, calls) => NotYetCalled(v, longer, calls)
         /\ \A ds, calls : DispatchesFit(ds, home, calls, n) /\ CallsFit(calls, n) =>
              DispatchesFit(ds, longer, calls, n + 1)
<1>1. ASSUME NEW v, EventFits(v, home, n)
      PROVE  EventFits(v, longer, n + 1)
  <2>1. QueueFits(v.queue, longer, v.current, n + 1)
    <3>1. QueueFits(v.queue, home, v.current, n)
      BY <1>1 DEF EventFits
    <3>2. \A i \in 1..n : longer[i] = home[i] /\ i \in 1..(n + 1)
      OBVIOUS
    <3>3. QED BY <3>1, <3>2 DEF QueueFits
  <2>2. v.number < n + 1
    BY <1>1 DEF EventFits
  <2>3. QED BY <1>1, <2>1, <2>2 DEF EventFits
<1>2. ASSUME NEW hs, HandlersFit(hs, home, n)
      PROVE  HandlersFit(hs, longer, n + 1)
  <2>1. \A i \in 1..n : longer[i] = home[i]
    OBVIOUS
  <2>2. \A e \in Elements, t \in EventTypes : ListFits(hs[e][t], longer, e, n + 1)
    BY <1>2, <2>1, ListAgain DEF HandlersFit
  <2>3. QED BY <1>2, <2>2 DEF HandlersFit
<1>3. ASSUME NEW calls, CallsFit(calls, n)
      PROVE  /\ CallsFit(calls, n + 1)
             /\ \A v : NotYetCalled(v, home, calls) => NotYetCalled(v, longer, calls)
  <2>1. \A i \in DOMAIN calls : /\ calls[i].handler.handleObj \in 0..n
                                /\ calls[i].event \in Nat /\ calls[i].event < n
    <3>1. TAKE i \in DOMAIN calls
    <3>2. calls[i] \in CallsOfHandlers
      BY <1>3 DEF CallsFit
    <3>3. calls[i].handler.handleObj \in Nat /\ calls[i].event \in Nat
      BY <3>2 DEF CallsOfHandlers, HandleObjs
    <3>4. QED BY <1>3, <3>3 DEF CallsFit
  <2>2. CallsFit(calls, n + 1)
    BY <1>3, <2>1 DEF CallsFit
  <2>3. \A i \in DOMAIN calls : longer[calls[i].handler.handleObj] = home[calls[i].handler.handleObj]
    BY <2>1
  <2>4. \A v : NotYetCalled(v, home, calls) => NotYetCalled(v, longer, calls)
    BY <2>3 DEF NotYetCalled
  <2>5. QED BY <2>2, <2>4
<1>4. ASSUME NEW ds, NEW calls, DispatchesFit(ds, home, calls, n), CallsFit(calls, n)
      PROVE  DispatchesFit(ds, longer, calls, n + 1)
  BY <1>1, <1>3, <1>4 DEF DispatchesFit
<1>5. QED BY <1>1, <1>2, <1>3, <1>4

\* The inner event goes on: what it may call is still right.
LEMMA EventPasses ==
  ASSUME NEW home, EventsFit(home), dispatches # << >>, NEW v, ChangeEvent(v),
         v.number = Event.number, v.default => Event.default,
         EventFits(v, home, bound), NotYetCalled(v, home, called),
         UNCHANGED << events, triggered, called, bound >>
  PROVE  EventsFit(home)'
<1>1. /\ DispatchesFit(dispatches, home, called, bound) /\ DefaultTold(dispatches, triggered)
      /\ dispatches' = Append(Front(dispatches), v) /\ Event = Last(dispatches)
  BY DEF EventsFit, ChangeEvent, Event
<1>2. DispatchesFit(dispatches', home, called, bound)
  BY <1>1, ChangeFits
<1>3. DefaultTold(dispatches', triggered)
  BY <1>1, StillTold
<1>4. QED BY <1>2, <1>3 DEF EventsFit

\* What is known of the inner event.
LEMMA EventIs ==
  ASSUME NEW home, EventsFit(home), dispatches # << >>
  PROVE  /\ EventFits(Event, home, bound) /\ NotYetCalled(Event, home, called)
         /\ Event.default => triggered = "click"
<1> DEFINE ds == dispatches
           c  == Len(ds)
<1>1. DispatchesFit(ds, home, called, bound) /\ ds \in Seq(Range(ds)) /\ DefaultTold(ds, triggered)
  BY DEF EventsFit, DispatchesFit
<1>2. LastIs(ds, Inner(ds, Event), Event)
  BY <1>1, LastChanged
<1>3. Event = ds[c] /\ c \in DOMAIN ds
  BY <1>2 DEF LastIs, Event
<1> HIDE DEF c, ds
<1>4. QED BY <1>1, <1>3 DEF DispatchesFit, DefaultTold

\* The end of a sequence without repetitions.
LEMMA TailIs ==
  ASSUME NEW S, NEW q \in Seq(S), q # << >>, IsInjective(q)
  PROVE  /\ Tail(q) \in Seq(S) /\ IsInjective(Tail(q)) /\ Head(q) \in S
         /\ Head(q) \notin Range(Tail(q)) /\ Head(q) \in Range(q)
         /\ Range(Tail(q)) \subseteq Range(q)
         /\ \A i \in DOMAIN Tail(q) : i + 1 \in DOMAIN q /\ Tail(q)[i] = q[i + 1]
<1> DEFINE t == Tail(q)
<1>1. /\ t \in Seq(S) /\ Len(q) \in Nat \ {0} /\ DOMAIN q = 1..Len(q)
      /\ DOMAIN t = 1..(Len(q) - 1) /\ \A i \in 1..(Len(q) - 1) : t[i] = q[i + 1]
      /\ Head(q) = q[1]
  BY EmptySeq
<1> HIDE DEF t
<1>2. \A i, j \in DOMAIN q : q[i] = q[j] => i = j
  BY DEF IsInjective
<1>3. \A i \in DOMAIN t : i + 1 \in DOMAIN q /\ i + 1 # 1 /\ t[i] = q[i + 1] /\ i \in Nat
  BY <1>1
<1>4. IsInjective(t)
  <2>1. ASSUME NEW i \in DOMAIN t, NEW j \in DOMAIN t, t[i] = t[j]
        PROVE  i = j
    <3>1. i + 1 = j + 1
      BY <1>2, <1>3, <2>1
    <3>2. QED BY <1>3, <3>1
  <2>2. QED BY <2>1 DEF IsInjective
<1>5. 1 \in DOMAIN q /\ q[1] \in S
  BY <1>1
<1>6. Head(q) \notin Range(t)
  <2>1. \A i \in DOMAIN t : t[i] # q[1]
    BY <1>2, <1>3, <1>5
  <2>2. QED BY <1>1, <2>1 DEF Range
<1>7. Head(q) \in Range(q) /\ Range(t) \subseteq Range(q)
  BY <1>1, <1>3, <1>5 DEF Range
<1>8. QED BY <1>1, <1>3, <1>4, <1>5, <1>6, <1>7 DEF t

\* All but the last.
LEMMA FrontIs ==
  ASSUME NEW S, NEW q \in Seq(S), q # << >>
  PROVE  /\ Front(q) \in Seq(Range(Front(q)))
         /\ DOMAIN Front(q) \subseteq DOMAIN q /\ \A k \in DOMAIN Front(q) : Front(q)[k] = q[k]
<1> DEFINE f == Front(q)
           m == Len(q) - 1
<1>1. m \in Nat /\ DOMAIN q = 1..(m + 1) /\ f = SubSeq(q, 1, m)
  BY EmptySeq DEF Front
<1> HIDE DEF m, f
<1>2. /\ f \in Seq(S) /\ Len(f) = m /\ \A k \in 1..m : f[k] = q[k]
  <2>1. \A k \in 1..m : q[k] \in S
    BY <1>1
  <2>2. /\ f \in Seq(S) /\ Len(f) = IF 1 <= m THEN m - 1 + 1 ELSE 0
        /\ \A i \in 1..(m - 1 + 1) : f[i] = q[1 + i - 1]
    BY <1>1, <2>1, SubSeqProperties
  <2>3. m - 1 + 1 = m /\ \A i \in 1..m : 1 + i - 1 = i
    BY <1>1
  <2>4. QED BY <1>1, <2>2, <2>3
<1>3. f \in Seq(Range(f))
  BY <1>2, OwnRange
<1>5. DOMAIN f = 1..m
  BY <1>2
<1>4. QED BY <1>1, <1>2, <1>3, <1>5 DEF f

LEMMA OnKeeps ==
  ASSUME NEW home \in [Nat -> Elements \cup {NoElement}], EventsFit(home), On
  PROVE  \E longer \in [Nat -> Elements \cup {NoElement}] : EventsFit(longer)'
<1>1. /\ bound \in Nat /\ HandlersFit(events, home, bound)
      /\ DispatchesFit(dispatches, home, called, bound) /\ CallsFit(called, bound)
      /\ DefaultTold(dispatches, triggered) /\ OnceEach(called)
  BY DEF EventsFit
<1>2. /\ bound' = bound + 1 /\ dispatches' = dispatches /\ triggered' = triggered
      /\ called' = called
  BY DEF On
<1>3. PICK b \in Bindings :
        AddHandler(b.elem, b.type, [handleObj |-> bound + 1, guid |-> b.guid, one |-> b.one,
                             selector |-> b.selector, namespace |-> b.namespace])
  BY DEF On
<1> DEFINE o == [handleObj |-> bound + 1, guid |-> b.guid, one |-> b.one,
                 selector |-> b.selector, namespace |-> b.namespace]
<1>4. o \in HandleObjs /\ o.handleObj = bound + 1
  BY <1>1 DEF HandleObjs
<1>5. b.elem \in Elements /\ b.type \in EventTypes
  BY EventsAssumption
<1>6. PICK longer \in [Nat -> Elements \cup {NoElement}] :
        longer[bound + 1] = b.elem /\ \A i \in 0..bound : longer[i] = home[i]
  <2>1. bound + 1 \in Nat /\ \A i \in 0..bound : i \in Nat /\ i # bound + 1
    BY <1>1
  <2> DEFINE x == [home EXCEPT ![bound + 1] = b.elem]
  <2>2. /\ x \in [Nat -> Elements \cup {NoElement}] /\ x[bound + 1] = b.elem
        /\ \A i \in 0..bound : x[i] = home[i]
    BY <1>5, <2>1
  <2> HIDE DEF x
  <2>3. QED BY <2>2
<1>7. AddHandler(b.elem, b.type, o)
  BY <1>3
<1> HIDE DEF o
<1>8. HandlersFit(events', longer, bound + 1)
  <2>1. \A i \in 1..bound : longer[i] = home[i]
    BY <1>6
  <2>2. QED BY <1>1, <1>4, <1>5, <1>6, <1>7, <2>1, AddFits
<1>9. DispatchesFit(dispatches, longer, called, bound + 1) /\ CallsFit(called, bound + 1)
  BY <1>1, <1>6, LaterFits
<1>10. EventsFit(longer)'
  BY <1>1, <1>2, <1>8, <1>9 DEF EventsFit
<1>11. QED BY <1>10

LEMMA OffKeeps ==
  ASSUME NEW home, EventsFit(home), Off
  PROVE  EventsFit(home)'
<1>1. /\ bound \in Nat /\ HandlersFit(events, home, bound)
      /\ DispatchesFit(dispatches, home, called, bound) /\ CallsFit(called, bound)
      /\ DefaultTold(dispatches, triggered) /\ OnceEach(called)
  BY DEF EventsFit
<1>2. /\ bound' = bound + 1 /\ dispatches' = dispatches /\ triggered' = triggered
      /\ called' = called
  BY DEF Off
<1>3. PICK r \in Removals : RemoveHandlers(r.elem, r.types, r.guid, r.selector, r.namespace)
  BY DEF Off
<1>4. HandlersFit(events', home, bound)
  BY <1>1, <1>3, RemoveFits
<1>5. /\ HandlersFit(events', home, bound + 1)
      /\ DispatchesFit(dispatches, home, called, bound + 1) /\ CallsFit(called, bound + 1)
  BY <1>1, <1>4, LaterFits
<1>6. QED BY <1>1, <1>2, <1>5 DEF EventsFit

LEMMA OneIsSequence ==
  ASSUME NEW S, NEW e \in S
  PROVE  << e >> \in Seq(S)
OBVIOUS

LEMMA TwoAreJoined == \A x, y : << x >> \o << y >> = << x, y >>
<1>1. TAKE x, y
<1> DEFINE S == {x, y}
<1>2. x \in S /\ y \in S
  OBVIOUS
<1> HIDE DEF S
<1>3. << x >> \in Seq(S)
  BY <1>2, OneIsSequence
<1>4. Append(<< x >>, y) = << x >> \o << y >>
  BY <1>2, <1>3, AppendIsConcat
<1>5. Append(<< x >>, y) = << x, y >>
  <2>1. /\ Append(<< x >>, y) \in Seq(S) /\ Len(Append(<< x >>, y)) = Len(<< x >>) + 1
        /\ \A i \in 1..Len(<< x >>) : Append(<< x >>, y)[i] = << x >>[i]
        /\ Append(<< x >>, y)[Len(<< x >>) + 1] = y
    BY <1>2, <1>3, AppendProperties
  <2>2. Len(<< x >>) = 1 /\ << x >>[1] = x
    OBVIOUS
  <2>3. << x, y >> \in Seq(S) /\ Len(<< x, y >>) = 2 /\ << x, y >>[1] = x /\ << x, y >>[2] = y
    BY <1>2
  <2> DEFINE r == Append(<< x >>, y)
             p == << x, y >>
  <2>4. r \in Seq(S) /\ Len(r) = 2 /\ r[1] = x /\ r[2] = y
    BY <2>1, <2>2
  <2>5. p \in Seq(S) /\ Len(p) = 2 /\ p[1] = x /\ p[2] = y
    BY <2>3
  <2> HIDE DEF r, p
  <2>6. \A i \in 1..Len(r) : r[i] = p[i]
    BY <2>4, <2>5
  <2>7. r = p
    BY <2>4, <2>5, <2>6, SeqEqual
  <2>8. QED BY <2>7 DEF r, p
<1>6. QED BY <1>4, <1>5

\* Short sequences do not repeat.
LEMMA ShortIsInjective == IsInjective(<< >>) /\ \A e : IsInjective(<< e >>)
<1>1. \A i, j \in DOMAIN << >> : << >>[i] = << >>[j] => i = j
  OBVIOUS
<1>2. ASSUME NEW e
      PROVE  IsInjective(<< e >>)
  <2>1. \A i, j \in 1..1 : i = j
    OBVIOUS
  <2>2. DOMAIN << e >> = 1..1
    OBVIOUS
  <2>3. QED BY <2>1, <2>2, Zenon DEF IsInjective
<1>3. IsInjective(<< >>)
  BY <1>1, Zenon DEF IsInjective
<1>4. QED BY <1>2, <1>3

\* An event begins.
Begun(v, n) ==
  /\ DOMAIN v = EventFields /\ v.type \in EventTypes /\ v.target \in Elements
  /\ v.path \in Seq(Elements) /\ IsInjective(v.path)
  /\ v.number = n /\ v.at = << >> /\ v.queue = << >> /\ v.current = NoElement

LEMMA StartIsBegun ==
  ASSUME NEW native, NEW type \in EventTypes, NEW target \in Elements,
         NEW path \in Seq(Elements), IsInjective(path), NEW namespace
  PROVE  LET v == StartEvent(native, type, target, path, namespace)
         IN  Begun(v, bound) /\ ~v.default
BY DEF StartEvent, EventFields, Begun

LEMMA EmptyFits == \A home, e, n : QueueFits(<< >>, home, e, n)
<1>1. IsInjective(<< >>)
  BY ShortIsInjective
<1>2. << >> \in Seq(Elements \X HandleObjs) /\ DOMAIN << >> = {}
  OBVIOUS
<1>3. QED BY <1>1, <1>2 DEF QueueFits

LEMMA BegunFits ==
  ASSUME NEW n \in Nat, NEW home, NEW v, NEW m \in Nat, m < n, Begun(v, m),
         v.default => v.type = "click"
  PROVE  EventFits(v, home, n)
<1>2. NoElement \notin Range(v.path)
  BY EventsAssumption DEF Range, Begun
<1>3. QueueFits(<< >>, home, v.current, n)
  BY EmptyFits
<1>4. << >> \in Turns
  BY DEF Turns
<1>5. QED BY <1>2, <1>3, <1>4 DEF EventFits, Begun

LEMMA EventBegins ==
  ASSUME NEW home, EventsFit(home), NEW v, dispatches' = Append(dispatches, v),
         bound' = bound + 1, UNCHANGED << events, triggered, called >>,
         Begun(v, bound), ~v.default
  PROVE  EventsFit(home)'
<1>0. v.number = bound
  BY DEF Begun
<1>1. /\ bound \in Nat /\ HandlersFit(events, home, bound)
      /\ DispatchesFit(dispatches, home, called, bound) /\ CallsFit(called, bound)
      /\ DefaultTold(dispatches, triggered) /\ OnceEach(called)
  BY DEF EventsFit
<1>2. /\ HandlersFit(events, home, bound + 1)
      /\ DispatchesFit(dispatches, home, called, bound + 1) /\ CallsFit(called, bound + 1)
  BY <1>1, LaterFits
<1>11. EventFits(v, home, bound + 1)
  BY <1>1, BegunFits
<1>12. NotYetCalled(v, home, called)
  BY <1>0, <1>1 DEF CallsFit, NotYetCalled
<1> DEFINE ds == dispatches
           r  == Append(ds, v)
           c  == Len(ds)
<1>3. /\ r \in Seq(Range(r)) /\ DOMAIN r = 1..(c + 1) /\ DOMAIN ds = 1..c /\ c \in Nat
      /\ r[c + 1] = v /\ \A k \in 1..c : r[k] = ds[k]
  <2> DEFINE S == Range(ds)
  <2>1. ds \in Seq(S)
    BY <1>1 DEF DispatchesFit
  <2> HIDE DEF S
  <2>2. ds \in Seq(S \cup {v}) /\ c \in Nat /\ DOMAIN ds = 1..c
    BY <2>1
  <2> HIDE DEF ds
  <2>3. /\ r \in Seq(S \cup {v}) /\ Len(r) = c + 1 /\ r[c + 1] = v
        /\ \A k \in 1..c : r[k] = ds[k]
    BY <2>2, AppendProperties
  <2> HIDE DEF r, c
  <2>4. DOMAIN r = 1..(c + 1) /\ r \in Seq(Range(r))
    BY <2>2, <2>3, OwnRange
  <2>5. QED BY <2>2, <2>3, <2>4
<1>4. dispatches' = r
  OBVIOUS
<1>5. \A k \in 1..c : ds[k].number \in Nat /\ ds[k].number < bound
  BY <1>1, <1>3 DEF DispatchesFit, EventFits
<1>6. /\ \A k \in 1..c : EventFits(ds[k], home, bound + 1) /\ NotYetCalled(ds[k], home, called)
      /\ \A k, m \in 1..c : ds[k].number = ds[m].number => k = m
      /\ \A k \in 1..c : ds[k].default => triggered = "click"
  BY <1>1, <1>2, <1>3 DEF DispatchesFit, DefaultTold
<1> HIDE DEF r, c, ds
<1>7. \A k \in DOMAIN r : \/ k \in 1..c /\ r[k] = ds[k]
                          \/ k = c + 1 /\ r[k] = v
  BY <1>3
<1>8. DispatchesFit(r, home, called, bound + 1)
  <2>1. \A k \in DOMAIN r : EventFits(r[k], home, bound + 1) /\ NotYetCalled(r[k], home, called)
    BY <1>6, <1>7, <1>11, <1>12
  <2>2. \A k, m \in DOMAIN r : r[k].number = r[m].number => k = m
    BY <1>0, <1>1, <1>3, <1>5, <1>6, <1>7
  <2>3. QED BY <1>3, <2>1, <2>2 DEF DispatchesFit
<1>9. DefaultTold(r, triggered)
  BY <1>6, <1>7 DEF DefaultTold
<1>10. QED BY <1>1, <1>2, <1>4, <1>8, <1>9 DEF EventsFit

LEMMA TriggerKeeps ==
  ASSUME NEW home, EventsFit(home), Trigger
  PROVE  EventsFit(home)'
<1>1. PICK e \in Elements, type \in EventTypes, namespace \in {"", "name"}, only \in BOOLEAN :
        dispatches' = Append(dispatches,
          [StartEvent(FALSE, type, e, IF only THEN << e >> ELSE Path[e], namespace)
             EXCEPT !.only = only])
  BY DEF Trigger
<1> DEFINE path == IF only THEN << e >> ELSE Path[e]
           start == StartEvent(FALSE, type, e, path, namespace)
           v    == [start EXCEPT !.only = only]
<1>2. path \in Seq(Elements) /\ IsInjective(path)
  <2>1. << e >> \in Seq(Elements)
    BY OneIsSequence
  <2>2. IsInjective(<< e >>)
    BY ShortIsInjective, Zenon
  <2>3. QED BY <2>1, <2>2, TreeAssumption
<1>3. dispatches' = Append(dispatches, v)
  BY <1>1
<1> HIDE DEF path
<1>4. Begun(start, bound) /\ ~start.default
  BY <1>2, StartIsBegun
<1> HIDE DEF start
<1>5. Begun(v, bound) /\ ~v.default
  BY <1>4 DEF Begun, EventFields
<1>6. bound' = bound + 1 /\ UNCHANGED << events, triggered, called >>
  BY DEF Trigger
<1> HIDE DEF v
<1>7. QED BY <1>3, <1>5, <1>6, EventBegins

LEMMA UserActsKeeps ==
  ASSUME NEW home, EventsFit(home), UserActs
  PROVE  EventsFit(home)'
<1>2. PICK e \in Elements : \/ dispatches' = << StartEvent(TRUE, "click", e, Path[e], "") >>
                            \/ dispatches' = << StartEvent(FALSE, "focusin", e, Path[e], "") >>
  BY DEF UserActs
<1>3. dispatches = << >> /\ bound' = bound + 1 /\ UNCHANGED << events, triggered, called >>
  BY DEF UserActs
<1>4. ASSUME NEW native \in BOOLEAN, NEW type \in EventTypes,
             dispatches' = << StartEvent(native, type, e, Path[e], "") >>
      PROVE  EventsFit(home)'
  <2> DEFINE v == StartEvent(native, type, e, Path[e], "")
  <2>1. Path[e] \in Seq(Elements) /\ IsInjective(Path[e])
    BY TreeAssumption
  <2>2. Begun(v, bound) /\ ~v.default
    BY <2>1, StartIsBegun
  <2>3. dispatches' = << v >>
    BY <1>4
  <2> HIDE DEF v
  <2>4. dispatches' = Append(dispatches, v)
    BY <1>3, <2>3
  <2>5. QED BY <1>3, <2>2, <2>4, EventBegins
<1>5. QED BY <1>2, <1>4 DEF EventTypes

\* The event comes to an element.
LEMMA PropagateKeeps ==
  ASSUME NEW home, EventsFit(home), Propagate
  PROVE  EventsFit(home)'
<1> DEFINE u == Event
           e == Head(u.path)
           attribute == IF e \notin Attributed \/ u.type # "click"
                           \/ (u.default /\ e = u.target)
                        THEN << >> ELSE << "attribute" >>
           turns == IF u.native THEN attribute \o << "handle" >> ELSE << "handle" >> \o attribute
           v == [u EXCEPT !.path = Tail(u.path), !.current = e, !.group = NoElement, !.at = turns]
<1>1. /\ dispatches # << >> /\ u.at = << >> /\ u.queue = << >> /\ u.path # << >>
      /\ ChangeEvent(v) /\ UNCHANGED << events, triggered, called, bound >>
  BY DEF Propagate, Between
<1>2. EventFits(u, home, bound) /\ NotYetCalled(u, home, called)
  BY <1>1, EventIs
<1>3. turns \in Turns
  <2>1. attribute = << >> \/ attribute = << "attribute" >>
    OBVIOUS
  <2> HIDE DEF attribute
  <2>2. CASE attribute = << >>
    BY <2>2 DEF Turns
  <2>3. CASE attribute = << "attribute" >>
    <3>1. /\ << "attribute" >> \o << "handle" >> = << "attribute", "handle" >>
          /\ << "handle" >> \o << "attribute" >> = << "handle", "attribute" >>
      BY TwoAreJoined
    <3>2. QED BY <2>3, <3>1, Zenon DEF Turns
  <2>4. QED BY <2>1, <2>2, <2>3
<1> HIDE DEF turns, attribute
<1>4. /\ DOMAIN v = EventFields /\ v.type = u.type /\ v.target = u.target /\ v.number = u.number
      /\ v.path = Tail(u.path) /\ v.current = e /\ v.at = turns /\ v.queue = << >>
      /\ v.default = u.default
  BY <1>1, <1>2 DEF EventFits, EventFields
<1>5. /\ u.path \in Seq(Elements) /\ IsInjective(u.path) /\ u.type \in EventTypes
      /\ u.target \in Elements /\ u.number \in Nat /\ u.number < bound
      /\ u.default => u.type = "click"
  BY <1>2 DEF EventFits
<1> HIDE DEF u, v
<1>6. /\ Tail(u.path) \in Seq(Elements) /\ IsInjective(Tail(u.path)) /\ e \in Elements
      /\ e \notin Range(Tail(u.path)) /\ e \in Range(u.path)
      /\ Range(Tail(u.path)) \subseteq Range(u.path)
  BY <1>1, <1>5, TailIs
<1> HIDE DEF e
<1>7. QueueFits(<< >>, home, e, bound)
  BY EmptyFits
<1>8. EventFits(v, home, bound)
  BY <1>3, <1>4, <1>5, <1>6, <1>7 DEF EventFits
<1>9. NotYetCalled(v, home, called)
  <2>1. SUFFICES ASSUME ~v.default, NEW i \in DOMAIN called, called[i].event = v.number
                 PROVE  /\ home[called[i].handler.handleObj] \notin Range(v.path)
                        /\ home[called[i].handler.handleObj] # v.current
                        /\ << called[i].elem, called[i].handler >> \notin Range(v.queue)
    BY DEF NotYetCalled
  <2>2. home[called[i].handler.handleObj] \notin Range(u.path)
    BY <1>2, <1>4, <2>1 DEF NotYetCalled
  <2>3. Range(<< >>) = {}
    BY DEF Range
  <2>4. QED BY <1>4, <1>6, <2>2, <2>3
<1>10. v.number = Event.number /\ (v.default => Event.default) /\ ChangeEvent(v)
  BY <1>1, <1>4 DEF u
<1>11. QED BY <1>1, <1>8, <1>9, <1>10, EventPasses

LEMMA CallAttributeKeeps ==
  ASSUME NEW home, EventsFit(home), CallAttribute
  PROVE  EventsFit(home)'
<1> DEFINE u == Event
           v == [u EXCEPT !.at = Tail(u.at), !.running = [handleObj |-> -1]]
<1>1. /\ dispatches # << >> /\ u.queue = << >> /\ u.at # << >> /\ Head(u.at) = "attribute"
      /\ ChangeEvent(v) /\ UNCHANGED << events, triggered, called, bound >>
  BY DEF CallAttribute, Between
<1>2. EventFits(u, home, bound) /\ NotYetCalled(u, home, called)
  BY <1>1, EventIs
<1>3. /\ DOMAIN v = EventFields /\ v.type = u.type /\ v.target = u.target /\ v.number = u.number
      /\ v.path = u.path /\ v.current = u.current /\ v.at = Tail(u.at) /\ v.queue = u.queue
      /\ v.default = u.default
  BY <1>2 DEF EventFits, EventFields
<1> HIDE DEF u, v
<1>4. Tail(u.at) \in Turns /\ (HandleWaits(v) => HandleWaits(u))
  <2>1. u.at \in Turns /\ Head(u.at) = "attribute" /\ u.at # << >>
    BY <1>1, <1>2 DEF EventFits
  <2>2. u.at = << "attribute" >> \/ u.at = << "attribute", "handle" >>
    BY <2>1 DEF Turns
  <2>3. CASE u.at = << "attribute" >>
    BY <1>3, <2>3 DEF Turns, HandleWaits
  <2>4. CASE u.at = << "attribute", "handle" >>
    <3>1. Tail(u.at) = << "handle" >> /\ u.at[2] = "handle" /\ 2 \in DOMAIN u.at
      BY <2>4
    <3>2. QED BY <3>1 DEF Turns, HandleWaits
  <2>5. QED BY <2>2, <2>3, <2>4
<1>5. EventFits(v, home, bound)
  BY <1>1, <1>2, <1>3, <1>4 DEF EventFits
<1>6. NotYetCalled(v, home, called)
  BY <1>2, <1>3, <1>4 DEF NotYetCalled
<1>7. v.number = Event.number /\ (v.default => Event.default) /\ ChangeEvent(v)
  BY <1>1, <1>3 DEF u
<1>8. QED BY <1>1, <1>5, <1>6, <1>7, EventPasses

\* dispatch finds the handlers of an element that were not called for the event.
LEMMA DispatchKeeps ==
  ASSUME NEW home, EventsFit(home), Dispatch
  PROVE  EventsFit(home)'
<1> DEFINE u == Event
           queue == IF triggered = u.type THEN << >> ELSE HandlerQueue(u, u.current)
           v == [u EXCEPT !.at = Tail(u.at), !.queue = queue]
<1>1. /\ dispatches # << >> /\ u.queue = << >> /\ u.at # << >> /\ Head(u.at) = "handle"
      /\ ChangeEvent(v) /\ UNCHANGED << events, triggered, called, bound >>
  BY DEF Dispatch, Between
<1>2. /\ EventFits(u, home, bound) /\ NotYetCalled(u, home, called)
      /\ u.default => triggered = "click"
  BY <1>1, EventIs
<1>3. QueueFits(queue, home, u.current, bound)
  <2>1. /\ bound \in Nat /\ HandlersFit(events, home, bound) /\ u.current \in Elements
        /\ u.type \in EventTypes /\ u.target \in Elements
    BY <1>1, <1>2 DEF EventFits, EventsFit
  <2> HIDE DEF u
  <2>2. QueueFits(HandlerQueue(u, u.current), home, u.current, bound)
    BY <2>1, QueueIs
  <2>3. QED BY <2>2, EmptyFits
<1>4. u.default => queue = << >>
  BY <1>2 DEF EventFits
<1> HIDE DEF queue
<1>5. /\ DOMAIN v = EventFields /\ v.type = u.type /\ v.target = u.target /\ v.number = u.number
      /\ v.path = u.path /\ v.current = u.current /\ v.at = Tail(u.at) /\ v.queue = queue
      /\ v.default = u.default
  BY <1>2 DEF EventFits, EventFields
<1> HIDE DEF u, v
<1>6. Tail(u.at) \in Turns /\ ~HandleWaits(v) /\ HandleWaits(u)
  <2>1. u.at \in Turns /\ Head(u.at) = "handle" /\ u.at # << >>
    BY <1>1, <1>2 DEF EventFits
  <2>2. u.at = << "handle" >> \/ u.at = << "handle", "attribute" >>
    BY <2>1 DEF Turns
  <2>3. 1 \in DOMAIN u.at /\ u.at[1] = "handle"
    <3>1. CASE u.at = << "handle" >>
      BY <3>1
    <3>2. CASE u.at = << "handle", "attribute" >>
      BY <3>2
    <3>3. QED BY <2>2, <3>1, <3>2
  <2>4. Tail(u.at) = << >> \/ Tail(u.at) = << "attribute" >>
    <3>1. Tail(<< "handle" >>) = << >> /\ Tail(<< "handle", "attribute" >>) = << "attribute" >>
      OBVIOUS
    <3>2. QED BY <2>2, <3>1, Zenon
  <2>5. \A i \in DOMAIN Tail(u.at) : Tail(u.at)[i] # "handle"
    <3>1. CASE Tail(u.at) = << >>
      BY <3>1
    <3>2. CASE Tail(u.at) = << "attribute" >>
      <4>1. \A i \in DOMAIN << "attribute" >> : << "attribute" >>[i] # "handle"
        OBVIOUS
      <4>2. QED BY <3>2, <4>1, Zenon
    <3>3. QED BY <2>4, <3>1, <3>2
  <2>6. QED BY <1>5, <2>3, <2>4, <2>5 DEF Turns, HandleWaits
<1>7. EventFits(v, home, bound)
  BY <1>2, <1>3, <1>4, <1>5, <1>6 DEF EventFits
<1>8. NotYetCalled(v, home, called)
  <2>1. SUFFICES ASSUME ~v.default, NEW i \in DOMAIN called, called[i].event = v.number
                 PROVE  /\ home[called[i].handler.handleObj] \notin Range(v.path)
                        /\ << called[i].elem, called[i].handler >> \notin Range(v.queue)
    BY <1>6 DEF NotYetCalled
  <2>2. /\ home[called[i].handler.handleObj] \notin Range(u.path)
        /\ home[called[i].handler.handleObj] # u.current
    BY <1>2, <1>5, <1>6, <2>1 DEF NotYetCalled
  <2>3. ASSUME NEW k \in DOMAIN queue, queue[k] = << called[i].elem, called[i].handler >>
        PROVE  FALSE
    <3>1. home[queue[k][2].handleObj] = u.current
      BY <1>3 DEF QueueFits
    <3>2. queue[k][2] = called[i].handler
      BY <2>3
    <3>3. QED BY <2>2, <3>1, <3>2
  <2>4. << called[i].elem, called[i].handler >> \notin Range(queue)
    BY <2>3 DEF Range
  <2>5. QED BY <1>5, <2>2, <2>4
<1>9. v.number = Event.number /\ (v.default => Event.default) /\ ChangeEvent(v)
  BY <1>1, <1>5 DEF u
<1>10. QED BY <1>1, <1>7, <1>8, <1>9, EventPasses

LEMMA DropKeeps ==
  ASSUME NEW home, EventsFit(home), Drop
  PROVE  EventsFit(home)'
<1> DEFINE u == Event
           v == [u EXCEPT !.queue = << >>]
<1>1. /\ dispatches # << >> /\ ChangeEvent(v) /\ UNCHANGED << events, triggered, called, bound >>
  BY DEF Drop, Between
<1>2. EventFits(u, home, bound) /\ NotYetCalled(u, home, called)
  BY <1>1, EventIs
<1>3. /\ DOMAIN v = EventFields /\ v.type = u.type /\ v.target = u.target /\ v.number = u.number
      /\ v.path = u.path /\ v.current = u.current /\ v.at = u.at /\ v.queue = << >>
      /\ v.default = u.default
  BY <1>2 DEF EventFits, EventFields
<1> HIDE DEF u, v
<1>4. QueueFits(<< >>, home, u.current, bound) /\ Range(<< >>) = {}
  BY EmptyFits DEF Range
<1>5. EventFits(v, home, bound)
  BY <1>2, <1>3, <1>4 DEF EventFits
<1>6. NotYetCalled(v, home, called)
  BY <1>2, <1>3, <1>4 DEF NotYetCalled, HandleWaits
<1>7. v.number = Event.number /\ (v.default => Event.default) /\ ChangeEvent(v)
  BY <1>1, <1>3 DEF u
<1>8. QED BY <1>1, <1>5, <1>6, <1>7, EventPasses

\* Code of a handler stops the event, or the handler returns.
LEMMA RunningKeeps ==
  ASSUME NEW home, EventsFit(home), StopEvent \/ HandlerReturns
  PROVE  EventsFit(home)'
<1>1. dispatches # << >> /\ UNCHANGED << events, triggered, called, bound >>
  BY DEF StopEvent, HandlerReturns
<1>2. EventFits(Event, home, bound) /\ NotYetCalled(Event, home, called)
  BY <1>1, EventIs
<1>3. DOMAIN Event = EventFields
  BY <1>2 DEF EventFits
<1>4. ASSUME NEW v, ChangeEvent(v), SameTurn(v, Event)
      PROVE  EventsFit(home)'
  <2>1. EventFits(v, home, bound) /\ NotYetCalled(v, home, called)
    BY <1>2, <1>4, SameTurnFits
  <2>2. v.number = Event.number /\ (v.default => Event.default)
    BY <1>4 DEF SameTurn
  <2>3. QED BY <1>1, <1>4, <2>1, <2>2, EventPasses
<1>5. \A x : /\ SameTurn([Event EXCEPT !.stopped = x], Event)
             /\ SameTurn([Event EXCEPT !.prevented = x], Event)
             /\ \A y : SameTurn([Event EXCEPT !.stopped = x, !.immediate = y], Event)
             /\ \A y, z : SameTurn([Event EXCEPT !.running = x, !.prevented = y, !.stopped = z], Event)
  BY <1>3 DEF SameTurn, EventFields
<1>6. CASE StopEvent
  <2>1. \/ ChangeEvent([Event EXCEPT !.stopped = TRUE])
        \/ ChangeEvent([Event EXCEPT !.stopped = TRUE, !.immediate = TRUE])
        \/ ChangeEvent([Event EXCEPT !.prevented = TRUE])
    BY <1>6 DEF StopEvent
  <2>2. QED BY <1>4, <1>5, <2>1
<1>7. CASE HandlerReturns
  <2>1. PICK result \in BOOLEAN :
          ChangeEvent([Event EXCEPT !.running = None, !.prevented = Event.prevented \/ ~result,
            !.stopped = Event.stopped \/ (~result /\ Event.running # [handleObj |-> -1])])
    BY <1>7 DEF HandlerReturns
  <2>2. QED BY <1>4, <1>5, <2>1
<1>8. QED BY <1>6, <1>7

\* A call of a handler that waited for it.
LEMMA CallNextKeeps ==
  ASSUME NEW home, EventsFit(home), CallNext
  PROVE  EventsFit(home)'
<1> DEFINE u == Event
           q == u.queue
           e == Head(q)[1]
           o == Head(q)[2]
           named == u.namespace \in {"", o.namespace}
           v == [u EXCEPT !.queue = Tail(q), !.group = e, !.running = IF named THEN o ELSE None]
           x == [event |-> u.number, elem |-> e, handler |-> o]
<1>1. /\ dispatches # << >> /\ q # << >> /\ ChangeEvent(v)
      /\ called' = IF ~named THEN called ELSE Append(called, x)
      /\ triggered' = triggered /\ bound' = bound
  BY DEF CallNext, Between
<1>2. /\ bound \in Nat /\ HandlersFit(events, home, bound)
      /\ DispatchesFit(dispatches, home, called, bound) /\ CallsFit(called, bound)
      /\ DefaultTold(dispatches, triggered) /\ OnceEach(called)
  BY DEF EventsFit
<1>3. EventFits(u, home, bound) /\ NotYetCalled(u, home, called)
  BY <1>1, EventIs
<1>4. HandlersFit(events', home, bound)
  <2>1. \/ RemoveHandlers(u.current, {u.type}, o.guid, o.selector, o.namespace)
        \/ events' = events
    BY DEF CallNext
  <2> HIDE DEF u, o
  <2>2. CASE RemoveHandlers(u.current, {u.type}, o.guid, o.selector, o.namespace)
    BY <1>2, <2>2, RemoveFits
  <2>3. QED BY <1>2, <2>1, <2>2
<1>5. /\ DOMAIN v = EventFields /\ v.type = u.type /\ v.target = u.target /\ v.number = u.number
      /\ v.path = u.path /\ v.current = u.current /\ v.at = u.at /\ v.queue = Tail(q)
      /\ v.default = u.default
  BY <1>3 DEF EventFits, EventFields
<1>6. x.event = u.number /\ x.elem = e /\ x.handler = o
  OBVIOUS
<1>7. ~u.default /\ ~HandleWaits(u) /\ u.current \notin Range(u.path)
  BY <1>1, <1>3 DEF EventFits
<1>8. /\ q \in Seq(Elements \X HandleObjs) /\ IsInjective(q)
      /\ \A i \in DOMAIN q : q[i][2].handleObj \in 1..bound /\ home[q[i][2].handleObj] = u.current
  BY <1>3 DEF EventFits, QueueFits
<1>9. u.number \in Nat /\ u.number < bound
  BY <1>3 DEF EventFits
<1>10. Event = u
  OBVIOUS
<1> HIDE DEF u, v, named, q
<1>11. /\ Tail(q) \in Seq(Elements \X HandleObjs) /\ IsInjective(Tail(q))
       /\ Head(q) \in Elements \X HandleObjs /\ Head(q) \notin Range(Tail(q))
       /\ Head(q) \in Range(q) /\ Range(Tail(q)) \subseteq Range(q)
       /\ \A i \in DOMAIN Tail(q) : i + 1 \in DOMAIN q /\ Tail(q)[i] = q[i + 1]
  BY <1>1, <1>8, TailIs
<1>12. Head(q) = << e, o >> /\ e \in Elements /\ o \in HandleObjs
  BY <1>11
<1>13. o.handleObj \in 1..bound /\ home[o.handleObj] = u.current
  <2>1. PICK i \in DOMAIN q : Head(q) = q[i]
    BY <1>11 DEF Range
  <2>2. QED BY <1>8, <2>1
<1> HIDE DEF e, o
<1>14. x \in CallsOfHandlers
  BY <1>9, <1>12 DEF CallsOfHandlers
<1> HIDE DEF x
<1>15. EventFits(v, home, bound)
  <2>1. QueueFits(Tail(q), home, v.current, bound)
    BY <1>5, <1>8, <1>11 DEF QueueFits
  <2>2. ~HandleWaits(v)
    BY <1>5, <1>7 DEF HandleWaits
  <2>3. QED BY <1>3, <1>5, <1>7, <2>1, <2>2 DEF EventFits
\* What was called before was not in the queue.
<1>16. \A i \in DOMAIN called : called[i].event = u.number =>
         /\ home[called[i].handler.handleObj] \notin Range(u.path)
         /\ << called[i].elem, called[i].handler >> \notin Range(q)
  BY <1>3, <1>7 DEF NotYetCalled, q
<1>17. NotYetCalled(v, home, called)
  <2>1. ~HandleWaits(v)
    BY <1>5, <1>7 DEF HandleWaits
  <2>2. QED BY <1>5, <1>11, <1>16, <2>1 DEF NotYetCalled
<1>18. CASE called' = called
  <2>1. v.number = Event.number /\ (v.default => Event.default)
    BY <1>5, <1>10
  <2>2. DispatchesFit(dispatches', home, called, bound)
    BY <1>1, <1>2, <1>15, <1>17, <2>1, ChangeFits DEF ChangeEvent, Event
  <2>3. DefaultTold(dispatches', triggered)
    BY <1>1, <1>2, <2>1, StillTold DEF ChangeEvent, Event
  <2>4. QED BY <1>1, <1>2, <1>4, <1>18, <2>2, <2>3 DEF EventsFit
<1>19. CASE called' = Append(called, x)
  <2> DEFINE more == Append(called, x)
             m == Len(called)
  <2>1. /\ more \in Seq(CallsOfHandlers) /\ DOMAIN more = 1..(m + 1) /\ DOMAIN called = 1..m
        /\ m \in Nat /\ more[m + 1] = x /\ \A i \in 1..m : more[i] = called[i]
    <3>1. called \in Seq(CallsOfHandlers)
      BY <1>2 DEF CallsFit
    <3>2. /\ more \in Seq(CallsOfHandlers) /\ Len(more) = m + 1 /\ more[m + 1] = x
          /\ \A i \in 1..m : more[i] = called[i]
      BY <1>14, <3>1, AppendProperties
    <3> HIDE DEF more
    <3>3. QED BY <3>1, <3>2
  <2> HIDE DEF more, m
  <2>2. \A i \in DOMAIN more : \/ i \in DOMAIN called /\ i \in 1..m /\ more[i] = called[i]
                               \/ i = m + 1 /\ more[i] = x
    <3>1. \A k \in 1..(m + 1) : k \in 1..m \/ k = m + 1
      BY <2>1
    <3>2. QED BY <2>1, <3>1, Zenon
  <2>3. CallsFit(more, bound)
    <3>1. x.event < bound /\ x.handler.handleObj <= bound
      BY <1>2, <1>6, <1>9, <1>13
    <3>2. QED BY <1>2, <2>1, <2>2, <3>1 DEF CallsFit
  <2>4. NotYetCalled(v, home, more)
    <3>1. SUFFICES ASSUME NEW i \in DOMAIN more, more[i].event = v.number
                   PROVE  /\ home[more[i].handler.handleObj] \notin Range(v.path)
                          /\ << more[i].elem, more[i].handler >> \notin Range(v.queue)
      <4>1. ~HandleWaits(v)
        BY <1>5, <1>7 DEF HandleWaits
      <4>2. QED BY <4>1 DEF NotYetCalled
    <3>2. CASE i \in DOMAIN called /\ more[i] = called[i]
      BY <1>5, <1>11, <1>16, <3>1, <3>2
    <3>3. CASE more[i] = x
      BY <1>5, <1>6, <1>7, <1>11, <1>12, <1>13, <3>3
    <3>4. QED BY <2>2, <3>2, <3>3
  <2>5. ASSUME NEW w, w.number # v.number, NotYetCalled(w, home, called)
        PROVE  NotYetCalled(w, home, more)
    <3>1. x.event = v.number
      BY <1>5, <1>6
    <3>2. \A i \in DOMAIN more : more[i].event = w.number =>
            i \in DOMAIN called /\ more[i] = called[i]
      BY <2>2, <2>5, <3>1
    <3>3. QED BY <2>5, <3>2 DEF NotYetCalled
  <2>6. v.number = Event.number /\ (v.default => Event.default)
    BY <1>5, <1>10
  <2>7. DispatchesFit(dispatches', home, more, bound)
    BY <1>1, <1>2, <1>15, <2>4, <2>5, <2>6, ChangeFits DEF ChangeEvent, Event
  <2>8. DefaultTold(dispatches', triggered)
    BY <1>1, <1>2, <2>6, StillTold DEF ChangeEvent, Event
  <2>9. OnceEach(more)
    <3>1. SUFFICES ASSUME NEW i \in DOMAIN more, NEW j \in DOMAIN more, i < j,
                          more[i].event = more[j].event
                   PROVE  << more[i].handler, more[i].elem >> # << more[j].handler, more[j].elem >>
      BY DEF OnceEach
    <3>2. i \in 1..m /\ i \in DOMAIN called /\ more[i] = called[i]
      BY <2>1, <2>2, <3>1
    <3>3. CASE j \in DOMAIN called /\ more[j] = called[j]
      BY <1>2, <3>1, <3>2, <3>3 DEF OnceEach
    <3>4. CASE more[j] = x
      <4>1. << called[i].elem, called[i].handler >> # << e, o >>
        BY <1>6, <1>11, <1>12, <1>16, <3>1, <3>2, <3>4
      <4>2. QED BY <1>6, <3>2, <3>4, <4>1
    <3>5. QED BY <2>2, <3>3, <3>4
  <2>10. called' = more
    BY <1>19 DEF more
  <2>11. QED BY <1>1, <1>2, <1>4, <2>3, <2>7, <2>8, <2>9, <2>10 DEF EventsFit
<1>20. QED BY <1>1, <1>18, <1>19

\* The default action of trigger begins with an event that calls nothing.
LEMMA ActKeeps ==
  ASSUME NEW home, EventsFit(home), Act
  PROVE  EventsFit(home)'
<1> DEFINE u == Event
           start == StartEvent(TRUE, "click", u.target, Path[u.target], "")
           v == [start EXCEPT !.default = TRUE, !.number = u.number]
<1>1. /\ dispatches # << >> /\ ChangeEvent(v) /\ UNCHANGED << events, called, bound >>
      /\ triggered' = u.type /\ u.type = "click"
  BY DEF Act, EventFinished, Between, HasDefault
<1>2. /\ bound \in Nat /\ HandlersFit(events, home, bound)
      /\ DispatchesFit(dispatches, home, called, bound) /\ CallsFit(called, bound)
      /\ OnceEach(called)
  BY DEF EventsFit
<1>3. u.target \in Elements /\ u.number \in Nat /\ u.number < bound
  BY <1>1, EventIs DEF EventFits
<1>4. Begun(start, bound) /\ start.type = "click"
  <2>1. Path[u.target] \in Seq(Elements) /\ IsInjective(Path[u.target])
    BY <1>3, TreeAssumption
  <2>2. "click" \in EventTypes
    BY DEF EventTypes
  <2> HIDE DEF u
  <2>3. Begun(start, bound)
    BY <1>3, <2>1, <2>2, StartIsBegun
  <2>4. QED BY <2>3 DEF StartEvent
<1> HIDE DEF start
<1>5. Begun(v, u.number) /\ v.default = TRUE /\ v.type = "click" /\ v.number = u.number
  BY <1>4 DEF Begun, EventFields
<1> HIDE DEF v
<1>6. EventFits(v, home, bound)
  BY <1>2, <1>3, <1>5, BegunFits
<1>7. NotYetCalled(v, home, called) /\ \A w : NotYetCalled(w, home, called) => NotYetCalled(w, home, called)
  BY <1>5 DEF NotYetCalled
<1>8. v.number = Last(dispatches).number
  BY <1>5 DEF Event
<1>9. dispatches' = Append(Front(dispatches), v)
  BY <1>1 DEF ChangeEvent
<1> HIDE DEF u
<1>10. DispatchesFit(dispatches', home, called, bound)
  BY <1>1, <1>2, <1>6, <1>7, <1>8, <1>9, ChangeFits
<1>11. DefaultTold(dispatches', triggered')
  BY <1>1 DEF DefaultTold
<1>12. QED BY <1>1, <1>2, <1>10, <1>11 DEF EventsFit

\* An event ends.
LEMMA FinishTriggerKeeps ==
  ASSUME NEW home, EventsFit(home), FinishTrigger, ~spoiled'
  PROVE  EventsFit(home)'
<1> DEFINE ds == dispatches
           c  == Len(ds)
           f  == Front(ds)
<1>1. /\ ds # << >> /\ dispatches' = f /\ UNCHANGED << events, called, bound >>
      /\ triggered' = IF Event.default THEN NoType ELSE triggered
      /\ Event.default => ~\E i \in DOMAIN dispatches' : dispatches'[i].default
  BY DEF FinishTrigger, EventFinished, Between
<1>2. /\ bound \in Nat /\ HandlersFit(events, home, bound)
      /\ DispatchesFit(ds, home, called, bound) /\ CallsFit(called, bound)
      /\ DefaultTold(ds, triggered) /\ OnceEach(called)
  BY DEF EventsFit
<1>3. /\ f \in Seq(Range(f)) /\ DOMAIN f \subseteq DOMAIN ds /\ \A k \in DOMAIN f : f[k] = ds[k]
  <2>1. ds \in Seq(Range(ds))
    BY <1>2 DEF DispatchesFit
  <2> HIDE DEF ds
  <2>2. QED BY <1>1, <2>1, FrontIs
<1> HIDE DEF f, c, ds
<1>4. DispatchesFit(f, home, called, bound)
  BY <1>2, <1>3 DEF DispatchesFit
<1>5. DefaultTold(f, triggered')
  <2>1. CASE Event.default
    BY <1>1, <2>1 DEF DefaultTold
  <2>2. CASE ~Event.default
    BY <1>1, <1>2, <1>3, <2>2 DEF DefaultTold
  <2>3. QED BY <2>1, <2>2
<1>6. QED BY <1>1, <1>2, <1>4, <1>5 DEF EventsFit

LEMMA EventsInitially == EventsInit => EventsInv
<1> SUFFICES ASSUME EventsInit
             PROVE  EventsInv
  OBVIOUS
<1>1. PICK home \in [Nat -> Elements \cup {NoElement}] : TRUE
  <2>1. [i \in Nat |-> NoElement] \in [Nat -> Elements \cup {NoElement}]
    OBVIOUS
  <2>2. QED BY <2>1
<1>2. HandlersFit(events, home, 0)
  <2>1. NoHandlers \in [list : Seq(HandleObjs), delegateCount : Nat]
    BY DEF NoHandlers
  <2>2. \A e : ListFits(NoHandlers, home, e, 0)
    BY <2>1 DEF NoHandlers, ListFits
  <2>3. events = [e \in Elements |-> [t \in EventTypes |-> NoHandlers]]
    BY DEF EventsInit
  <2>4. QED BY <2>1, <2>2, <2>3 DEF HandlersFit
<1>3. << >> \in Seq(Range(<< >>)) /\ << >> \in Seq(CallsOfHandlers) /\ DOMAIN << >> = {}
  OBVIOUS
<1>4. DispatchesFit(<< >>, home, << >>, 0)
  BY <1>3 DEF DispatchesFit
<1>5. CallsFit(<< >>, 0) /\ OnceEach(<< >>) /\ DefaultTold(<< >>, NoType)
  BY <1>3 DEF CallsFit, OnceEach, DefaultTold
<1>6. EventsFit(home)
  BY <1>2, <1>4, <1>5 DEF EventsFit, EventsInit
<1>7. QED BY <1>6 DEF EventsInv

LEMMA EventsStep ==
  ASSUME EventsInv, [EventsNext]_evars
  PROVE  EventsInv'
<1> DEFINE Homes == [Nat -> Elements \cup {NoElement}]
<1> SUFFICES ASSUME ~spoiled'
             PROVE  \E home \in Homes : EventsFit(home)'
  BY Zenon DEF EventsInv
<1>1. ~spoiled
  BY Zenon DEF evars, EventsNext, On, Off, Trigger, UserActs, Propagate, CallAttribute, Dispatch,
               Drop, CallNext, StopEvent, HandlerReturns, Act, FinishTrigger
<1>2. PICK home \in Homes : EventsFit(home)
  BY <1>1 DEF EventsInv
<1>3. CASE UNCHANGED evars
  <2>1. EventsFit(home)'
    BY <1>2, <1>3 DEF EventsFit, evars
  <2>2. QED BY <2>1
<1>4. CASE On
  BY <1>2, <1>4, OnKeeps
<1>5. CASE Off
  BY <1>2, <1>5, OffKeeps
<1>6. CASE Trigger
  BY <1>2, <1>6, TriggerKeeps
<1>7. CASE UserActs
  BY <1>2, <1>7, UserActsKeeps
<1>8. CASE Propagate
  BY <1>2, <1>8, PropagateKeeps
<1>9. CASE CallAttribute
  BY <1>2, <1>9, CallAttributeKeeps
<1>10. CASE Dispatch
  BY <1>2, <1>10, DispatchKeeps
<1>11. CASE Drop
  BY <1>2, <1>11, DropKeeps
<1>12. CASE CallNext
  BY <1>2, <1>12, CallNextKeeps
<1>13. CASE StopEvent \/ HandlerReturns
  BY <1>2, <1>13, RunningKeeps
<1>14. CASE Act
  BY <1>2, <1>14, ActKeeps
<1>15. CASE FinishTrigger
  BY <1>2, <1>15, FinishTriggerKeeps
<1>16. QED BY <1>3, <1>4, <1>5, <1>6, <1>7, <1>8, <1>9, <1>10, <1>11, <1>12, <1>13, <1>14, <1>15
           DEF EventsNext

LEMMA CalledOnce == EventsInv => CalledOncePerEvent
BY DEF EventsInv, EventsFit, OnceEach, CalledOncePerEvent, Earlier

\* EventHandlers.CalledOncePerEvent, for every page, every call of on, one, off and trigger, and
\* every order of them: each event calls a handler at most once for an element.
THEOREM EventsTheorem == EventsSpec => []CalledOncePerEvent
<1>1. EventsInit => EventsInv
  BY EventsInitially
<1>2. EventsInv /\ [EventsNext]_evars => EventsInv'
  BY EventsStep
<1>3. QED BY <1>1, <1>2, CalledOnce, PTL DEF EventsSpec
=============================================================================
