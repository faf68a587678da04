---------------------------- MODULE SortableTables ----------------------------
(***************************************************************************)
(* A table of the pages Users.xhtml and Documents.xhtml in the browser:    *)
(* the component sortable.xhtml with its scripts sorttable.js, common.js   *)
(* and pagesScripts.js.  The page has one such table.                      *)
(*                                                                         *)
(* A record stands for the table, and an operator on such records for a    *)
(* script that runs to its end or to the exception that stops it.          *)
(***************************************************************************)
EXTENDS Integers, Sequences, SequencesExt, FiniteSets

CONSTANTS
  Rows,        \* the rows that the server rendered
  Columns,     \* 1..n
  Contents,    \* what the cells may hold: functions from rows and columns to cells
  HeaderTypes, \* what the headers may say: functions from columns to types
  Defaults,    \* their default orders: functions from columns to "", "asc", "desc"
  BottomRows,  \* rows of the class sortbottom
  Phrases,     \* what users enter in the filter
  NoKey        \* no custom key

\* The sort functions, and a header that is not one for sorting.
SortFunctions == {"numeric", "alpha", "ddmm", "mmdd"}
NoSort == "nosort"
Guess  == "guess"

ASSUME TablesAssumption ==
  /\ IsFiniteSet(Rows) /\ Columns \subseteq Nat
  /\ BottomRows \subseteq Rows
  /\ HeaderTypes \subseteq [Columns -> SortFunctions \cup {NoSort, Guess}]
  /\ Defaults \subseteq [Columns -> {"", "asc", "desc"}]

VARIABLES
  cell,       \* the texts of the cells
  header,     \* the classes sorttable_... of the headers
  byDefault,  \* their classes sorted-by-default and desc-order
  showFilter, \* the table has a filter
  phrase,     \* what is in the filter
  phase,      \* "parsing", "interactive" (DOMContentLoaded), "sorting" (onload) or "loaded"
  table,      \* the state of the table
  toClick     \* pass and column of the clicks applyDefaultSorting still has to make

tvars == << cell, header, byDefault, showFilter, phrase, phase, table, toClick >>

markup == << cell, header, byDefault, showFilter >>

\* The body's rows from top to bottom.
BodyRows == Rows \ BottomRows

\* order: the rows of tBodies[0]; hidden: those with display 'none'; stripe: odd-row
\* or even-row; mark: sorttable_sorted or sorttable_sorted_reverse of a header;
\* arrows: the elements sorttable_sortfwdind and sorttable_sortrevind; sortfunction
\* and selectable: the click handlers; done: of sorttable.init; count: the
\* "Rows displayed"; checked: the checkboxes.
Tables ==
  [order : SetToSeqs(BodyRows) \cup SetToSeqs(Rows), hidden : SUBSET BodyRows,
   stripe : [Rows -> {"none", "odd", "even"}],
   mark : [Columns -> {"none", "sorted", "sorted_reverse"}],
   arrows : SUBSET (Columns \X {"fwd", "rev"}),
   sortfunction : [Columns -> SortFunctions \cup {NoSort}],
   done : BOOLEAN, selectable : BOOLEAN, count : 0..Cardinality(Rows),
   checked : SUBSET BodyRows]

TablesTypeOK == table \in Tables

-----------------------------------------------------------------------------
(* sorttable.js                                                            *)

\* getInnerText: a custom key goes before what the cell shows.
InnerText(r, c) == IF cell[r][c].customkey # NoKey THEN cell[r][c].customkey
                                             ELSE cell[r][c].text

\* guessType goes on after a word or a date of which it cannot tell which part is
\* the month, and stops at the first number or other date.
GuessType(order, c) ==
  LET keys     == [i \in DOMAIN order |-> InnerText(order[i], c)]
      telling  == {i \in DOMAIN keys : \/ keys[i].kind = "number"
                                       \/ keys[i].kind = "date" /\ (\/ keys[i].first > 12
                                                                    \/ keys[i].second > 12)}
      earliest == keys[Min(telling)]
  IN  IF telling # {}
      THEN IF earliest.kind = "number" THEN "numeric"
           ELSE IF earliest.first > 12 THEN "ddmm" ELSE "mmdd"
      ELSE IF \E i \in DOMAIN keys : keys[i].kind = "date" THEN "ddmm" ELSE "alpha"

\* sort_ddmm and sort_mmdd fail at a text that is not a date.
Comparable(sortfunction, k) ==
  sortfunction \in {"ddmm", "mmdd"} => k.kind = "date"

\* What a sort function compares of a text: sort_numeric reads 0 in what is no
\* number.
SortKey(sortfunction, k) ==
  CASE sortfunction = "numeric" -> k.number
    [] sortfunction = "alpha" -> k.alpha
    [] sortfunction = "ddmm" -> 50 * k.second + k.first
    [] sortfunction = "mmdd" -> 50 * k.first + k.second

InAscendingOrder(order, sortfunction, c) ==
  \A i, j \in DOMAIN order :
    i < j => SortKey(sortfunction, InnerText(order[i], c))
               <= SortKey(sortfunction, InnerText(order[j], c))

\* jQuery(rows).filter(":visible")
VisibleRows(t) == SelectSeq(t.order, LAMBDA r : r \notin t.hidden)

\* updateRowColoring of the rows of the body.
UpdateRowColoring(t) ==
  LET visible == VisibleRows(t)
  IN  [t EXCEPT !.stripe =
         [r \in Rows |-> IF r \notin ToSet(visible) THEN @[r]
                         ELSE IF (CHOOSE i \in DOMAIN visible : visible[i] = r) % 2 = 0
                         THEN "even" ELSE "odd"]]

\* The body's rows in the order that all rows had.
BodyOrders(order) ==
  LET Place(r) == CHOOSE i \in DOMAIN order : order[i] = r
  IN  {s \in SetToSeqs(BodyRows) : \A i, j \in DOMAIN s : i < j => Place(s[i]) < Place(s[j])}

\* makeSortable: the last rows go to the foot, each header gets its sort function.
MakeSortable(t) ==
  {[t EXCEPT !.order = order,
             !.sortfunction = [c \in Columns |-> IF header[c] = Guess
                                                 THEN GuessType(order, c) ELSE header[c]]] :
     order \in BodyOrders(t.order)}

\* sorttable.init colours the table element, no row of it.
InitTable(t) ==
  IF t.done THEN {t} ELSE {[sortable EXCEPT !.done = TRUE] : sortable \in MakeSortable(t)}

\* Mutant: the loop of reverse ends before the first row.
ReverseAllButOne(t, c) ==
  LET sorted == t.mark[c] = "sorted"
  IN  UpdateRowColoring(
        [t EXCEPT !.order = << Head(@) >> \o Reverse(Tail(@)),
                  !.mark[c] = IF sorted THEN "sorted_reverse" ELSE "sorted",
                  !.arrows = {arrow \in @ : arrow[2] # IF sorted THEN "fwd" ELSE "rev"}
                             \cup {<< c, IF sorted THEN "rev" ELSE "fwd" >>}])

\* A click on a header that is sorted by, in either order.
ReverseTable(t, c) ==
  LET sorted == t.mark[c] = "sorted"
  IN  UpdateRowColoring(
        [t EXCEPT !.order = Reverse(@),
                  !.mark[c] = IF sorted THEN "sorted_reverse" ELSE "sorted",
                  !.arrows = {arrow \in @ : arrow[2] # IF sorted THEN "fwd" ELSE "rev"}
                             \cup {<< c, IF sorted THEN "rev" ELSE "fwd" >>}])

\* The other headers' marks and the indicators are taken away.
MarkSorted(t, c) ==
  [t EXCEPT !.mark = [d \in Columns |-> IF d = c THEN "sorted" ELSE "none"],
            !.arrows = {<< c, "fwd" >>}]

\* row_array.sort need not be stable.
SortRows(t, c) ==
  LET marked == MarkSorted(t, c)
      f      == t.sortfunction[c]
  IN  IF Len(t.order) > 1 /\ \E r \in ToSet(t.order) : ~Comparable(f, InnerText(r, c))
      THEN {marked}
      ELSE {UpdateRowColoring([marked EXCEPT !.order = order]) :
              order \in {s \in SetToSeqs(BodyRows) : InAscendingOrder(s, f, c)}}

\* The click handler of a header; a header of the class sorttable_nosort has none.
HeaderClicked(t, c) ==
  IF ~t.done \/ t.sortfunction[c] = NoSort THEN {t}
  ELSE IF t.mark[c] # "none" THEN {ReverseTable(t, c)}
  ELSE SortRows(t, c)

-----------------------------------------------------------------------------
(* common.js and pagesScripts.js                                           *)

\* A word of a phrase is a set of alternatives; any text contains the empty one.
LineContains(r, text) ==
  text = "" \/ \E c \in Columns : text \in cell[r][c].text.parts

PhraseMatches(words, r) ==
  \A i \in DOMAIN words :
    \E alternative \in words[i] : LineContains(r, alternative.text) # alternative.negated

\* filter
FilterRows(t, words) ==
  [t EXCEPT !.hidden = {r \in ToSet(t.order) : ~PhraseMatches(words, r)}]

\* The onkeyup of the filter: updatePermaLink is defined nowhere, so that the count
\* is not set.
KeyUp(t, words) == UpdateRowColoring(FilterRows(t, words))

\* The two passes of applyDefaultSorting over the headers.
DefaultClicks ==
  {<< 1, c >> : c \in {d \in Columns : byDefault[d] # ""}}
    \cup {<< 2, c >> : c \in {d \in Columns : byDefault[d] = "desc"}}

Before(click, other) ==
  click[1] < other[1] \/ (click[1] = other[1] /\ click[2] <= other[2])

\* The handler of makeShiftSelectable for a click that has toggled the box already.
ShiftSelect(t, r) ==
  LET toggled == SymDiff(t.checked, {r})
      place   == CHOOSE i \in DOMAIN t.order : t.order[i] = r
      first   == IF toggled = {} THEN place
                 ELSE Min({i \in DOMAIN t.order : t.order[i] \in toggled})
  IN  [t EXCEPT !.checked = toggled \cup {t.order[i] : i \in first..place}]

-----------------------------------------------------------------------------

\* The script in the caption counts the rows before the browser has read them.
RenderedTable(order) ==
  [order |-> order, hidden |-> {}, stripe |-> [r \in Rows |-> "none"],
   mark |-> [c \in Columns |-> "none"], arrows |-> {},
   sortfunction |-> [c \in Columns |-> NoSort], done |-> FALSE, selectable |-> FALSE,
   count |-> 0, checked |-> {}]

\* The browser may have kept what was in the filter before the page was reloaded.
TablesInit ==
  /\ cell \in Contents
  /\ header \in HeaderTypes
  /\ byDefault \in Defaults
  /\ showFilter \in BOOLEAN
  /\ phrase \in (IF showFilter THEN Phrases ELSE {<< >>})
  /\ phase = "parsing"
  /\ table = RenderedTable(SetToSeq(Rows))
  /\ toClick = {}

\* DOMContentLoaded
ContentLoaded ==
  /\ phase = "parsing"
  /\ phase' = "interactive"
  /\ table' \in InitTable(table)
  /\ UNCHANGED << markup, phrase, toClick >>

\* The window.onload of a page: common.js has the filter's onkeyup run, which fails
\* when there is no filter and ends the chain of addOnloadAction; then come
\* sorttable.init, applyDefaultSorting and makeShiftSelectable.
PageLoads ==
  /\ phase = "interactive"
  /\ IF showFilter
     THEN /\ phase' = "sorting"
          /\ table' \in InitTable(KeyUp(table, phrase))
          /\ toClick' = DefaultClicks
     ELSE phase' = "loaded" /\ UNCHANGED << table, toClick >>
  /\ UNCHANGED << markup, phrase >>

\* applyDefaultSorting goes on while nothing else runs; updateTableColoring after it
\* selects no row.
DefaultClick ==
  /\ phase = "sorting"
  /\ \E click \in toClick : /\ \A other \in toClick : Before(click, other)
                            /\ table' \in HeaderClicked(table, click[2])
                            /\ toClick' = toClick \ {click}
  /\ UNCHANGED << markup, phrase, phase >>

\* makeShiftSelectable
MakeShiftSelectable ==
  /\ phase = "sorting" /\ toClick = {}
  /\ phase' = "loaded"
  /\ table' = [table EXCEPT !.selectable = TRUE]
  /\ UNCHANGED << markup, phrase, toClick >>

ClickHeader ==
  /\ phase \in {"interactive", "loaded"}
  /\ \E c \in Columns : table' \in HeaderClicked(table, c)
  /\ UNCHANGED << markup, phrase, phase, toClick >>

TypePhrase ==
  /\ phase \in {"interactive", "loaded"}
  /\ showFilter
  /\ \E words \in Phrases : /\ phrase' = words
                            /\ table' = KeyUp(table, words)
  /\ UNCHANGED << markup, phase, toClick >>

\* A checkbox of a row is clicked, with the Shift key or without.
ClickBox ==
  /\ phase \in {"interactive", "loaded"}
  /\ \E r \in ToSet(VisibleRows(table)) :
       \/ table' = [table EXCEPT !.checked = SymDiff(@, {r})]
       \/ table.selectable /\ table' = ShiftSelect(table, r)
  /\ UNCHANGED << markup, phrase, phase, toClick >>

TablesNext ==
  \/ ContentLoaded \/ PageLoads \/ DefaultClick \/ MakeShiftSelectable
  \/ ClickHeader \/ TypePhrase \/ ClickBox

TablesSpec == TablesInit /\ [][TablesNext]_tvars

-----------------------------------------------------------------------------
(* Correctness                                                             *)

\* sorttable.js:102-196.  A header that is marked as sorted tells the truth: the
\* rows are in that order of its column, after any clicks on any headers and with
\* any rows hidden; unless its sort function failed at one of its cells.
MarksTellTheOrder ==
  \A c \in Columns :
    LET f     == table.sortfunction[c]
        order == IF table.mark[c] = "sorted" THEN table.order ELSE Reverse(table.order)
    IN  (/\ table.mark[c] # "none"
         /\ \A r \in ToSet(order) : Comparable(f, InnerText(r, c)))
           => InAscendingOrder(order, f, c)
=============================================================================
