------------------------------- MODULE DomTree -------------------------------
(***************************************************************************)
(* The manipulation of the document by jquery-1.9.1.js (append, before,    *)
(* replaceWith, wrap, remove, clone ...) together with the data that       *)
(* jQuery keeps for elements in jQuery.cache.                              *)
(*                                                                         *)
(* Every call is one step; a dom is a record of all that it changes.       *)
(***************************************************************************)
EXTENDS Integers, Sequences, SequencesExt, FiniteSets

CONSTANTS
  MaxNodes,    \* bound: elements, with the copies; 1 is the document's body
  FirstNodes,  \* the children of every element before any call
  Selections,  \* what jQuery objects hold, and what they are given to insert
  MaxCalls     \* bound: calls

Nodes == 1..MaxNodes

ASSUME DomAssumption ==
  /\ MaxNodes \in Nat \ {0}
  /\ FirstNodes \in [Nodes -> Seq(Nodes)]
  /\ Selections \subseteq Seq(Nodes)

VARIABLES
  dom,   \* the document and jQuery's data
  domCalls  \* counter for the bound

dvars == << dom, domCalls >>

Body == 1

\* What is kept for an element: public data, handlers, the mark of attributes that
\* were read; 0 is none.
NoEntry == [data |-> 0, events |-> 0, parsed |-> FALSE]

\* id: expando of the elements; listening: the browser's listeners; thrown: the last call ended with an exception.
DomInit ==
  /\ dom = [children |-> FirstNodes, count |-> Cardinality({n \in Nodes : \E p \in Nodes :
                                                  n = Body \/ Contains(FirstNodes[p], n)}),
            id |-> [n \in Nodes |-> 0],
            cache |-> << >>, there |-> {}, deletedIds |-> << >>, listening |-> {},
            thrown |-> FALSE]
  /\ domCalls = 0

-----------------------------------------------------------------------------
(* Nodes                                                                   *)

\* getAll: an element and its descendants, in their order.
All(d, n) ==
  LET all[m \in Nodes] ==
        << m >> \o FlattenSeq([i \in DOMAIN d.children[m] |-> all[d.children[m][i]]])
  IN  all[n]

Parents(d, n) == {p \in Nodes : Contains(d.children[p], n)}
HasParent(d, n) == Parents(d, n) # {}
ParentOf(d, n) == CHOOSE p \in Parents(d, n) : TRUE

NextSibling(d, n) ==
  LET siblings == d.children[ParentOf(d, n)]
      i        == CHOOSE j \in DOMAIN siblings : siblings[j] = n
  IN  IF i = Len(siblings) THEN 0 ELSE siblings[i + 1]

RemoveChild(d, n) ==
  [d EXCEPT !.children = [p \in Nodes |-> SelectSeq(@[p], LAMBDA m : m # n)]]

\* insertBefore, of nodes that are in a fragment; next = 0 is appendChild.  A node is
\* not inserted into itself.
InsertBefore(d, p, nodes, next) ==
  IF \E i \in DOMAIN nodes : Contains(All(d, nodes[i]), p) THEN [d EXCEPT !.thrown = TRUE]
  ELSE LET row == d.children[p]
           at  == IF next = 0 THEN Len(row) + 1 ELSE CHOOSE i \in DOMAIN row : row[i] = next
       IN  [d EXCEPT !.children[p] = SubSeq(row, 1, at - 1) \o nodes \o SubSeq(row, at, Len(row))]

-----------------------------------------------------------------------------
(* Data                                                                    *)

Entry(d, n) == IF d.id[n] \in d.there THEN d.cache[d.id[n]] ELSE NoEntry

\* Mutant: an id that is used again stays among those that are free.
KeepFreeId(d, n, entry) ==
  LET id == IF d.id[n] # 0 THEN d.id[n]
            ELSE IF d.deletedIds # << >> THEN Last(d.deletedIds) ELSE Len(d.cache) + 1
  IN  [d EXCEPT !.id[n] = id, !.there = @ \cup {id},
                !.cache = IF id > Len(@) THEN Append(@, entry) ELSE [@ EXCEPT ![id] = entry],
                !.listening = IF entry.events # 0 THEN @ \cup {n} ELSE @]

\* internalData: an element gets an id when there is something to keep, one that was
\* given back or a new one.
Keep(d, n, entry) ==
  LET reused == d.deletedIds # << >>
      id     == IF d.id[n] # 0 THEN d.id[n]
                ELSE IF reused THEN Last(d.deletedIds) ELSE Len(d.cache) + 1
  IN  [d EXCEPT !.id[n] = id, !.there = @ \cup {id},
                !.cache = IF id > Len(@) THEN Append(@, entry) ELSE [@ EXCEPT ![id] = entry],
                !.deletedIds = IF d.id[n] = 0 /\ reused THEN Front(@) ELSE @,
                !.listening = IF entry.events # 0 THEN @ \cup {n} ELSE @]

\* cleanData
CleanData(d, nodes) ==
  LET clean(e, n) ==
        IF e.id[n] \notin e.there THEN e
        ELSE [e EXCEPT !.listening = @ \ {n}, !.there = @ \ {e.id[n]}, !.id[n] = 0,
                       !.deletedIds = Append(@, e.id[n])]
  IN  FoldLeft(clean, d, nodes)

\* internalRemoveData: an entry without anything in it is destroyed.
KeepOrClean(d, n, entry) ==
  IF d.id[n] \notin d.there THEN d
  ELSE IF entry = NoEntry THEN CleanData(d, << n >>)
  ELSE [d EXCEPT !.cache[d.id[n]] = entry,
                 !.listening = IF entry.events = 0 THEN @ \ {n} ELSE @]

-----------------------------------------------------------------------------
(* Copies                                                                  *)

\* jQuery.clone of several nodes, with data and events or of the structure only.
Clones(d, nodes, withData) ==
  LET sources == FlattenSeq([i \in DOMAIN nodes |-> All(d, nodes[i])])
      at(n)   == d.count + (CHOOSE i \in DOMAIN sources : sources[i] = n)
      copies  == [d EXCEPT !.count = @ + Len(sources),
                    !.children = [c \in Nodes |->
                       IF c \notin d.count + 1 .. d.count + Len(sources) THEN @[c]
                       ELSE [i \in DOMAIN @[sources[c - d.count]] |->
                               at(@[sources[c - d.count]][i])]]]
      copyEvent(e, n) == IF Entry(d, n) = NoEntry THEN e ELSE Keep(e, at(n), Entry(d, n))
  IN  [dom |-> IF withData THEN FoldLeft(copyEvent, copies, sources) ELSE copies,
       nodes |-> [i \in DOMAIN nodes |-> at(nodes[i])]]

CopySize(d, nodes) == Len(FlattenSeq([i \in DOMAIN nodes |-> All(d, nodes[i])]))

-----------------------------------------------------------------------------
(* Insertion                                                               *)

RemoveNode(d, n) == RemoveChild(CleanData(d, All(d, n)), n)

\* The callbacks of append, prepend, before, after and replaceWith.
Put(at, d, target, nodes) ==
  CASE at = "append"  -> InsertBefore(d, target, nodes, 0)
    [] at = "prepend" -> InsertBefore(d, target, nodes,
                           IF d.children[target] = << >> THEN 0 ELSE d.children[target][1])
    [] at = "before"  -> IF HasParent(d, target)
                         THEN InsertBefore(d, ParentOf(d, target), nodes, target) ELSE d
    [] at = "after"   -> IF HasParent(d, target)
                         THEN InsertBefore(d, ParentOf(d, target), nodes, NextSibling(d, target))
                         ELSE d
    [] at = "replaceWith" ->
         IF HasParent(d, target)
         THEN InsertBefore(RemoveNode(d, target), ParentOf(d, target), nodes, NextSibling(d, target))
         ELSE d

\* buildFragment leaves out what is itself a target.
Moved(targets, content) == SelectSeq(content, LAMBDA n : ~Contains(targets, n))

Fragment(d, nodes) == FoldLeft(RemoveChild, d, nodes)

\* domManip: the last target gets the nodes, the others copies.
DomManip(at, d, targets, content) ==
  LET moved == Moved(targets, content)
      put(e, i) ==
        IF e.thrown THEN e
        ELSE IF i = Len(targets) THEN Put(at, e, targets[i], moved)
        ELSE LET copied == Clones(e, moved, TRUE)
             IN  Put(at, copied.dom, targets[i], copied.nodes)
  IN  IF moved = << >> THEN d
      ELSE FoldLeft(put, Fragment(d, moved), [i \in DOMAIN targets |-> i])

\* wrapAll: a copy of the wrapper comes before the first node, and the nodes into its
\* innermost element.
WrapAll(d, nodes, wrapper) ==
  LET copied == Clones(d, << wrapper >>, TRUE)
      copy   == copied.nodes[1]
      inner[n \in Nodes] == IF copied.dom.children[n] = << >> THEN n
                            ELSE inner[copied.dom.children[n][1]]
      placed == IF HasParent(d, nodes[1])
                THEN DomManip("before", copied.dom, << nodes[1] >>, << copy >>) ELSE copied.dom
  IN  DomManip("append", placed, << inner[copy] >>, nodes)

-----------------------------------------------------------------------------
(* Calls                                                                   *)

Do(d) ==
  /\ domCalls < MaxCalls
  /\ domCalls' = domCalls + 1
  /\ dom' = d

Ready == [dom EXCEPT !.thrown = FALSE]
Known(nodes) == nodes # << >> /\ \A i \in DOMAIN nodes : nodes[i] \in 1..dom.count
ElementNodes(nodes) == Known(nodes) /\ ~Contains(nodes, Body)

\* data(key, value), on, removeData, off and data() of one element.
StoreData ==
  \E n \in 1..dom.count :
  \E entry \in {[Entry(dom, n) EXCEPT !.data = 1], [Entry(dom, n) EXCEPT !.events = @ + 1],
                [Entry(dom, n) EXCEPT !.parsed = TRUE]} :
    /\ entry.events < 2
    /\ Do(Keep(Ready, n, entry))

DeleteData ==
  \E n \in 1..dom.count :
  \E entry \in {[Entry(dom, n) EXCEPT !.data = 0], [Entry(dom, n) EXCEPT !.events = 0]} :
    /\ entry # Entry(dom, n)
    /\ Do(KeepOrClean(Ready, n, entry))

RemoveElement ==
  \E n \in 2..dom.count : Do(RemoveNode(Ready, n))

EmptyElement ==
  \E n \in 1..dom.count :
    Do([CleanData(Ready, Tail(All(dom, n))) EXCEPT !.children[n] = << >>])

Detach == \E n \in 2..dom.count : Do(RemoveChild(Ready, n))

Clone ==
  \E n \in 2..dom.count, withData \in BOOLEAN :
    /\ dom.count + Len(All(dom, n)) <= MaxNodes
    /\ Do(Clones(Ready, << n >>, withData).dom)

\* replaceWith first detaches what is to be inserted.
Insert ==
  \E at \in {"append", "prepend", "before", "after", "replaceWith"},
     targets, content \in Selections :
    /\ Known(targets) /\ ElementNodes(content)
    /\ at \in {"before", "after", "replaceWith"} => ElementNodes(targets)
    /\ dom.count + (Len(targets) - 1) * CopySize(dom, content) <= MaxNodes
    /\ LET value == Moved(targets, content)
           start == IF at = "replaceWith" THEN Fragment(Ready, value) ELSE Ready
       IN  Do(DomManip(at, start, targets, content))

Wrap ==
  \E nodes \in Selections, wrapper \in 2..dom.count :
    /\ ElementNodes(nodes)
    /\ dom.count + Len(All(dom, wrapper)) <= MaxNodes
    /\ Do(WrapAll(Ready, nodes, wrapper))

\* unwrap: the parent is replaced with its children.
Unwrap ==
  \E n \in 2..dom.count :
    /\ HasParent(dom, n) /\ ParentOf(dom, n) # Body
    /\ LET parent == ParentOf(dom, n)
       IN  Do(DomManip("replaceWith", Fragment(Ready, dom.children[parent]), << parent >>,
                       dom.children[parent]))

DomNext ==
  \/ StoreData \/ DeleteData \/ RemoveElement \/ EmptyElement \/ Detach \/ Clone
  \/ Insert \/ Wrap \/ Unwrap

DomSpec == DomInit /\ [][DomNext]_dvars

-----------------------------------------------------------------------------
(* Correctness                                                             *)

\* jquery-1.9.1.js:1551-1730, 6564-6614.  Ids are given back and used again: still every
\* element with data has an entry of its own, every entry an element, and no id is
\* both in use and free or free twice; the browser calls the elements with handlers.
CacheIsOwned ==
  /\ \A n, m \in Nodes : (n # m /\ dom.id[n] # 0) => dom.id[n] # dom.id[m]
  /\ dom.there = {dom.id[n] : n \in Nodes} \ {0}
  /\ IsInjective(dom.deletedIds)
  /\ ToSet(dom.deletedIds) = DOMAIN dom.cache \ dom.there
  /\ dom.listening = {n \in Nodes : Entry(dom, n).events # 0}
=============================================================================
