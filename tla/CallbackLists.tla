---------------------------- MODULE CallbackLists ----------------------------
(***************************************************************************)
(* jQuery.Callbacks, jQuery.Deferred and jQuery.when of jquery-1.9.1.js.   *)
(*                                                                         *)
(* A list calls its callbacks one after the other.  A callback that is     *)
(* being called may do anything to this and to other lists, so calls nest; *)
(* the call stack is part of the state.  Counting starts at 1.             *)
(***************************************************************************)
EXTENDS Orders, Integers, SequencesExt

CONSTANTS
  UserFunctions,  \* the callbacks of the users
  MaxFires,       \* bound: values that users fire
  MaxListCalls,   \* bound: calls of users
  Undefined       \* no list, no stack, no memory

ASSUME ListsAssumption == MaxFires \in Nat /\ MaxListCalls \in Nat

\* Three deferreds with three lists each, and a list made by Callbacks alone.
Deferreds == 1..3
Own       == << 0, "list" >>
Lists     == (Deferreds \X {"resolve", "reject", "notify"}) \cup {Own}

VARIABLES
  use,       \* what the script has built
  options,   \* of the lists
  lists,     \* their variables
  firings,   \* the fire calls that are under way, the inner one last
  state,     \* of the deferreds
  remaining, \* of when: the number of deferreds it waits for, and their values
  values,
  added,     \* what users have added to the lists
  told,      \* the calls of users' functions
  broken,    \* some fire was left by an exception or lost its list under way
  fires, changes \* counters for the bounds

lvars == << use, options, lists, firings, state, remaining, values, added, told, broken,
            fires, changes >>

-----------------------------------------------------------------------------
(* Callbacks, as operators on w == [lists, calls]                          *)

World == [lists |-> lists, calls |-> firings]

NewList(content, once) ==
  [list |-> content, stack |-> IF once THEN Undefined ELSE << >>, memory |-> Undefined,
   fired |-> FALSE, firing |-> FALSE, start |-> 1, length |-> 0, index |-> 1]

\* fire, up to its loop.
Fire(w, n, data) ==
  LET l == w.lists[n]
  IN  [lists |-> [w.lists EXCEPT ![n] =
                    [l EXCEPT !.memory = IF "memory" \in options[n] THEN data ELSE Undefined,
                              !.fired = TRUE, !.index = l.start, !.start = 1,
                              !.length = Len(l.list), !.firing = TRUE]],
       calls |-> Append(w.calls, [list |-> n, data |-> data, at |-> "loop", runs |-> Undefined])]

FireWith(w, n, data) ==
  LET l == w.lists[n]
  IN  IF l.list = Undefined \/ (l.fired /\ l.stack = Undefined) THEN w
      ELSE IF l.firing THEN [w EXCEPT !.lists[n].stack = Append(@, data)]
      ELSE Fire(w, n, data)

\* Mutant: a list that has fired does not call what is added to it.
AddForNextTime(w, n, f) ==
  LET l     == w.lists[n]
      known == "unique" \in options[n] /\ Contains(l.list, f)
      list  == IF known THEN l.list ELSE Append(l.list, f)
  IN  IF l.list = Undefined THEN w
      ELSE IF l.firing THEN [w EXCEPT !.lists[n].list = list, !.lists[n].length = Len(list)]
      ELSE [w EXCEPT !.lists[n].list = list]

Add(w, n, f) ==
  LET l     == w.lists[n]
      known == "unique" \in options[n] /\ Contains(l.list, f)
      list  == IF known THEN l.list ELSE Append(l.list, f)
  IN  IF l.list = Undefined THEN w
      ELSE IF l.firing THEN [w EXCEPT !.lists[n].list = list, !.lists[n].length = Len(list)]
      ELSE IF l.memory = Undefined THEN [w EXCEPT !.lists[n].list = list]
      ELSE Fire([w EXCEPT !.lists[n].list = list, !.lists[n].start = Len(l.list) + 1],
                n, l.memory)

\* Mutant: the index of the loop stays where it was.
RemoveBehindLoop(w, n, f) ==
  LET l == w.lists[n]
  IN  IF l.list = Undefined THEN w
      ELSE [w EXCEPT !.lists[n].list = SelectSeq(l.list, LAMBDA g : g # f),
                     !.lists[n].length = @ - Cardinality({i \in DOMAIN l.list :
                                                l.firing /\ l.list[i] = f})]

\* remove: each place of the callback up to the one being called, this one included,
\* moves the loop back by one.
RemoveFrom(w, n, f) ==
  LET l      == w.lists[n]
      places == {i \in DOMAIN l.list : l.firing /\ l.list[i] = f}
  IN  IF l.list = Undefined THEN w
      ELSE [w EXCEPT !.lists[n].list = Chosen(l.list, {i \in DOMAIN l.list : l.list[i] # f}),
                     !.lists[n].length = @ - Cardinality(places),
                     !.lists[n].index = @ - Cardinality({i \in places : i <= l.index})]

\* empty: the loop is not told.
EmptyList(w, n) == [w EXCEPT !.lists[n].list = << >>]

Disable(w, n) ==
  [w EXCEPT !.lists[n].list = Undefined, !.lists[n].stack = Undefined,
            !.lists[n].memory = Undefined]

Lock(w, n) ==
  LET locked == [w EXCEPT !.lists[n].stack = Undefined]
  IN  IF w.lists[n].memory = Undefined THEN Disable(locked, n) ELSE locked

\* The end of fire, after the loop.
FinishFiring(w) ==
  LET n == Last(w.calls).list
      l == w.lists[n]
      v == [lists |-> [w.lists EXCEPT ![n].firing = FALSE], calls |-> Front(w.calls)]
  IN  IF l.list = Undefined THEN v
      ELSE IF l.stack # Undefined
      THEN IF l.stack = << >> THEN v
           ELSE Fire([v EXCEPT !.lists[n].stack = Tail(@)], n, Head(l.stack))
      ELSE IF l.memory # Undefined THEN [v EXCEPT !.lists[n].list = << >>]
      ELSE Disable(v, n)

\* The loop goes on behind the callback that was called.
NextCallback(w) ==
  [lists |-> [w.lists EXCEPT ![Last(w.calls).list].index = @ + 1],
   calls |-> Append(Front(w.calls), [Last(w.calls) EXCEPT !.at = "loop"])]

\* An exception leaves every fire that is under way, and the lists as they are.
Thrown(w) == [w EXCEPT !.calls = << >>]

-----------------------------------------------------------------------------
(* Deferred                                                                *)

\* Callbacks that jQuery itself adds; a forwarder of then has a function of the
\* user in it.
Builtin(do, n)       == [do |-> do, list |-> n]
Forwarder(action, f) == [do |-> "forward", list |-> << 2, action >>, f |-> f]
IsBuiltin(c)         == c \notin UserFunctions

Settled(action) == IF action = "resolve" THEN "resolved" ELSE "rejected"

OtherOf(action) == IF action = "resolve" THEN "reject" ELSE "resolve"

\* What Deferred adds to its lists of done and fail callbacks.
Settlers(d, action) ==
  << Builtin("state", << d, action >>), Builtin("disable", << d, OtherOf(action) >>),
     Builtin("lock", << d, "notify" >>) >>

NewDeferredList(n) ==
  IF n[2] \in {"resolve", "reject"} THEN NewList(Settlers(n[1], n[2]), TRUE)
                                    ELSE NewList(<< >>, FALSE)

\* Calls of add one after the other: the first one's fire comes last on the stack,
\* to be done first.
AddAll(w, entries) ==
  FoldRight(LAMBDA entry, v : Add(v, entry[1], entry[2]), entries, w)

Actions == << "resolve", "reject", "notify" >>

\* then: the second deferred is made from the first, with a function for done and
\* none for fail and progress.
Piped(w, f) ==
  AddAll(w, << << << 1, "resolve" >>, Forwarder("resolve", f) >>,
               << << 1, "reject" >>, Forwarder("reject", Undefined) >>,
               << << 1, "notify" >>, Forwarder("notify", Undefined) >> >>)

\* A promise that such a function returned is followed by the second deferred.
Followed(w, d) ==
  AddAll(w, [i \in 1..3 |-> << << d, Actions[i] >>, Builtin("fire", << 2, Actions[i] >>) >>])

\* when: the third deferred is made from the first two.  Its notifications stand for
\* the values of both by the latest one.
Joined(w) ==
  LET listeners(d) == << << << d, "resolve" >>, Builtin("update", << d, "resolve" >>) >>,
                         << << d, "reject" >>, Builtin("fire", << 3, "reject" >>) >>,
                         << << d, "notify" >>, Builtin("fire", << 3, "notify" >>) >> >>
  IN  AddAll(w, listeners(1) \o listeners(2))

-----------------------------------------------------------------------------

ListsInit ==
  /\ use \in {"callbacks", "deferred", "then", "when"}
  /\ \E own \in SUBSET {"once", "memory", "unique", "stopOnFalse"} :
       /\ use # "callbacks" => own = {}
       /\ options = [n \in Lists |-> IF n = Own THEN own
                                     ELSE IF n[2] = "notify" THEN {"memory"}
                                     ELSE {"once", "memory"}]
       /\ lists = [n \in Lists |-> IF n = Own THEN NewList(<< >>, "once" \in own)
                                              ELSE NewDeferredList(n)]
  /\ firings = << >>
  /\ state = [d \in Deferreds |-> "pending"]
  /\ remaining = 2
  /\ values = << << >>, << >> >>
  /\ added = << >>
  /\ told = << >>
  /\ broken = FALSE
  /\ fires = 0
  /\ changes = 0

Become(w) == lists' = w.lists /\ firings' = w.calls

InnerFiring == Last(firings)
TopList     == lists[InnerFiring.list]

\* The inner call runs f now, or goes on with its loop.
CallbackRunning(at, f) ==
  [World EXCEPT !.calls = Append(Front(@), [InnerFiring EXCEPT !.at = at, !.runs = f])]

AtLoop == firings # << >> /\ InnerFiring.at = "loop"

LoopGoesOn == AtLoop /\ TopList.list # Undefined /\ TopList.index <= TopList.length

\* The loop of fire has come to its end, or the list is gone.
LoopEnds ==
  /\ AtLoop
  /\ ~LoopGoesOn
  /\ Become(FinishFiring(World))
  /\ UNCHANGED << use, options, state, remaining, values, added, told, broken, fires, changes >>

\* The list was emptied behind the back of the loop: there is nothing to call.
LoopFails ==
  /\ LoopGoesOn
  /\ TopList.index \notin DOMAIN TopList.list
  /\ broken' = TRUE
  /\ Become(Thrown(World))
  /\ UNCHANGED << use, options, state, remaining, values, added, told, fires, changes >>

AtCallback == LoopGoesOn /\ TopList.index \in DOMAIN TopList.list

Callback == TopList.list[TopList.index]

IsForwarder(c) == IsBuiltin(c) /\ c.do = "forward"

\* A user's function, by itself or in a forwarder.
CallFunction ==
  /\ AtCallback
  /\ IsBuiltin(Callback) => IsForwarder(Callback) /\ Callback.f # Undefined
  /\ told' = Append(told, [list |-> InnerFiring.list, f |-> Callback, data |-> InnerFiring.data])
  /\ Become(CallbackRunning("function", Callback))
  /\ UNCHANGED << use, options, state, remaining, values, added, broken, fires, changes >>

\* A forwarder without a function, the forwarder to a returned promise and the
\* reject of when fire another list.
CallFiring ==
  /\ AtCallback
  /\ IsBuiltin(Callback)
  /\ Callback.do = "fire" \/ (IsForwarder(Callback) /\ Callback.f = Undefined)
  /\ Become(FireWith(CallbackRunning("builtin", Callback), Callback.list, InnerFiring.data))
  /\ UNCHANGED << use, options, state, remaining, values, added, told, broken, fires, changes >>

\* The three callbacks of a deferred's done and fail lists.
CallSettler ==
  /\ AtCallback
  /\ IsBuiltin(Callback)
  /\ \/ /\ Callback.do = "state"
        /\ state' = [state EXCEPT ![Callback.list[1]] = Settled(Callback.list[2])]
        /\ Become(CallbackRunning("builtin", Callback))
     \/ /\ Callback.do = "disable"
        /\ Become(Disable(CallbackRunning("builtin", Callback), Callback.list))
        /\ UNCHANGED state
     \/ /\ Callback.do = "lock"
        /\ Become(Lock(CallbackRunning("builtin", Callback), Callback.list))
        /\ UNCHANGED state
  /\ UNCHANGED << use, options, remaining, values, added, told, broken, fires, changes >>

\* updateFunc
Update ==
  /\ values' = [values EXCEPT ![Callback.list[1]] = InnerFiring.data]
  /\ remaining' = remaining - 1
  /\ Become(IF remaining' = 0
            THEN FireWith(CallbackRunning("builtin", Callback), << 3, "resolve" >>,
                          values'[1] \o values'[2])
            ELSE CallbackRunning("builtin", Callback))

CallUpdate ==
  /\ AtCallback
  /\ IsBuiltin(Callback)
  /\ Callback.do = "update"
  /\ Update
  /\ UNCHANGED << use, options, state, added, told, broken, fires, changes >>

\* What jQuery's own callback has fired is done.
BuiltinReturns ==
  /\ firings # << >>
  /\ InnerFiring.at = "builtin"
  /\ Become(NextCallback(World))
  /\ UNCHANGED << use, options, state, remaining, values, added, told, broken, fires, changes >>

-----------------------------------------------------------------------------
(* The users' functions and scripts                                        *)

InFunction == firings # << >> /\ InnerFiring.at = "function"

\* A function returns FALSE or something else.
CallEnds ==
  /\ InFunction
  /\ ~IsForwarder(InnerFiring.runs)
  /\ \/ Become(NextCallback(World))
     \/ /\ "stopOnFalse" \in options[InnerFiring.list]
        /\ Become(FinishFiring([World EXCEPT !.lists[InnerFiring.list].memory = Undefined]))
  /\ UNCHANGED << use, options, state, remaining, values, added, told, broken, fires, changes >>

\* A function given to then returns a value or the third deferred's promise.
ReturnToForwarder ==
  /\ InFunction
  /\ IsForwarder(InnerFiring.runs)
  /\ \/ Become(FireWith(CallbackRunning("builtin", InnerFiring.runs), InnerFiring.runs.list, InnerFiring.data))
     \/ Become(Followed(CallbackRunning("builtin", InnerFiring.runs), 3))
  /\ UNCHANGED << use, options, state, remaining, values, added, told, broken, fires, changes >>

\* A function fails.
CallbackThrows ==
  /\ InFunction
  /\ fires + changes < MaxListCalls
  /\ changes' = changes + 1
  /\ broken' = TRUE
  /\ Become(Thrown(World))
  /\ UNCHANGED << use, options, state, remaining, values, added, told, fires >>

\* A script or a function may call the lists.
InScript == firings = << >> \/ InFunction

\* Deferreds that users settle.
Sources ==
  CASE use = "deferred" -> {1} [] use \in {"then", "piped"} -> {1, 3}
    [] use \in {"when", "joined"} -> {1, 2} [] OTHER -> {}

FireValue ==
  /\ InScript
  /\ fires < MaxFires /\ fires + changes < MaxListCalls
  /\ fires' = fires + 1
  /\ \E n \in IF use = "callbacks" THEN {Own}
              ELSE Sources \X {"resolve", "reject", "notify"} :
       Become(FireWith(World, n, << fires' >>))
  /\ UNCHANGED << use, options, state, remaining, values, added, told, broken, changes >>

\* Deferreds that users watch.
Watched ==
  CASE use = "deferred" -> {1} [] use = "piped" -> {2} [] use = "joined" -> {3} [] OTHER -> {}

AddFunction ==
  /\ InScript
  /\ fires + changes < MaxListCalls
  /\ changes' = changes + 1
  /\ \E f \in UserFunctions,
        n \in IF use = "callbacks" THEN {Own} ELSE Watched \X {"resolve", "reject", "notify"} :
       /\ Become(Add(World, n, f))
       /\ added' = Append(added, << n, f >>)
  /\ UNCHANGED << use, options, state, remaining, values, told, broken, fires >>

\* always
AddAlways ==
  /\ InScript
  /\ fires + changes < MaxListCalls
  /\ changes' = changes + 1
  /\ \E f \in UserFunctions, d \in Watched :
       LET both == << << << d, "resolve" >>, f >>, << << d, "reject" >>, f >> >>
       IN  /\ Become(AddAll(World, both))
           /\ added' = added \o both
  /\ UNCHANGED << use, options, state, remaining, values, told, broken, fires >>

ChangeList ==
  /\ InScript
  /\ use = "callbacks"
  /\ fires + changes < MaxListCalls
  /\ changes' = changes + 1
  /\ \/ \E f \in UserFunctions : Become(RemoveFrom(World, Own, f))
     \/ Become(Disable(World, Own))
     \/ Become(Lock(World, Own))
  /\ UNCHANGED << use, options, state, remaining, values, added, told, broken, fires >>

\* Emptying a list that is firing: what is added next takes a place behind the loop.
EmptyIt ==
  /\ InScript
  /\ use = "callbacks"
  /\ fires + changes < MaxListCalls
  /\ changes' = changes + 1
  /\ broken' = (broken \/ lists[Own].firing)
  /\ Become(EmptyList(World, Own))
  /\ UNCHANGED << use, options, state, remaining, values, added, told, fires >>

\* then and when, of deferreds that may be settled.
Combine ==
  /\ firings = << >>
  /\ \/ /\ use = "then"
        /\ use' = "piped"
        /\ \E f \in UserFunctions : Become(Piped(World, f))
     \/ /\ use = "when"
        /\ use' = "joined"
        /\ Become(Joined(World))
  /\ UNCHANGED << options, state, remaining, values, added, told, broken, fires, changes >>

ListsNext ==
  \/ LoopEnds \/ LoopFails \/ CallFunction \/ CallFiring \/ CallSettler \/ CallUpdate
  \/ BuiltinReturns \/ CallEnds \/ ReturnToForwarder \/ CallbackThrows \/ FireValue \/ AddFunction
  \/ AddAlways \/ ChangeList \/ EmptyIt \/ Combine

ListsSpec == ListsInit /\ [][ListsNext]_lvars

-----------------------------------------------------------------------------
(* Correctness                                                             *)

\* jquery-1.9.1.js:1057-1108.  However callbacks are added and removed, by the
\* callbacks themselves too: when a list with memory is done each callback that is
\* in it was called with the last value.  (Nor must the list have been left by an
\* exception or stopped.)
NobodyMissesTheLastValue ==
  LET l == lists[Own]
  IN  (/\ use = "callbacks"
       /\ firings = << >>
       /\ ~broken
       /\ l.list # Undefined
       /\ l.memory # Undefined) =>
        \A i \in DOMAIN l.list :
          \E j \in DOMAIN told : told[j] = [list |-> Own, f |-> l.list[i], data |-> l.memory]

TimesIn(s, Test(_)) == Cardinality({i \in DOMAIN s : Test(s[i])})

\* jquery-1.9.1.js:1168-1253.  When a deferred is settled and nothing runs, each
\* function was called as often as it was added to the side on which the deferred
\* is settled, and never for the other side.
CalledAsOftenAsAdded ==
  (firings = << >> /\ ~broken) =>
    \A d \in Watched, action \in {"resolve", "reject"}, f \in UserFunctions :
      TimesIn(told, LAMBDA entry : entry.list = << d, action >> /\ entry.f = f)
        = IF state[d] = Settled(action) THEN TimesIn(added, LAMBDA a : a = << << d, action >>, f >>)
          ELSE 0
=============================================================================
