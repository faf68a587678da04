# multieditor in TLA+

multieditor lets several people edit one plain-text document at the same time.
Every save goes to a server that stores all versions, merges line by line what
was typed in parallel, and announces new versions over a websocket. This
directory models that system in TLA+, checks it with TLC on small instances and
proves its main properties with TLAPS.

## 1. The system

Paths: `EJB` = `multieditor-ejb/src/main/java/org/multieditor/data`, `WAR` =
`multieditor-war/src/main/java/org/multieditor/web`.

| component | state | operations | correct when |
|---|---|---|---|
| Text merge (`EJB/merge`) | none | `merge(previous, head, mine, cursor)` | rewritten lines of both users survive, the cursor stays in its line |
| Document table (`EJB/entity/.../Document.java`) | rows (name, version, previousVersion, mergedWith, description, contents, owner), unique (name, version) and (name, previousVersion) | queries by name (the head), by name and version, all versions | exactly one head per name, and a save replaces it in one step |
| Document manager (`DocumentManagerBean`, `DocumentControllerBean`) | a clock per bean instance | `createOrUpdate` (REQUIRES_NEW), `delete`, readers | a save takes effect on the head of that moment or not at all; each stored merge is the merge of what it names |
| Document service (`WAR/DocumentServiceImpl.java`) | the retry counter of a call | retry up to 20 times, push after commit | a save from a known version is answered; the head is announced |
| Document page (`webapp/Document.xhtml`, `DocumentPageBean.loadDocument`) | text area, currentVersion, sentContents, requestInProgress, lastRun | typing, `contentUpdated`, answers, websocket messages | nothing typed is lost, nobody undoes what others typed, the page converges to the head |
| Line typists (`test-ear/.../TestDocumentServiceClient.java`) | text each has seen | type one character in one's own line | the final text has all lines |
| List, create and edit pages, the page for debugging (`DocumentJSF.xhtml`) | form fields, selected name, previousVersion | load, save, create, delete | a form changes only the document its version is of, and only lines its user has seen; a page whose document was deleted changes no new one of that name |
| User accounts (`UserManagerBean`, `UserControllerBean`) | accounts with a unique name, owners of document rows | create or update, delete, find | a save or deletion acts on the account it found; an answered save counts |
| User cache (`UserMapperBean`) | a map, the time of its update | get | who reads gets an account that was there lately |
| Login and session | user name of the session | login, redirect | – |
| Sortable tables and page scripts (`sorttable.js`, `common.js`, `pagesScripts.js`, `components/sortable.xhtml`) | rows, marks, stripes, filter | sort, filter, select, onload actions | marks tell the order of the rows |
| jQuery (`jquery-1.9.1.js`): callback lists, deferreds, ajax, events, effects, DOM, readiness | lists, requests, handlers, queues, `jQuery.cache` | the methods of each | each value, event, answer and effect reaches whom it is for, once and in order |
| jQuery UI (`jquery-ui-1.10.2.custom.js`): widget factory, buttons, dialogs, mouse, position, resizable | constructors, instances, overlays, the drag under way, boxes | the methods of each, mouse, keys | see section 3 |
| REST clients, exception mappers | none | requests, exceptions to messages and back | an exception arrives as itself |
| DTOs, utilities, profiler, `expand-collapse.js`, deployment | none or test only | – | – |

How they interact: a page posts its text, the version it is based on and its
cursor to `DocumentServiceImpl`. This calls the manager in a transaction of its
own, and calls it again when anything but `UserNotFoundException` is thrown.
The transaction reads the head, the user and the version the page named, takes
one of six paths, and inserts no row, one row or two. The unique constraint on
(name, previousVersion) rejects a commit whose head was replaced meanwhile. After
the commit the service sends the new version to every page, and the pages that
have an older one save their own text, which brings them the merge.

A text that was typed over an older version is stored twice: as a *draft*, a row
that is its own previousVersion and therefore never a head, and as its merge with
the head. The page gets the version of its draft as `savedVersion` so that it can
go on typing over exactly what it sent.

What is hard here: the transaction is READ COMMITTED and made of three reads and
one commit, so other saves and deletions fall between any two of them; the push
is not part of the transaction; a retry may repeat what was committed; versions
are clock readings of several bean instances; a page may have two requests under
way. In the browser the scripts run on one thread, so what is hard there are calls
inside calls: callbacks, handlers and widgets that change, while they are called,
the very lists, queues and elements that are being worked through; and, for
requests, effects and the ready event, timers that race answers.
`PROJECT.json` lists each hazard at its line.

## 2. Modules

| module | models |
|---|---|
| `SimpleMerger` | `SimpleMerger.java` as operators on sequences of lines |
| `MergerCalls`, `MCMergerCalls` | one call of the merger on any texts; properties of the merge |
| `DocumentStore` | the table of one document: queries and unique constraints as operators |
| `DocumentManager` | `createOrUpdate` with its retries and push, and `delete`, for concurrent threads |
| `HeadHistory` | the abstract save: one step, on the current head |
| `DocumentRefinement` | the mapping under which `DocumentManager` implements `HeadHistory` |
| `SaveService` | one call of the service as one step: what it inserts and answers |
| `EditorPages` | the script of `Document.xhtml` in several browsers, the network, `SaveService` |
| `StalePages` | pages that stay open while their document is deleted and created again, over `DocumentManager` |
| `LineTypists` | the clients of the acceptance test over `DocumentManager` |
| `FormPages` | the pages that save from a form, several documents, over `SaveService` |
| `UserAccounts` | the account of one name: saves, deletions, logins, documents that refer to it |
| `UserCache` | `UserMapperBean` over `UserAccounts`, with the clock |
| `SortableTables` | the tables of the list pages and their scripts |
| `CallbackLists` | `$.Callbacks`, `$.Deferred`, `then`, `$.when` |
| `AjaxRequests` | `$.ajax` with XMLHttpRequest and jsonp |
| `AjaxConversions` | the choice and conversion of a response |
| `EventHandlers` | `on`, `one`, `off`, `trigger`, `dispatch` |
| `EffectQueues` | queues, animations, `stop`, `finish`, `promise` |
| `DomTree` | insertion, removal, cloning, and the data of elements |
| `PageReadiness` | the ready event |
| `WidgetClasses`, `WidgetInstances` | `$.widget`: inheritance and `_super`; instances and their handlers |
| `Buttons`, `Dialogs`, `MouseDrags`, `Placement`, `Resizing` | the widgets and interactions of these names |
| `Orders` | sequences cut down or put into another order, for `CallbackLists`, `Dialogs`, `EventHandlers` |
| `MCScripts`, `MCTimedScripts` | one system of all scripts that answer to calls, and of those with timers |
| `MCDocumentManager`, `MCUpdates`, `MCEditorPages`, `MCStalePages`, `MCLineTypists` | their instances for TLC |
| `MCForms` | the instances of `FormPages` and of `UserCache`, of which one moves |
| `SimpleMergerProofs`, `MergerCallsProofs`, `DocumentManagerProofs`, `EditorPagesProofs`, `FormPagesProofs`, `UserCacheProofs` | theorems about the modules of these names and what they extend; those about `LineTypists` and `StalePages` are in `DocumentManagerProofs` |
| `ScriptsProofs` | theorems about twelve modules of the scripts |
| `SaveServiceProofs` | lemmas on one save, for the pages |

### SimpleMerger

A text is the sequence of what stands between its line ends; lines are opaque
but for equality and length. `SplitLines` is `String.split("\n")` with the two
cases that matter: trailing empty lines vanish, and a text without a line end is
one line even if empty. `MergeLines` gives, per line, what the three loops append.
`RunningSums` is what a counter of the loop holds in each round: `LineStart` for the
positions in a text, `CursorCorrection` for what the cursor moves by.
`MergeThrows` is the `substring(0, -1)` of line 56.

### DocumentManager

One document name: queries, constraints and deletions are all by name, so
documents do not interact. `rows` is the committed table; a row has no id, name
or owner. `NoVersion` stands for the `""` a first row stores and for the `"0"` or
`""` a caller sends when it knows no version; no row ever has such a version.

A thread's `pc` goes `idle -> find -> lookUp -> commit -> notify -> idle`.

| action | code |
|---|---|
| `StartCall` | a request with any of the texts and any version given out, which includes resending an old one |
| `FindHead`, `FindManyHeads`, `RefuseStranger` | `findByName` with its ten looks, then the user; `UserNotFoundException` ends the call |
| `Create`, `PreviousNotFound`, `ChangeDescription`, `SameAsHead`, `SaveOverHead`, `Refresh`, `MergeIntoHead`, `MergerFails` | the paths of `DocumentManagerBean.createOrUpdate`, in its order of tests |
| `Commit`, `RollBack` | the transaction's inserts against both unique constraints |
| `Notify` | the push, unless the caller has this version, and the return |
| `TransactionFails` | any other Throwable at any point, the push included: the next attempt |
| `CallLost` | the server dies or the answer is lost, at any point |
| `DeleteFinds`, `DeleteCommits`, `DeleteFails` | the two statements of `delete` |

Each query is a step that reads the committed rows of that moment. Inserts appear
at the commit; a database that makes the second writer wait for the first gives
the same outcomes. The lookup of the previous version and the path chosen by it are
one step since nothing shared is read between them. `UniqueKeys` is checked at
commit only: the explicit look for the version before each insert
(`DocumentControllerBean.java:119`) fails the same attempt.

Versions: `Readings` are what a bean instance may generate. With `ClockSkew = 0`
each is above every version generated before; with a larger skew a version may
equal an older one or be smaller. `ClockStep` bounds the jumps upwards (only the
order matters, so 1 is enough).

Left out: the cursor correction (`MergerCalls` has it), owners, the readers
(`findAll`, `findNamesChangedByUser`), the time `findByName` sleeps.

### HeadHistory, SaveService

`HeadHistory` is what a save promises: one step that leaves the head alone or
replaces it by a row made on top of it. `DocumentManager` implements it while no
document is deleted (`SavesAreAtomic`, of `UpdateSpec`). That is why pages of documents
that nobody deletes can be modelled over `SaveService`, where a call is one step: its
four cases are the paths a caller takes that knows a
version, sends no text of line ends only and sends the document's one description,
and its saves are steps of `HeadHistory` too (the lemma `SavesAreHistorySteps`). With
deletions a save is not one step (`two_heads`): `EditorPages` and `FormPages` have none,
and what pages do when their document is deleted is in `StalePages`, over the
transactions themselves.

### EditorPages

A page's variables are those of the script; `overdue` stands for
`Date.now() - lastRun` having reached 2000 ms while `requestInProgress` is set,
which is all the script asks of the time. Delayed calls of `contentUpdated` are
counted in `timers`, delayed and travelling websocket messages lie in the bag
`inbox[p]`, requests and answers in bags too: nothing orders them.

| action | code |
|---|---|
| `Open` | `DocumentPageBean.loadDocument` and the variables of the script |
| `Connect` | the websocket of a page, connected some time after it was loaded |
| `Type` | `oninput`: a change of the user's own line, and `contentUpdated` |
| `TimerFires` | a postponed `contentUpdated` |
| `RefreshIfNeeded` | a websocket message and its delayed `refreshIfNeeded` |
| `Answered` | the success callback with its two branches |
| `Reload` | the page is left: its timers, its socket and its callbacks are gone, its requests are not |
| `AnswerIsLate`, `AnswerIsMissing` | 2000 ms have passed with the request under way, or lost |
| `Serve` | a save, the push to all listening pages unless the sender has this version, the answer |
| `LoseRequest`, `LoseAnswer` | there is no error callback; a service that gives up is a lost request |

`ContentUpdated` is an operator, since four handlers end in it: it postpones
itself or sends. A user types visible text in a line of their own and nobody adds
or removes lines: the program's own assumption on users (`README.txt:90`);
a merge drops blank lines at the end, so texts keep their length here. The push is
not lost here. `missed` is a history variable: the pages that a version was pushed past
before they were connected, and that the service has not answered since.

### StalePages

A document is deleted under the pages that show it, and perhaps created again by
others. Here every save is the transaction of `DocumentManager` with its queries,
retries and commit, and a deletion is its two statements, so that each falls between
the steps of the others. What users type is any text at any time.

| action | code |
|---|---|
| `Open` | `loadDocument` of a new bean, whether it finds a document or keeps the version "0" |
| `ScriptSaves` | `contentUpdated` of `Document.xhtml`, with the version the script has come to |
| `FormSaves` | `contentsValueChange` when the form of either page is submitted, by Save or Delete, with a changed text: the version stays the loaded one |
| `RunsOn`, `AnswerArrives` | the steps of the transaction and its retries; the answer in the script or the bean |
| `PressDelete` | `DocumentPageBean.deleteDocument`: after the changed text was saved, or at once; the page is left, its request is not taken back |
| `DeleteSelected` | `DocumentsEditPageBean.deleteDocument` of the name that is selected in the list, whatever form is loaded |
| `DeleteEnds` | the second statement of either deletion |

`orphan[c]` is a history variable: since the call of `c` began there has been no row with
the version it names.

### LineTypists

`executeA0zScenarioOnce`: a tester creates the document, then each client finds it
and types letters at the end of its own line, each into the document the previous
call returned. It runs over all steps of `DocumentManager`, conflicts, retries and
failing transactions included. A line is the number of its letters; there are
empty lines between as in the test, and the last line is a client's, whose prefix is
visible. All users have accounts, as the test creates them first.

### FormPages

A form is submitted as a whole: fields are set and the action runs in one request.
`Load` is `loadDocument` of both beans, which of a document that is not there takes
the name and nothing else; so a form can hold the version of one document under the
name of another, and a page of `DocumentJSF.xhtml` the version "0" and no description,
with which no save succeeds. `Submit` moves the version with the text that comes back;
`ContentsValueChange` does not. `CreateDocument` sends version "0". Each document
is a set of rows under `SaveService`, and nobody deletes one.

### UserAccounts, UserCache

One user name. `createOrUpdate` looks for a summary and again for the entity, and
the setters reach the row of that entity's id at the commit; the unique name is
checked there too. `delete` looks and then removes the row by its id, which rows of
documents that refer to it (`owners`) prevent. An author's save asks for the
user twice and commits if the owner is still there; `UserNotFoundException` ends
it, everything else is tried again. A second look for an id that this transaction
has already read gives the entity it has.

`UserCache` adds the map, its two fields and readers that check, query, set, stamp
and return in steps of their own; a query may fail. Time is counted in units of
which `LifeTime` make the 60 s, and a request is at work for at most `MaxDelay`.

### The scripts of the browser

JavaScript runs to completion, so a call that calls nothing back is one step. Where
the code calls a callback, a handler or a user's method, the call stack is part of
the state (`CallbackLists`, `AjaxRequests`, `EventHandlers`, `WidgetClasses`,
`WidgetInstances`; the tasks of `EffectQueues`), and between two steps of the
library any script may make any of the modelled calls.

* `SortableTables`: a record is the table; a click and a phrase in the filter are
  operators on it. The chain of onload actions is the filter and `sorttable.init`
  (`PageLoads`), one step per click of `applyDefaultSorting`, and `MakeShiftSelectable`;
  no user's action comes between them. Cells are what the sort functions and the filter
  tell apart. A sort of equal keys may leave them in any order, as the language then
  promised nothing.
* `CallbackLists`: the variables of a list, `firing` calls nested; the deferreds of
  `then` and `when` are made of the lists and of the callbacks jQuery adds. What `remove`
  leaves in a list, and where a dialog's layers are after `_moveToTop`, is said by the
  operators of `Orders`: the place of each element is counted, which is what `SelectSeq`
  computes, in a form that can be reasoned about.
* `AjaxRequests`: a frame is a call of `ajax` or of `done`, at the event whose
  handlers run; those may start and abort requests. Names of jsonp callbacks are
  given back and used again.
* `AjaxConversions`: `ajaxHandleResponses` and `ajaxConvert` for every set of up to
  three converters among five.
* `EventHandlers`: lists of handlers with delegated ones in front, namespaces,
  `focusin`; `trigger` along the path, `onclick` attributes and the default action. The
  queue of `dispatch` and what `off` leaves are said with `Orders`.
* `EffectQueues`: the queue "fx", durations of 0 to 2 ticks; `fxshow` is what a
  stopped `hide` or `show` remembers.
* `DomTree`: a call is a step on a record of children, cache entries, free ids.
* `PageReadiness`: three kinds of browsers, `holdReady`.
* `WidgetClasses`, `WidgetInstances`: `$.widget` again and again, `_super`, and
  instances that are created, destroyed and removed in each other's handlers. An element
  calls its handlers in the order in which they were bound, which is that of the `uuid`
  of their instances, so a set of handlers is enough.
* `Buttons`, `Dialogs`, `MouseDrags`: what mouse, keys, timers and the page may do. The
  flag `preventClickEvent` is kept per target, as the code keys it by target and widget
  name, and nested draggables share it: the innermost takes it, whoever set it. Dialogs
  keep their option `modal` while they are open.
* `Placement`, `Resizing`: checked over all boxes of a few pixels. A grid may be off,
  positive, or 0 along an axis. `Resizing` has any number for the ratio, the option's or
  the element's own, and reads the shift key at every move, as `_mouseDrag` does.

Some of the libraries' promises have exceptions in the code. A property names its
exception with a variable that says why (`twice`, `spoiled`, `upset`, `broken`,
`torn`), and the hazards in `PROJECT.json` say what then happens.

## 3. Runs

| run | instance | shows |
|---|---|---|
| `merger_calls` | all texts of 1 to 3 lines over a blank and two visible lines, 5 cursors | `RewrittenLinesSurvive`, `CursorKeepsItsPlace` |
| `update` | 3 symmetric threads, 3 calls and a fault from the beginning, or 3 calls after a first version; 2 attempts, texts of two lines; 2 descriptions as long as clocks agree, 1 where they differ by up to 2 versions (`MCClocks`) | `TypeOK`, `MergesAreFaithful`, `AnswersAreCommitted`, `NewestPushIsHead`, `OneHead` and its inductive invariant `OneHeadInv`, and the refinement `SavesAreAtomic` |
| `delete` | 3 calls (one caller has no account), 2 deleters, 1 fault, texts of uneven length and of line ends only, clocks that agree | `RemainsReadable` |
| `pages` | 2 pages, 3 changes, or 2 and a loss; answers in time | `OwnLineStays`, `QuietPagesShowHead`, `TextsFitTheirVersions`, `SavesKeepOthersLines` |
| `pages_rest` | 2 fair pages, 1 reload; 2 changes, by one page or by both, or 1 change with a late answer, a loss or both | `PagesComeToRest` |
| `stale_pages` | a page of either kind, the list of documents, 3 calls, 1 deletion, 1 fault, 2 attempts, 3 texts, clocks that differ by up to 2 versions | `RemainsReadable`, `OrphansOnlyCreate` |
| `typists` | a tester and 2 clients with 2 letters each, 4 attempts, 1 fault, fair | `LettersArrive`, `AllIsTyped` |
| `forms` | 2 editors, 1 listener, 2 documents, 3 saves, 1 or 2 lines; or 2 savers, 2 removers and an author, 3 saves, 2 removals, 2 documents, 2 attempts; or a saver, a remover and 2 readers of the cache, 1 failing query | `FormsKeepToTheirDocument`, `EditsKeepUnseenLines`; `AnsweredSavesCount`, `DeletionsAreMeant`, `AnswersAreRecent` |
| `scripts` | the twelve scripts without timers, each in its instance | `MarksTellTheOrder` (`SortableTables`), `NobodyMissesTheLastValue`, `CalledAsOftenAsAdded` (`CallbackLists`), `AskedIsAnswered` (`AjaxConversions`), `CalledOncePerEvent` (`EventHandlers`), `CacheIsOwned` (`DomTree`), `ModalityHolds` (`Dialogs`), `OnlyDragsSwallowClicks` (`MouseDrags`), `FitsWithin` (`Placement`), `OtherEdgesStay` (`Resizing`), `SuperIsOwn` (`WidgetClasses`), `NoHandlerOutlivesItsWidget` (`WidgetInstances`), `LooksFollowState` (`Buttons`) |
| `timed_scripts` | ajax, effects and readiness; effects and readiness are fair | `StartsAndStopsAlternate` (`AjaxRequests`), `EffectsEnd` (`EffectQueues`), `ReadyComes` (`PageReadiness`) |
| `two_heads`, `slow_answer` | see section 5 | violations of what the repository says |

The definitions named `...TypeOK` of the modules other than `DocumentManager` give
the ranges of variables; no run lists them, and those of `EditorPages`, `FormPages` and
`UserAccounts` are proved, and so are those that `ScriptsProofs` defines for its
invariants (section 4).

`scripts`, `timed_scripts` and `forms` are compositions of parts that share no state: the
variable `script`, or `crew`, is chosen at the start, and the others stay as they were.
Every state of every part is reached, without the product of them all.

Why the bounds are enough for `DocumentManager`. Conflicts are between the head
read, the version the caller started from and what was committed meanwhile: two
threads give every overlap of two transactions, three give a draft that is merged
over a merge while a third commits. A first version and three calls allow two
replacements of the head and a caller still based on the first; `update` starts
them at the commit of the first version (`AtFirstCommit`, a state its threads do
reach), and also from no document at all, where three calls race to create it and
one fault may happen. Two-line texts
over three values tell apart a line only one user rewrote, one both rewrote and
one undone. Two attempts show a retry and a failure; no property of these runs
depends on the number. Calls, deletions and faults are bounded by `MaxCalls`,
`MaxDeletes` and `MaxFaults`, which no code corresponds to; since they run out,
deadlock is not checked. `ClockSkew = 2` lets a version equal the one before it, clash
with a version that is in the table, or be smaller than the head's; `update` (where
the document has one description) and `stale_pages` have it, and the proofs any skew (section 4). `delete` has clocks that
agree, for the part of `RemainsReadable` that asks for it. The
runs of the pages have versions in the order of the commits.

For `StalePages`. Three calls and a deletion are a first version, the deletion, the
same name created again, and a save of a page that was loaded before; or two pages
that were open together, a draft and its merge, and the deletion while either call
runs. `delete` has two deletions. Two attempts let a save fail and look again at what has come meanwhile.

For `EditorPages`. Two pages give every race of a message, an answer and typing of
one page against saves of another, since a page sees others only as versions of
the document. With three changes one page can type while its first request is
under way and again after the answer, over a merge made meanwhile for the
other. `pages` has no late answer because `OwnLineStays` fails with one
(section 5). `pages_rest` has two changes, so that both pages can have a request under
way over the same version: one becomes a draft and its merge, both are pushed, each page
answers the other's push with a request, and that must end. A reload puts a page into
the middle of this. Late and lost answers come with one change, which
leaves both pages something to answer, as each push and each delay does.

For `LineTypists`. An attempt fails only to a commit of another client or to
the one fault, so 4 attempts are enough for two letters of the other client. The
code's 20 attempts can be exceeded only by clients that commit 20 times during one
call.

For `FormPages` and `UserAccounts`. Three saves are a creation, a save of one user
and one of another from an older form; two names are enough for a version under
the wrong name. Two savers and two removers give each look and each commit of one
request against those of another and against a deletion with a new creation; two
attempts are one that is lost to the others and one that succeeds or fails for good. In the
instance with readers `Old`, the oldest age, is beyond the bound that is checked.

For the scripts. The callbacks, handlers and requests are as many as it takes for one
to act on another while a third is waiting: two user functions besides those jQuery
adds, two elements, two requests, two dialogs, two nested draggables, three widget
names, a radio group of two with a checkbox. Calls of scripts are bounded (`MaxFires`,
`MaxListCalls`, `MaxBound`, `MaxTriggered`, `MaxCalls`, `MaxEffects`, `MaxStops`,
`MaxInstances`, `MaxDefinitions`, `MaxFrames`, `MaxHolds`, `MaxDelays`, `MaxShows`,
`MaxTimers`, `MaxResets`) at what lets each such case happen: two to four.
`Placement` and `Resizing` are linear in pixels but for a rounding to the grid; a few
pixels on each side of each threshold make every case.

Fairness. `EditorPages`: the browser runs timers and callbacks
(`TimerFires`, `RefreshIfNeeded`, `Answered`), time passes (`AnswerIsMissing`), the
service gets to the requests (`ServeAny`); none of these is ever disabled by
another page for good. `LineTypists`: its threads and those of the service, which the
container runs; no step of a call waits for another thread. `EffectQueues`: a call goes on, the interval
ticks, delays end. `PageReadiness`: the browser loads the document and runs its timers.
Users, the connection of a websocket, scripts' calls, faults, losses, late answers and
deletions are never fair.

## 4. Proofs

All for any constants that satisfy the assumptions of the modules: any sets of
threads, texts, pages and names, any number of retries, any bounds. A theorem that
asks for more says so in its statement. Each inductive invariant, and each of its
parts where it has several layers, holds in TLC on the instance of its component's run.

### SimpleMergerProofs, MergerCallsProofs

`MergedTextType`: a merge that does not throw returns a text. `VisibleTextsStayWhole`:
a text that ends in a visible line loses nothing when it is split, which is what the
pages and the typists rely on.

`RewrittenLinesAlwaysSurvive` follows line by line from the loops.
`CursorAlwaysKeepsItsPlace` needs what the two counters of the loop, which are
recursive functions, contain for texts of any length. The library's induction theorems
take an operator and cannot be used, but the subset ordering of finite sets is
well-founded by a theorem about sets. From it come `SmallestNumber` (a set of numbers
has a smallest one) and `StepByStep` (induction from 1 to n + 1 over membership in a
set), and from these `RunningSumsAt` (the recursion has a solution, which is unique),
`SumsAdd` and `SumsKeep`. `CorrectionAt` then says: before the cursor's line k each
line of the merge is longer than the user's by what was added to the correction, and
no line from k on is added, since k is the user's own and the rest start after the
cursor.

### DocumentManagerProofs

* `TypeCorrect`: `Spec => []TypeOK`, deletions included. The inductive invariant adds
  `AtWork` (a running thread has its arguments, a committing one its answer).
* `OneHeadInductive`, `OneHeadAlways`: `UpdateSpec => []OneHead`. `OneHead` is not
  inductive: that a commit moves the head needs that the row it was read from is
  still there. `OneHeadInv` adds: keys are unique; every previousVersion is
  `NoVersion`, and then once, or the version of a row that is there; what a thread
  has seen stays in the table; a transaction stages one version on top of a row
  that is there and otherwise drafts. The heart is the lemma `InsertMovesHead`
  about the table alone: whoever inserts on top of a row can do so only if that
  row has no successor, so it was the head, and the new row is now the only one.
  Deletions break the third part, which is what `two_heads` shows.
* `MergesAlwaysFaithful`, `AnswersAlwaysCommitted`: from `HistoryInv`, which is
  `OneHeadInv` and `WorkInv`: what a thread has read is published, and what it has
  staged and will answer is made of rows that are in the table. Three reads of
  different moments lie between them, so each says from which read it stems.
* `SavesAlwaysAtomic`: the refinement of `HeadHistory`, step by step. Every step but a
  commit stutters. `CommitReplacesHead` is the point: the row that the transaction
  read may be old, but the unique constraint lets the commit through only if it
  is the head at that moment, and so the abstract save may read and write at once.
* `HeadAlwaysAnnounced`: as long as nothing has failed, the head has been pushed, or a
  thread that will push it has committed it (`KnownVersions`, `HeadIsAnnounced`).
* `NewestPushAlwaysHead`: with all threads at rest and no fault the head has been pushed,
  and no other pushed version exceeds it by the skew or more, for any skew
  (`VersionsAreOrdered`: no version is newer than the head by that much). With clocks that
  agree it is the newest. The bound is what the clocks allow: section 5 has
  the case of a head with the smaller version.
* `AlwaysReadable`, deletions included, where `OneHead` fails. For any skew: a row that
  tells of a merge has its other half, since both are inserted by one commit and
  deleted by one, which takes all rows its query found (`HalvesInv`). The rest of
  `RemainsReadable` says `ClockSkew = 0` itself: there no row refers to a newer one, so
  the newest row that is no draft is a head (`DeletionInv`: `RowsAreFresh`,
  `StagedIsWhole`, `RowsAreWhole`). With skewed clocks a version may be generated again
  after its row was deleted, by a save that has read that row; what it stores is then its
  own previous version.
* `OrphansAlwaysOnlyCreate`: `StaleSpec => []OrphansOnlyCreate`, for any skew and without
  an assumption. The two queries of `createOrUpdate` and its commit may each fall
  on either side of a deletion and of a creation; but only a transaction that has read a row with
  the version it names goes past line 71, and without such a row all it can insert is
  a first version (`OrphanInv`: `OrphanKnowsNobody`).

Its fourth part is about the clients of the acceptance test. `TypistsUseTheService`: `TypistsSpec => UpdateSpec`, so the theorems about the service
hold of the acceptance test. `LettersAlwaysArrive`: its assertion, for any number of
clients and letters, any retries, faults and clock skew. The invariant
`LettersInv` relates the table to the clients' counters: every row has, on each
client's line, no more letters than were typed, and nothing else differs
(`TableFits`); the head has on every line at least what any version has (`HeadIsAhead`);
a transaction of a client stages the head that it read with the client's line in its
place, whichever of the paths it took (`ClientFits`, `Replaces`). The last holds also
for a retry, which finds its own line in the head already. It needs `HistoryInv`: what
a client saves over must be a published row and the head read must be the head replaced.

### EditorPagesProofs

* `PagesTypeCorrect`; `PagesInv` adds that requests, answers and pushed versions are
  of pages and rows that there are.
* `TextsAlwaysFit`: from `FitInv`, while no answer is late: the version a page names is a row with the text the
  page has sent, or an answer or a request is under way that explains the difference.
* `OwnLineAlwaysStays`, `QuietPagesAlwaysShowHead`, `SavesAlwaysKeepOthersLines`: from
  `StayInv`, under `Undisturbed`: no late answer and no reload. The first is
  needed: with a late answer `OwnLineStays` is false (`slow_answer`). A reload leaves a
  request of the old page behind; the run `pages` has none. Losses are allowed up to
  what the properties themselves say. Websockets are connected at any time: that a
  page at rest shows the head follows for all pages but those in `missed`, which may
  be behind (section 5).

The three invariants are layers, `PagesInv`, then `FitInv`, then `StayInv`, each proved
with the one before. The texts fit only because nobody adds or removes lines and the
last line is visible (`PagesAssumption`).

### FormPagesProofs

`FormsTypeCorrect`, `FormsAlwaysKeepToTheirDocument`, `EditsAlwaysKeepUnseenLines`. These
are about documents that nobody deletes, since a save is one step here. The lemma
`SavesAreHistorySteps` links that step to the one the transactions implement: each
document's saves, made through forms that may hold
a version of another document, are a `HeadHistory`. An attempt to prove an earlier
form of `EditsKeepUnseenLines` showed that it was too strong: a line that others cut
off the end of a text comes back with the text of a user who still has it
(`SimpleMerger.java:48-54`); the property is about the lines that the head has. That a
user edits or only listens (`Editors`, `Listeners` disjoint) is assumed. The lemmas on
`SaveService` are in `SaveServiceProofs`: `HeadIsCurrent`, `SaveCases`,
`InsertKeepsSound`, `SaveKeepsSound`.

### UserCacheProofs

* `AccountsTypeCorrect`, with the ranges of `UserAccounts`.
* `AnsweredSavesAlwaysCount`, `DeletionsAlwaysMeant`: step properties; the invariant
  `AccountsInv` relates what a request has looked up to ids that were given out.
* `AnswersAlwaysRecent`: for any life time and any delay of requests. The
  invariant bounds, for each place a reader can be at, the age of the map it has
  by the sum of the delays until there.

### ScriptsProofs

Each of these scripts has an invariant of its own that implies its property; they share
no state, so the theorems need nothing of each other. Together they cover twelve of
the fourteen invariants of the runs `scripts` and `timed_scripts`:

* `AjaxTheorem` (`StartsAndStopsAlternate`), for any number of requests. `AjaxInv` says
  what `jQuery.active` is: the number of requests that were counted and are not counted
  down (`ActiveIsCounted`), where a request owes its count from `ajax` until the call of
  `done` for it has come to its end. That needs to know the calls on the stack
  (`FramesFit`: at most one call of `ajax` and one of `done` per request, and how far
  the request is then) and which transports can still answer (`TransportsFit`). The log
  is then in order because it is open exactly while requests are counted (`LogInv`).
  All of this is under `twice = {}`: a request that a handler of `ajaxSend` aborts is
  counted down twice, and nothing is left of the invariant.
* `TablesTheorem` (`MarksTellTheOrder`): one header at most is marked, and never before
  `sorttable.init`; a click reverses the rows or sorts them and moves the mark with them
  (`TableInv`). The lemma `ReverseTwice` is the reason why a third click is right again.
* `ConversionsTheorem` (`AskedIsAnswered`): the list of types grows while
  `ajaxConvert` walks through it, but at its end there is always the type that was
  asked for, and what is converted is always of the type the walk is at
  (`ListLeadsThere`).
* `ButtonsTheorem` (`LooksFollowState`): a toggle that heard of every change and awaits no
  reset looks like its state; a link that looks pressed is held by a key or by the mouse
  that is still on it (`ButtonsInv`).
* `DragsTheorem` (`OnlyDragsSwallowClicks`): a draggable that follows the mouse took the
  press, hears of what happens on its target, and has removed the flag of that target,
  whichever draggable had set it (`FollowersTookPress`).
* `InstancesTheorem` (`NoHandlerOutlivesItsWidget`): what an event is still to call was
  bound by an instance that lives, that was torn or that was destroyed by this event.
* `SuperTheorem` (`SuperIsOwn`): each call has saved the `_super` of the one below it.
* `DialogsTheorem` (`ModalityHolds`): the counter of overlays is the number of open modal
  dialogs (`OverlaysAre`), and each of these has its overlay in the document once
  (`LayersAre`), through every raising, closing and destroying. An element that shows or
  hides does so in turn, so the wrapper of an open dialog is visible (`FadesOf`), and while
  the trap for the focus is missing the delay that sets it goes on (`TrapsAre`).
* `ListsTheorem` (`NobodyMissesTheLastValue`): of a list that remembers a value, all that
  the loop has behind it were called with the value (`MemoryIs`), and the loop knows the
  length of its list (`FiringIs`), as long as no exception left it and nobody emptied the
  list under it. The hard step is `remove` by a callback that is being called
  (`RemoveFromIs`): as many places in front of the loop are gone as it moves back, so that
  what is behind it now was behind it before.
* `EventsTheorem` (`CalledOncePerEvent`): a handler has the number of its binding, and so one
  element whose lists it can be in. An event under way comes to no element twice
  (`EventFits`: its path does not repeat, and an element's handle has its turn once), and
  has called nothing that is in its queue or at an element still to come (`NotYetCalled`).
  So what `dispatch` finds at an element, by delegation or not, was not called for the
  event; that it finds nothing twice is `QueueIs`. The event that the default action makes
  finds nothing as long as `jQuery.event.triggered` says what it is (`DefaultTold`), which
  a trigger inside the default action of another ends too early: hence `spoiled`.
* `PlacementTheorem` (`FitsWithin`), `EdgesTheorem` (`OtherEdgesStay`): case by case
  through `fit`, `flip` and the grid, and through `_change`, `_updateRatio` and
  `_respectSize`, over all integers and ratios. The invariant of the latter is the property
  itself: `_respectSize` takes the lower edge from the last move, which is right because
  the move before kept it.

`DialogsTheorem`, `ListsTheorem` and `EventsTheorem` rest on `RanksAreTaken`: counting, for each element of a finite set, those
that an order has in front of it numbers the set from 1 without a gap. It follows from
theorems about cardinalities, without induction, and gives what is needed to know of a
sequence that was sorted (`ReorderedIsSame`) or filtered (`ChosenIsFrom`).

Some attempts changed the models. `FitsWithin` is false for a container that begins left
of the page's edge, which no instance had: the property now says so (`WithinOffset`). The
set `Rows`, and the levels of classes, must be finite. And what was a fold over a
sequence of clicks, or a filtered sequence of handlers, became steps and sets, which
is closer to the code for the clicks, and says the same for the handlers. For dialogs,
callback lists and handlers of events `SelectSeq` and folds were replaced by `Orders`; the
reachable states are the same. `EventsTheorem` assumes that elements are a tree, as they are
in a document (`TreeAssumption`).

### What stays with TLC

* Liveness: `PagesComeToRest`, `AllIsTyped`, `EffectsEnd`, `ReadyComes`. Fairness and
  `ENABLED` are out of the prover's reach.
* `CalledAsOftenAsAdded` (`CallbackLists`) and `CacheIsOwned` (`DomTree`). What their steps
  do is a computation over data of any size: callbacks that jQuery's own callbacks add and
  call in turn, a tree. The models say it with folds and recursive operators, and proofs
  about them would be inductions over data. (The operator `FoldRight` occurs in `CallbackLists`
  too, for `always`, `then` and `when`; the theorem about lists that users made by
  `Callbacks` does not touch it.)

## 5. Where the code and its documents disagree

* `two_heads`: `README.txt:79` says the unique constraint guarantees one head. A
  save that read the head before a deletion inserts a row on top of a version that
  is gone; if the document was created again meanwhile, it has two heads and every
  later `findByName` throws.
* `slow_answer`: `Document.xhtml:133` says that the text area is replaced when there
  were "no changes during update request". After 2000 ms a second request sets
  `sentContents`; the late answer to the first is then taken for an answer to the
  second, and the text area loses what was typed between.

Seen while modelling, without a run of its own:

* `README.txt:60` says that users see each other's changes in real time. A
  version that is pushed between the loading of a page and the connection of its websocket
  is not announced to it, and nothing asks again (`regularRefresh` is commented out):
  the connected page goes on showing the old text. `QuietPagesShowHead` therefore leaves
  out the pages in `missed`.
* `DocumentCreatePageBean.java:14` says a document can be created over an
  existing one, which overwrites it. Version "0" is not found, so this fails in each
  attempt (`PreviousNotFound`) and changes nothing, which `FormsKeepToTheirDocument` states.
* `DocumentManagerBean.java:77` says an unchanged description is skipped; in the merge
  path a caller's description that equals its own old version's is written over a
  newer one (`MergeIntoHead`).
* A page shows an old text also when a request is lost, since no one repeats it: the
  reason why `QuietPagesShowHead` asks for `lost = 0`.
* A page of `DocumentJSF.xhtml` for a document that is not there has null for its
  description, and so cannot save its first version (`ContentsValueChange`).
* `jquery-ui-1.10.2.custom.js:1951`: a drag in a grid may end outside of its containment,
  by less than a step, since a place that is not before the containment is never
  taken back; and a press that no draggable takes leaves an old flag of its target,
  so that its click is swallowed (`_mouseInit`, line 848).
* When the answer to a saved text is lost and its user takes the change back, the next
  request is one without changes over the old version, and the change stays: the
  reason why `OwnLineStays` asks for `lost = 0`.
* `Document.xhtml:89` compares versions by size. With `ClockSkew > 0` a newer head
  may have the smaller version, and a page ignores it.
* A first save whose push fails after the commit is retried with version `""`,
  which no row has by then, so that it fails in every attempt although it is stored.
* `components/sortable.xhtml:31` calls `updatePermaLink`, which is defined nowhere:
  the handler throws before "Rows displayed" is set, and the script of lines
  35-36 counts the rows before they are parsed, so it shows 0.
* `sorttable.js:307`: a blank cell in a column of dates makes the sort function throw
  after the header was marked.
* `jquery-1.9.1.js:7966`: a request that a handler of `ajaxSend` aborts is done twice
  and counted down twice, though line 7995 says "Called once".

## 6. What could come next

1. The deferreds of `CallbackLists` with their calls of `add` as steps, so that the argument
   of `ListsTheorem` extends to them.
2. `RestErrors`: exceptions to messages and back (`FrontendExceptionMappers`,
   `AbstractRestClient`), as a function over the kinds of exceptions.
3. The list of names that the edit page queries once per rendering.

## 7. Not modelled

* `expand-collapse.js`: each handler is one assignment to a style.
* Of jQuery the selector engine, attributes, styles, offsets, support tests and
  serialisation, which keep no state or depend on the browser; of jQuery UI scrolling,
  snapping, stacking, selecting, the effects and the looks.
* Login and session: the redirects of the phase listener and logging out; the session
  is a user name, the filters are not registered, and the REST service does not ask
  for a session.
* The form of `UserEdit.xhtml` while it is filled in: its fields are the inputs of
  `StartSave`.
* REST clients, the profiler (test instrumentation), utilities, getters, page layout
  and deployment.
