----------------------------- MODULE EditorPages -----------------------------
(***************************************************************************)
(* The pages of webapp/Document.xhtml that show one document in several    *)
(* browsers, with the requests, answers and websocket messages between     *)
(* them and the service.                                                   *)
(*                                                                         *)
(* Every user types in a line of its own (README.txt:90, "users rarely     *)
(* edit the same line").  Time is left out but for the 2000 ms after which *)
(* a page stops waiting for an answer.  Nobody deletes the document: then  *)
(* a save is one step (SavesAreAtomic); StalePages has the deletions.      *)
(***************************************************************************)
EXTENDS SaveService, Bags, BagsExt

CONSTANTS
  Description, \* the description of the document
  Pages,      \* browser pages
  Gone,       \* a page that was left
  OwnLine,    \* the line that the user of a page types in
  Start,      \* the text of the document before anyone opens it
  MaxTyped,   \* bound: changes the users make
  MaxSlow,    \* bound: answers that come after 2000 ms
  MaxLost,    \* bound: requests and answers that are lost
  MaxReloads  \* bound: pages that are loaded anew

\* A merge gets rid of empty lines at the end (SimpleMerger.java:8); here there are none.
ASSUME PagesAssumption ==
  /\ Descriptions = {Description}
  /\ Start \in Text
  /\ Start[Len(Start)] # Blank
  /\ OwnLine \in [Pages -> DOMAIN Start]
  /\ \A p, q \in Pages : OwnLine[p] = OwnLine[q] => p = q
  /\ MaxTyped \in Nat
  /\ MaxSlow \in Nat
  /\ MaxLost \in Nat
  /\ MaxReloads \in Nat
  /\ Gone \notin Pages

VARIABLES
  rows,               \* the committed rows of the document
  clock,              \* the newest version that was generated
  missed,             \* pages that a version was pushed past before they were
                      \* connected, and that the service has not answered since
  socket,             \* whether a page is loaded and listens
  loaded,             \* what its DocumentPageBean has loaded
  text,               \* the value of the text area
  currentVersion,     \* the version the page believes it is based on
  sentContents,       \* the text of its last request
  requestInProgress,  \* it waits for an answer
  overdue,            \* it has waited for 2000 ms (lastRun)
  timers,             \* delayed calls of contentUpdated
  inbox,              \* websocket messages on their way or delayed
  requests, answers,  \* the POSTs that are under way
  typed,              \* what the user has put in the line last
  edits, slow, lost, reloads  \* counters for the bounds

server  == << rows, clock, missed >>
page    == << socket, loaded, text, currentVersion, sentContents, requestInProgress,
              overdue, timers >>
network == << inbox, requests, answers >>
bounds  == << edits, slow, lost, reloads >>
vars    == << server, page, network, typed, bounds >>

Request == [page : Pages \cup {Gone}, contents : Text, base : Version]
Answer  == [page : Pages, document : Row, savedVersion : Version \cup {NoVersion}]

\* A page is based on a version once it is loaded, and whatever it sends names one.
TypeOK ==
  /\ rows \subseteq Row
  /\ clock \in Version
  /\ missed \subseteq Pages
  /\ socket \in [Pages -> {"closed", "loaded", "listening"}]
  /\ \A p \in Pages : loaded[p] \in IF socket[p] = "closed" THEN {NoRow} ELSE Row
  /\ text \in [Pages -> Text]
  /\ \A p \in Pages : currentVersion[p] \in
       IF socket[p] = "closed" THEN {NoVersion} ELSE Version
  /\ sentContents \in [Pages -> Text]
  /\ requestInProgress \in [Pages -> BOOLEAN]
  /\ overdue \in [Pages -> BOOLEAN]
  /\ timers \in [Pages -> Nat]
  /\ \A p \in Pages : IsABag(inbox[p]) /\ BagToSet(inbox[p]) \subseteq Version
  /\ IsABag(requests) /\ BagToSet(requests) \subseteq Request
  /\ IsABag(answers) /\ BagToSet(answers) \subseteq Answer
  /\ typed \in [Pages -> Line]
  /\ edits \in 0..MaxTyped
  /\ slow \in 0..MaxSlow
  /\ lost \in 0..MaxLost
  /\ reloads \in 0..MaxReloads

\* A page that is not loaded shows nothing.
Init ==
  /\ clock = 1
  /\ rows = {MakeRow(clock, NoVersion, NoVersion, Description, Start)}
  /\ missed = {}
  /\ socket = [p \in Pages |-> "closed"]
  /\ loaded = [p \in Pages |-> NoRow]
  /\ text = [p \in Pages |-> << Blank >>]
  /\ currentVersion = [p \in Pages |-> NoVersion]
  /\ sentContents = [p \in Pages |-> << Blank >>]
  /\ requestInProgress = [p \in Pages |-> FALSE]
  /\ overdue = [p \in Pages |-> FALSE]
  /\ timers = [p \in Pages |-> 0]
  /\ inbox = [p \in Pages |-> EmptyBag]
  /\ requests = EmptyBag
  /\ answers = EmptyBag
  /\ typed = [p \in Pages |-> Blank]
  /\ edits = 0
  /\ slow = 0
  /\ lost = 0
  /\ reloads = 0

-----------------------------------------------------------------------------
(* contentUpdated                                                          *)

\* The page postpones a request.
MustWait(p) == requestInProgress[p] /\ ~overdue[p]

\* Mutant: the postponed call is forgotten.
ContentUpdatedOnce(p, contents, pending) ==
  \/ /\ MustWait(p)
     /\ timers' = [timers EXCEPT ![p] = pending]
     /\ UNCHANGED << sentContents, requestInProgress, overdue, requests >>
  \/ /\ ~MustWait(p)
     /\ timers' = [timers EXCEPT ![p] = pending]
     /\ sentContents' = [sentContents EXCEPT ![p] = contents]
     /\ requestInProgress' = [requestInProgress EXCEPT ![p] = TRUE]
     /\ overdue' = [overdue EXCEPT ![p] = FALSE]
     /\ requests' = BagAdd(requests, [page |-> p, contents |-> contents,
                                      base |-> currentVersion[p]])

\* The text area holds contents and pending calls of this function are delayed:
\* another one is, or the text is sent.
ContentUpdated(p, contents, pending) ==
  \/ /\ MustWait(p)
     /\ timers' = [timers EXCEPT ![p] = pending + 1]
     /\ UNCHANGED << sentContents, requestInProgress, overdue, requests >>
  \/ /\ ~MustWait(p)
     /\ timers' = [timers EXCEPT ![p] = pending]
     /\ sentContents' = [sentContents EXCEPT ![p] = contents]
     /\ requestInProgress' = [requestInProgress EXCEPT ![p] = TRUE]
     /\ overdue' = [overdue EXCEPT ![p] = FALSE]
     /\ requests' = BagAdd(requests, [page |-> p, contents |-> contents,
                                      base |-> currentVersion[p]])

-----------------------------------------------------------------------------
(* The page                                                                *)

\* DocumentPageBean.loadDocument, and the script starts with what it found.
Open(p) ==
  /\ socket[p] = "closed"
  /\ LET head == CurrentHead(rows)
     IN  /\ loaded' = [loaded EXCEPT ![p] = head]
         /\ text' = [text EXCEPT ![p] = head.contents]
         /\ currentVersion' = [currentVersion EXCEPT ![p] = head.version]
         /\ typed' = [typed EXCEPT ![p] = head.contents[OwnLine[p]]]
  /\ socket' = [socket EXCEPT ![p] = "loaded"]
  /\ missed' = missed \ {p}
  /\ UNCHANGED << rows, clock, sentContents, requestInProgress, overdue, timers, network, bounds >>

\* The page's websocket is connected.  Nobody asks then what was pushed before.
Connect(p) ==
  /\ socket[p] = "loaded"
  /\ socket' = [socket EXCEPT ![p] = "listening"]
  /\ UNCHANGED << server, loaded, text, currentVersion, sentContents, requestInProgress,
                  overdue, timers, network, typed, bounds >>

\* The user changes the line, to something that can be seen; oninput.
Type(p) ==
  /\ socket[p] # "closed"
  /\ edits < MaxTyped
  /\ edits' = edits + 1
  /\ \E line \in Line \ {Blank, text[p][OwnLine[p]]} :
       LET contents == [text[p] EXCEPT ![OwnLine[p]] = line]
       IN  /\ text' = [text EXCEPT ![p] = contents]
           /\ typed' = [typed EXCEPT ![p] = line]
           /\ ContentUpdated(p, contents, timers[p])
  /\ UNCHANGED << server, socket, loaded, currentVersion, inbox, answers, slow, lost,
                  reloads >>

\* A delayed call of contentUpdated.
TimerFires(p) ==
  /\ timers[p] > 0
  /\ ContentUpdated(p, text[p], timers[p] - 1)
  /\ UNCHANGED << server, socket, loaded, text, currentVersion, inbox, answers, typed,
                  bounds >>

\* multieditorWebsocketListener, and refreshIfNeeded 100 or 500 ms later: the
\* version is compared then.
RefreshIfNeeded(p) ==
  \E version \in BagToSet(inbox[p]) :
    /\ inbox' = [inbox EXCEPT ![p] = BagRemove(@, version)]
    /\ IF version > currentVersion[p]
       THEN ContentUpdated(p, text[p], timers[p])
       ELSE UNCHANGED << sentContents, requestInProgress, overdue, timers, requests >>
    /\ UNCHANGED << server, socket, loaded, text, currentVersion, answers, typed, bounds >>

\* Mutant: the answer is shown without a look at what was typed meanwhile.
ShowAnswer(p) ==
  \E answer \in BagToSet(answers) :
    /\ answer.page = p
    /\ answers' = BagRemove(answers, answer)
    /\ requestInProgress' = [requestInProgress EXCEPT ![p] = FALSE]
    /\ overdue' = [overdue EXCEPT ![p] = FALSE]
    /\ currentVersion' = [currentVersion EXCEPT ![p] = answer.document.version]
    /\ text' = [text EXCEPT ![p] = answer.document.contents]
    /\ UNCHANGED << server, socket, loaded, sentContents, timers, inbox, requests, typed,
                    bounds >>

\* Mutant: the version of the merge is taken even when the text is kept.
TakeMergedVersion(p) ==
  \E answer \in BagToSet(answers) :
    /\ answer.page = p
    /\ answers' = BagRemove(answers, answer)
    /\ requestInProgress' = [requestInProgress EXCEPT ![p] = FALSE]
    /\ overdue' = [overdue EXCEPT ![p] = FALSE]
    /\ currentVersion' = [currentVersion EXCEPT ![p] = answer.document.version]
    /\ text' = IF text[p] = sentContents[p]
               THEN [text EXCEPT ![p] = answer.document.contents]
               ELSE text
    /\ UNCHANGED << server, socket, loaded, sentContents, timers, inbox, requests, typed,
                    bounds >>

\* Mutant: the page keeps its old version with the text it is shown.
ShowWithoutVersion(p) ==
  \E answer \in BagToSet(answers) :
    /\ answer.page = p
    /\ answers' = BagRemove(answers, answer)
    /\ requestInProgress' = [requestInProgress EXCEPT ![p] = FALSE]
    /\ overdue' = [overdue EXCEPT ![p] = FALSE]
    /\ text' = IF text[p] = sentContents[p]
               THEN [text EXCEPT ![p] = answer.document.contents]
               ELSE text
    /\ UNCHANGED << server, socket, loaded, currentVersion, sentContents, timers, inbox,
                    requests, typed, bounds >>

\* The success callback.  A user who did not go on typing is shown the document;
\* otherwise the next text is based on the one that was sent.
Answered(p) ==
  \E answer \in BagToSet(answers) :
    /\ answer.page = p
    /\ answers' = BagRemove(answers, answer)
    /\ requestInProgress' = [requestInProgress EXCEPT ![p] = FALSE]
    /\ overdue' = [overdue EXCEPT ![p] = FALSE]
    /\ \/ /\ text[p] = sentContents[p]
          /\ currentVersion' = [currentVersion EXCEPT ![p] = answer.document.version]
          /\ text' = [text EXCEPT ![p] = answer.document.contents]
       \/ /\ text[p] # sentContents[p]
          /\ currentVersion' = IF answer.savedVersion # NoVersion
                               THEN [currentVersion EXCEPT ![p] = answer.savedVersion]
                               ELSE currentVersion
          /\ UNCHANGED text
    /\ UNCHANGED << server, socket, loaded, sentContents, timers, inbox, requests, typed,
                    bounds >>

UnderWay(p) == {x \in BagToSet(requests) \cup BagToSet(answers) : x.page = p}

\* 2000 ms after it was sent the request is still under way, or it never was
\* or will be answered.
Overdue(p) ==
  /\ MustWait(p)
  /\ overdue' = [overdue EXCEPT ![p] = TRUE]
  /\ UNCHANGED << server, socket, loaded, text, currentVersion, sentContents,
                  requestInProgress, timers, network, typed, edits, lost, reloads >>

AnswerIsLate(p) ==
  /\ UnderWay(p) # {}
  /\ slow < MaxSlow
  /\ slow' = slow + 1
  /\ Overdue(p)

AnswerIsMissing(p) ==
  /\ UnderWay(p) = {}
  /\ Overdue(p)
  /\ UNCHANGED slow

-----------------------------------------------------------------------------
(* Leaving a page                                                          *)

\* What is under way of other pages, and the requests of a page that was left.
OfOthers(bag, p) == [x \in {y \in BagToSet(bag) : y.page # p} |-> bag[x]]

Orphans(p) ==
  [x \in {[y EXCEPT !.page = Gone] : y \in {z \in BagToSet(requests) : z.page = p}} |->
     requests[[x EXCEPT !.page = p]]]

\* The page and its script are gone; what it has sent goes on without it.
Leave(p) ==
  /\ socket' = [socket EXCEPT ![p] = "closed"]
  /\ loaded' = [loaded EXCEPT ![p] = NoRow]
  /\ text' = [text EXCEPT ![p] = << Blank >>]
  /\ currentVersion' = [currentVersion EXCEPT ![p] = NoVersion]
  /\ sentContents' = [sentContents EXCEPT ![p] = << Blank >>]
  /\ requestInProgress' = [requestInProgress EXCEPT ![p] = FALSE]
  /\ overdue' = [overdue EXCEPT ![p] = FALSE]
  /\ timers' = [timers EXCEPT ![p] = 0]
  /\ typed' = [typed EXCEPT ![p] = Blank]
  /\ requests' = OfOthers(requests, p) (+) Orphans(p)
  /\ answers' = OfOthers(answers, p)

\* The user loads the page anew; Open follows.
Reload(p) ==
  /\ socket[p] # "closed"
  /\ reloads < MaxReloads
  /\ reloads' = reloads + 1
  /\ Leave(p)
  /\ inbox' = [inbox EXCEPT ![p] = EmptyBag]
  /\ UNCHANGED << server, edits, slow, lost >>

-----------------------------------------------------------------------------
(* The service and the network                                             *)

\* The inboxes after the push, which goes to every page that listens unless the
\* sender has this version.
Pushed(version, base) ==
  [p \in Pages |-> IF socket[p] = "listening" /\ version # base
                   THEN BagAdd(inbox[p], version)
                   ELSE inbox[p]]

\* The pages that have then missed something.
MissedBy(version, base) == {p \in Pages : socket[p] = "loaded" /\ version # base}

SavedBy(request) ==
  Save(rows, MakeCall(request.contents, Description, request.base), clock + 1, clock + 2)

\* The text is saved, everyone hears of a version that the page did not know,
\* and the page is answered.  (No version goes away here, so no save fails but by
\* chance: LoseRequest.)
Serve(request) ==
  LET saved == SavedBy(request)
  IN  /\ saved # Failed
      /\ requests' = BagRemove(requests, request)
      /\ rows' = rows \cup saved.new
      /\ clock' = clock + Cardinality(saved.new)
      /\ answers' = IF request.page = Gone THEN answers
                    ELSE BagAdd(answers, [page |-> request.page, document |-> saved.document,
                                          savedVersion |-> saved.savedVersion])
      /\ inbox' = Pushed(saved.document.version, request.base)
      /\ missed' = (missed \cup MissedBy(saved.document.version, request.base))
                      \ {request.page}
      /\ UNCHANGED << page, typed, bounds >>

\* There is no error callback: the page does not hear of it, nor of a status 500 after
\* the last attempt.
LoseRequest(request) ==
  /\ lost < MaxLost
  /\ lost' = lost + 1
  /\ requests' = BagRemove(requests, request)
  /\ UNCHANGED << server, page, inbox, answers, typed, edits, slow, reloads >>

LoseAnswer(answer) ==
  /\ lost < MaxLost
  /\ lost' = lost + 1
  /\ answers' = BagRemove(answers, answer)
  /\ UNCHANGED << server, page, inbox, requests, typed, edits, slow, reloads >>

-----------------------------------------------------------------------------

ServeAny == \E request \in BagToSet(requests) : Serve(request)
LoseAny  == \/ \E request \in BagToSet(requests) : LoseRequest(request)
            \/ \E answer \in BagToSet(answers) : LoseAnswer(answer)

PageNext(p) ==
  \/ Open(p) \/ Connect(p) \/ Type(p)
  \/ TimerFires(p) \/ RefreshIfNeeded(p) \/ Answered(p)
  \/ AnswerIsLate(p) \/ AnswerIsMissing(p)
  \/ Reload(p)

Next == ServeAny \/ LoseAny \/ \E p \in Pages : PageNext(p)

Spec == Init /\ [][Next]_vars

\* The browser runs every callback, time passes, and the service gets to every
\* request that is not lost.  Nothing makes a user open a page or type.
Fairness ==
  /\ WF_vars(ServeAny)
  /\ \A p \in Pages : /\ WF_vars(TimerFires(p))
                      /\ WF_vars(RefreshIfNeeded(p))
                      /\ WF_vars(Answered(p))
                      /\ WF_vars(AnswerIsMissing(p))

FairSpec == Spec /\ Fairness

-----------------------------------------------------------------------------
(* Correctness                                                             *)

DocumentHead == CurrentHead(rows)

\* Document.xhtml:127-152, "no changes during update request hence we may
\* update the textarea".  What a page shows in its user's line is what the
\* user has put there last, whatever is merged and shown meanwhile.  (When an
\* answer is lost, a user who takes back the change that was saved is not believed.)
OwnLineStays ==
  lost = 0 =>
    \A p \in Pages : socket[p] # "closed" => text[p][OwnLine[p]] = typed[p]

\* Document.xhtml:146-150.  A text is sent with the version it was typed over:
\* it differs from it at most in the line of its user, so a save leaves the
\* lines of all others in the head as they are.
SavesKeepOthersLines ==
  [][rows' # rows =>
       LET before == DocumentHead.contents
           after  == DocumentHead'.contents
       IN  \A p \in Pages :
             after[OwnLine[p]] # before[OwnLine[p]] =>
               \E request \in BagToSet(requests) :
                 /\ request.page = p
                 /\ requests' = BagRemove(requests, request)]_vars

\* Nothing is going to happen unless a user types.
Quiet ==
  /\ requests = EmptyBag
  /\ answers = EmptyBag
  /\ \A p \in Pages : timers[p] = 0 /\ inbox[p] = EmptyBag

ShowsHead(p) ==
  /\ text[p] = DocumentHead.contents
  /\ text[p][OwnLine[p]] = typed[p]

\* README.txt:60, "the users see changes of each other in the realtime", with
\* Document.xhtml:106, "make sure we won't miss an update": when everything has
\* come to rest, and nothing was lost on the way, every page shows the head and the
\* head has what was typed.  Only a page that a version was pushed past before its
\* websocket was connected (Document.xhtml:39) may wait for the next one.
QuietPagesShowHead ==
  lost = 0 /\ Quiet =>
    \A p \in Pages : socket[p] # "closed" /\ p \notin missed => ShowsHead(p)

\* Document.xhtml:87-94 and :104-110.  Pages that answer each other's messages
\* with requests, and requests with messages, do come to rest.
PagesComeToRest == <>[]Quiet

\* Document.xhtml:118-123 and :146-150.  Although a request may fail or its answer
\* be lost, what a page shows is the text of its version but for the line of its
\* user, so that whatever is sent next brings in that line and undoes no other.
TextsFitTheirVersions ==
  slow = 0 =>
    \A p \in Pages :
      LET base == FindByNameAndVersion(rows, currentVersion[p])
      IN  base # NoRow =>
            \A i \in DOMAIN text[p] \ {OwnLine[p]} : text[p][i] = base.contents[i]
=============================================================================
