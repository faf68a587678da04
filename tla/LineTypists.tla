----------------------------- MODULE LineTypists -----------------------------
(***************************************************************************)
(* The clients of test-ear/.../TestDocumentServiceClient.java over the     *)
(* concurrent transactions of DocumentManager: each types letters at the   *)
(* end of a line of its own, each letter into the document that the call   *)
(* before returned.                                                        *)
(*                                                                         *)
(* A line is the number of its letters.                                    *)
(***************************************************************************)
EXTENDS DocumentManager

CONSTANTS
  Tester,   \* the thread that creates the document and starts the others
  OwnLine,  \* the line that a client finds by its prefix
  Start,    \* the text that the document is created with
  Letters   \* how many letters a client types

Typists == Callers \ {Tester}

\* The document when each client c has typed number[c] letters.
WithLetters(number) ==
  [i \in DOMAIN Start |->
     IF \E c \in Typists : OwnLine[c] = i
     THEN Start[i] + number[CHOOSE c \in Typists : OwnLine[c] = i]
     ELSE Start[i]]

\* Every user has an account; the last line of the text begins with a prefix.
ASSUME TypistsAssumption ==
  /\ Tester \in Callers
  /\ Strangers = {}
  /\ Line \subseteq Nat
  /\ \A l \in Line : LineLength[l] = l
  /\ Letters \in Nat
  /\ Start \in Text
  /\ Start[Len(Start)] # Blank
  /\ OwnLine \in [Typists -> DOMAIN Start]
  /\ \A c, d \in Typists : OwnLine[c] = OwnLine[d] => c = d
  /\ \A number \in [Typists -> 0..Letters] : WithLetters(number) \in Inputs

VARIABLES
  document,  \* the row that a client was given last
  letters    \* how many letters it has typed

tvars == << vars, document, letters >>

\* The variables of the clients hold rows and stay within the words they type.
TypistsTypeOK ==
  /\ TypeOK
  /\ document \in [Typists -> Row \cup {NoRow}]
  /\ letters \in [Typists -> 0..Letters]

TypistsInit ==
  /\ Init
  /\ document = [c \in Typists |-> NoRow]
  /\ letters = [c \in Typists |-> 0]

-----------------------------------------------------------------------------

\* createOrUpdate with the version "".
CreateDocument ==
  /\ outcome[Tester] = "none"
  /\ \E description \in Descriptions :
       BeginCall(Tester, [contents |-> Start, description |-> description, base |-> NoVersion])
  /\ UNCHANGED << document, letters >>

\* The threads are started when the document is there; each begins with findByName.
FindDocument(c) ==
  /\ outcome[Tester] = "answered"
  /\ document[c] = NoRow
  /\ \E head \in Heads(rows) : document' = [document EXCEPT ![c] = head]
  /\ UNCHANGED << vars, letters >>

\* Mutant: a client goes on with the text of the document it started from.
TypeBlindly(c) ==
  /\ document[c] # NoRow
  /\ outcome[c] \in {"none", "answered"}
  /\ letters[c] < Letters
  /\ letters' = [letters EXCEPT ![c] = @ + 1]
  /\ BeginCall(c, [contents |-> [Start EXCEPT ![OwnLine[c]] = @ + letters[c] + 1],
                   description |-> document[c].description,
                   base |-> document[c].version])
  /\ UNCHANGED document

\* One more letter at the end of the client's line, as it is in the document it
\* was given.
TypeLetter(c) ==
  /\ document[c] # NoRow
  /\ outcome[c] \in {"none", "answered"}
  /\ letters[c] < Letters
  /\ letters' = [letters EXCEPT ![c] = @ + 1]
  /\ BeginCall(c, [contents |-> [document[c].contents EXCEPT ![OwnLine[c]] = @ + 1],
                   description |-> document[c].description,
                   base |-> document[c].version])
  /\ UNCHANGED document

\* The call returns.
GetDocument(c) ==
  /\ Notify(c)
  /\ document' = IF c = Tester THEN document
                 ELSE [document EXCEPT ![c] = response[c].document]
  /\ UNCHANGED letters

\* The service at work on a call.
ServiceStep(c) ==
  /\ Transacts(c) \/ TransactionFails(c)
  /\ UNCHANGED << document, letters >>

TypistsNext ==
  \/ CreateDocument
  \/ \E c \in Typists : FindDocument(c) \/ TypeLetter(c)
  \/ \E c \in Callers : GetDocument(c) \/ ServiceStep(c)

TypistsSpec == TypistsInit /\ [][TypistsNext]_tvars

\* Threads of the clients and of the container run; faults are not fair.
FairTypistsSpec ==
  /\ TypistsSpec
  /\ WF_tvars(CreateDocument)
  /\ \A c \in Typists : WF_tvars(FindDocument(c)) /\ WF_tvars(TypeLetter(c))
  /\ \A c \in Callers : WF_tvars(GetDocument(c))
                        /\ WF_tvars(Transacts(c) /\ UNCHANGED << document, letters >>)

-----------------------------------------------------------------------------
(* Correctness                                                             *)

\* The document with everything that was typed.
Typed == WithLetters(letters)

\* TestDocumentServiceClient.java:176-180.  Once the clients have been answered,
\* the head has every letter of every client in its place, and nothing else.
LettersArrive ==
  (outcome[Tester] = "answered" /\ \A c \in Typists : pc[c] = "idle" /\ outcome[c] # "failed")
    => \A head \in Heads(rows) : head.contents = Typed

\* TestDocumentServiceClient.java:166-180, DocumentServiceImpl.java:71-93.  Once
\* the document is there the clients get through: the conflicts among them and a
\* transaction that fails leave retries enough.
AllIsTyped ==
  (outcome[Tester] = "answered")
    ~> (\A c \in Typists : letters[c] = Letters /\ outcome[c] = "answered")
=============================================================================
