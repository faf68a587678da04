--------------------------- MODULE AjaxConversions ---------------------------
(***************************************************************************)
(* What jquery-1.9.1.js makes of the answer to a request: which of the     *)
(* responses it takes, and by which converters it gets to the data type    *)
(* that was asked for.                                                     *)
(*                                                                         *)
(* A converter << a, b >> makes a b of an a ("makes"), or is true: an a is *)
(* a b as it is ("same"). Its source may be AnyType: it takes everything.  *)
(***************************************************************************)
EXTENDS Naturals, Sequences, SequencesExt, FiniteSets

CONSTANTS
  Types,      \* data types
  AnyType,    \* "*"
  UnknownType,     \* a content type that s.contents does not know
  Converters, \* values of s.converters
  Asked,      \* values of s.dataTypes
  Responses   \* types of responses, in the order of the object

ASSUME ConversionsAssumption ==
  /\ {AnyType, UnknownType} \cap Types = {}
  /\ \A c \in Converters : \A hop \in DOMAIN c :
       /\ hop[1] \in Types \cup {AnyType} /\ hop[2] \in Types /\ hop[1] # hop[2]
       /\ c[hop] \in {"same", "makes"}
  /\ Asked \subseteq Seq(Types \cup {AnyType}) \ {<< >>}
  /\ \A a \in Asked : \A i \in DOMAIN a \ {1} : a[i] # AnyType
  /\ Responses \subseteq Seq(Types) \ {<< >>}

VARIABLES
  converters,
  typesAsked,
  contentType,
  responses,
  dataTypes,
  at,     \* how far the list is converted: prev is dataTypes[at]
  counts, \* the types that the response is of by now
  answer  \* state of the conversion

qvars == << converters, typesAsked, contentType, responses, dataTypes, at, counts, answer >>

ConversionsInit ==
  /\ converters \in Converters
  /\ typesAsked \in Asked
  /\ contentType \in Types \cup {UnknownType}
  /\ responses \in Responses
  /\ dataTypes = << >>
  /\ at = 0
  /\ counts = {}
  /\ answer = "responded"

\* The data types without "*", for which the content type stands if it is known.
ExpectedTypes ==
  IF Head(typesAsked) # AnyType THEN typesAsked
  ELSE (IF contentType = UnknownType THEN << >> ELSE << contentType >>) \o Tail(typesAsked)

\* The type of the response that is taken: the expected one, one that can be
\* converted to it at once, or the first.
FinalType(types) ==
  LET AtOnce(t) == types = << >> \/ << t, Head(types) >> \in DOMAIN converters
      i == SelectInSeq(responses, AtOnce)
  IN  IF types # << >> /\ Head(types) \in Range(responses) THEN Head(types)
      ELSE IF i = 0 THEN Head(responses) ELSE responses[i]

HandleResponses ==
  /\ answer = "responded"
  /\ LET types == ExpectedTypes
         final == FinalType(types)
     IN  /\ dataTypes' = IF types # << >> /\ Head(types) = final THEN types ELSE << final >> \o types
         /\ counts' = {final}
  /\ at' = 1
  /\ answer' = "converting"
  /\ UNCHANGED << converters, typesAsked, contentType, responses >>

\* The converters from a to b that the code looks for, in this order.
Hops(a, b) ==
  IF << a, b >> \in DOMAIN converters THEN {<< a, b >>}
  ELSE {<< AnyType, b >>} \cap DOMAIN converters

\* Pairs of converters that lead from a to b.
Pairs(a, b) ==
  {pair \in UNION {Hops(a, t) \X Hops(t, b) : t \in Types \ {a, b}} : pair[2][1] # AnyType}

\* A pair is used at once if one of its converters is true.
Condensed(pair) == "same" \in {converters[pair[1]], converters[pair[2]]}

\* The types of a value after a converter was used on it.
Converted(types, hop) == (IF converters[hop] = "same" THEN types ELSE {}) \cup {hop[2]}

\* A converter is used, and may throw.
UseConverter(hop) ==
  /\ counts' = Converted(counts, hop)
  /\ answer' = "converting" \/ (converters[hop] = "makes" /\ answer' = "parsererror")

\* A pair is used at once.
UsePair(pair) ==
  /\ counts' = Converted(Converted(counts, pair[1]), pair[2])
  /\ \/ answer' = "converting"
     \/ "makes" \in {converters[pair[1]], converters[pair[2]]} /\ answer' = "parsererror"

\* Mutant: the list does not get the type in between.
NothingInserted(pair) == dataTypes

\* The intermediate type of a pair that is used one by one.
Inserted(pair) == InsertAt(dataTypes, at + 1, pair[1][2])

\* One round of the loop of ajaxConvert; a converter may throw.
ConvertOnce ==
  /\ answer = "converting"
  /\ at < Len(dataTypes)
  /\ LET prev    == dataTypes[at]
         current == dataTypes[at + 1]
     IN  \/ /\ prev = current
            /\ UNCHANGED << dataTypes, counts, answer >>
         \/ /\ prev # current
            /\ \E hop \in Hops(prev, current) : UseConverter(hop)
            /\ UNCHANGED dataTypes
         \/ /\ prev # current /\ Hops(prev, current) = {}
            /\ \E pair \in Pairs(prev, current) :
                 IF Condensed(pair)
                 THEN UsePair(pair) /\ UNCHANGED dataTypes
                 ELSE UseConverter(pair[1]) /\ dataTypes' = Inserted(pair)
         \/ /\ prev # current /\ Hops(prev, current) = {} /\ Pairs(prev, current) = {}
            /\ answer' = "parsererror"
            /\ UNCHANGED << dataTypes, counts >>
  /\ at' = at + 1
  /\ UNCHANGED << converters, typesAsked, contentType, responses >>

Succeed ==
  /\ answer = "converting"
  /\ at = Len(dataTypes)
  /\ answer' = "success"
  /\ UNCHANGED << converters, typesAsked, contentType, responses, dataTypes, at, counts >>

ConversionsNext == HandleResponses \/ ConvertOnce \/ Succeed

ConversionsSpec == ConversionsInit /\ [][ConversionsNext]_qvars

-----------------------------------------------------------------------------
(* Correctness                                                             *)

\* jquery-1.9.1.js:8117-8254.  A request that succeeds gives the page data of the last
\* type it asked for, or else of the content type of the answer, by whatever way through
\* the converters it came to be.
AskedIsAnswered ==
  answer = "success" =>
    CASE Last(typesAsked) # AnyType -> Last(typesAsked) \in counts
      [] Last(typesAsked) = AnyType /\ contentType # UnknownType -> contentType \in counts
      [] OTHER -> Head(responses) \in counts
=============================================================================
