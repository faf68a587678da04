CONSTANTS
  Blank = Blank
  a = a
  b = b
  c1 = c1
  c2 = c2
  c3 = c3
  d1 = d1
  d2 = d2
  e1 = e1
  e2 = e2
  Line = {Blank, a, b}
  LineLength <- MCLineLength
  Callers = {c1, c2, c3}
  Strangers = {}
  Deleters = {}
  Inputs <- MCInputs
  Descriptions = {d1, d2}
  Retries = 2
  FindTries = 1
  ClockSkew = 2
  ClockStep = 1
  MaxCalls = 3
  MaxDeletes = 0
  MaxFaults = 1
SPECIFICATION MCUpdateSpec
CHECK_DEADLOCK FALSE
SYMMETRY MCSymmetry
INVARIANT TypeOK
INVARIANT MergesAreFaithful
INVARIANT AnswersAreCommitted
INVARIANT NewestPushIsHead
INVARIANT OneHeadInv
INVARIANT OneHead
PROPERTY SavesAreAtomic
ACTION_CONSTRAINT MCClocks
