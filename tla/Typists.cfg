CONSTANTS
  Blank = 0
  t0 = t0
  t1 = t1
  t2 = t2
  t3 = t3
  d = d
  Line = {0, 1, 2, 3}
  LineLength <- MCLineLength
  Callers = {t0, t1, t2}
  Strangers = {}
  Deleters = {}
  Inputs <- MCInputs
  Descriptions = {d}
  Retries = 4
  FindTries = 1
  ClockSkew = 0
  ClockStep = 1
  MaxCalls = 7
  MaxDeletes = 0
  MaxFaults = 1
  Tester = t0
  OwnLine <- MCOwnLine
  Start <- MCStart
  Letters = 2
SPECIFICATION FairTypistsSpec
CHECK_DEADLOCK FALSE
INVARIANT LettersArrive
PROPERTY AllIsTyped
