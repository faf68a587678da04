CONSTANTS
  Blank = Blank
  a = a
  b = b
  c1 = c1
  c2 = c2
  e1 = e1
  d1 = d1
  noDescription = noDescription
  Line = {Blank, a, b}
  LineLength <- MCLineLength
  Callers = {c1, c2}
  Strangers = {}
  ScriptPages = {c1}
  Deleters = {c1, c2, e1}
  Inputs <- MCInputs
  Descriptions = {noDescription}
  NoDescription = noDescription
  Retries = 2
  FindTries = 1
  ClockSkew = 2
  ClockStep = 1
  MaxCalls = 3
  MaxDeletes = 1
  MaxFaults = 1
SPECIFICATION StaleSpec
CHECK_DEADLOCK FALSE
INVARIANT RemainsReadable
INVARIANT OrphansOnlyCreate
