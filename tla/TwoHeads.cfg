CONSTANTS
  Blank = Blank
  a = a
  b = b
  c1 = c1
  c2 = c2
  c3 = c3
  d1 = d1
  d2 = d2
  e1 = e1
  e2 = e2
  Line = {Blank, a, b}
  LineLength <- MCLineLength
  Callers = {c1, c2}
  Strangers = {}
  Deleters = {e1}
  Inputs <- MCInputs
  Descriptions = {d1}
  Retries = 2
  FindTries = 2
  ClockSkew = 0
  ClockStep = 1
  MaxCalls = 4
  MaxDeletes = 1
  MaxFaults = 0
SPECIFICATION Spec
CHECK_DEADLOCK FALSE
INVARIANT OneHead
