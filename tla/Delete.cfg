CONSTANTS
  Blank = Blank
  a = a
  b = b
  c1 = c1
  c2 = c2
  c3 = c3
  d1 = d1
  d2 = d2
  e1 = e1
  e2 = e2
  Line = {Blank, a, b}
  LineLength <- MCLineLength
  Callers = {c1, c2, c3}
  Strangers = {c3}
  Deleters = {e1, e2}
  Inputs <- MCFewInputs
  Descriptions = {d1}
  Retries = 2
  FindTries = 1
  ClockSkew = 0
  ClockStep = 1
  MaxCalls = 3
  MaxDeletes = 2
  MaxFaults = 1
SPECIFICATION Spec
CHECK_DEADLOCK FALSE
SYMMETRY MCDeleteSymmetry
INVARIANT RemainsReadable
