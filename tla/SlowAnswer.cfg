CONSTANTS
  Blank = Blank
  a = a
  b = b
  p1 = p1
  p2 = p2
  p3 = p3
  Line = {Blank, a, b}
  LineLength <- MCLineLength
  Description = Description
  Descriptions = {Description}
  Pages = {p1, p2}
  OwnLine <- MCOwnLine
  Start <- MCStart
  MaxTyped = 2
  MaxSlow = 1
  MaxLost = 0
  MaxReloads = 0
  Gone = Gone
SPECIFICATION Spec
CHECK_DEADLOCK FALSE
INVARIANT OwnLineStays
