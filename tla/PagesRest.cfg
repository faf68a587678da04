CONSTANTS
  Blank = Blank
  a = a
  b = b
  p1 = p1
  p2 = p2
  p3 = p3
  Line = {Blank, a, b}
  LineLength <- MCLineLength
  Description = Description
  Descriptions = {Description}
  Pages = {p1, p2}
  OwnLine <- MCOwnLine
  Start <- MCStart
  MaxTyped = 2
  MaxSlow = 1
  MaxLost = 1
  MaxReloads = 1
  Gone = Gone
SPECIFICATION MCFairSpec
CHECK_DEADLOCK FALSE
PROPERTY PagesComeToRest
