CONSTANTS
  Blank = Blank
  a = a
  b = b
  p1 = p1
  p2 = p2
  p3 = p3
  Line = {Blank, a, b}
  LineLength <- MCLineLength
  Description = Description
  Descriptions = {Description}
  Pages = {p1, p2}
  OwnLine <- MCOwnLine
  Start <- MCStart
  MaxTyped = 3
  MaxSlow = 0
  MaxLost = 1
  MaxReloads = 0
  Gone = Gone
SPECIFICATION MCSpec
CHECK_DEADLOCK FALSE
INVARIANT OwnLineStays
INVARIANT QuietPagesShowHead
INVARIANT TextsFitTheirVersions
PROPERTY SavesKeepOthersLines
