CONSTANTS
  Blank = Blank
  x = x
  y = y
  NotMerged = NotMerged
  Line = {Blank, x, y}
  LineLength <- MCLineLength
  Texts <- MCTexts
  Cursors <- MCCursors
SPECIFICATION Spec
CHECK_DEADLOCK FALSE
INVARIANT RewrittenLinesSurvive
INVARIANT CursorKeepsItsPlace
