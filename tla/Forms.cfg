CONSTANTS
  Blank = Blank
  a = a
  b = b
  n1 = n1
  n2 = n2
  d1 = d1
  d2 = d2
  u1 = u1
  u2 = u2
  u3 = u3
  Line = {Blank, a, b}
  LineLength <- MCLineLength
  Inputs <- MCInputs
  Names = {n1, n2}
  Descriptions = {d1, d2}
  Editors = {u1, u2}
  Listeners = {u3}
  MaxSubmits = 3
  s1 = s1
  s2 = s2
  r1 = r1
  r2 = r2
  a1 = a1
  t1 = t1
  t2 = t2
  fullName = fullName
  colour = colour
  v1 = v1
  v2 = v2
  Savers = {s1, s2}
  Removers = {r1, r2}
  Authors = {a1}
  Readers = {t1, t2}
  Fields = {fullName, colour}
  Values = {v1, v2}
  Retries = 2
  MaxSaves = 3
  MaxRemovals = 2
  MaxWrites = 2
  MaxPurges = 1
  LifeTime = 2
  MaxDelay = 1
  MaxQueryFaults = 1
SPECIFICATION MCSpec
CHECK_DEADLOCK FALSE
INVARIANT AnswersAreRecent
PROPERTY AnsweredSavesCount
PROPERTY DeletionsAreMeant
PROPERTY FormsKeepToTheirDocument
PROPERTY EditsKeepUnseenLines
