SPECIFICATION TimedScriptsSpec
CONSTANTS
  Requests = {1, 2}
  Options <- MCOptions
  box1 = box1
  Animated = {box1}
  Effects <- MCEffects
  MaxEffects = 3
  MaxStops = 1
  MaxPromises = 1
  Browsers <- MCBrowsers
  MaxHolds = 2
INVARIANT StartsAndStopsAlternate
PROPERTY EffectsEnd
PROPERTY ReadyComes
CHECK_DEADLOCK FALSE
