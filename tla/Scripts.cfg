SPECIFICATION ScriptsSpec
CONSTANTS
  NoKey = NoKey
  r1 = r1
  r2 = r2
  r3 = r3
  r4 = r4
  Rows = {r1, r2, r3, r4}
  Columns = {1, 2}
  Contents <- MCContents
  HeaderTypes <- MCHeaderTypes
  Defaults <- MCDefaults
  BottomRows = {r4}
  Phrases <- MCPhrases
  callback1 = callback1
  callback2 = callback2
  Undefined = Undefined
  UserFunctions = {callback1, callback2}
  MaxFires = 2
  MaxListCalls = 4
  AnyType = "*"
  UnknownType = "none"
  Types <- MCTypes
  Converters <- MCConverters
  Asked <- MCAsked
  Responses <- MCResponses
  row1 = row1
  button1 = button1
  NoElement = NoElement
  onButton = onButton
  Elements = {row1, button1}
  ParentElement <- MCParentElement
  Attributed = {row1}
  onRow = onRow
  Bindings <- MCBindings
  Removals <- MCRemovals
  MaxBound = 2
  MaxTriggered = 1
  MaxNodes = 8
  FirstNodes <- MCFirstNodes
  Selections <- MCSelections
  MaxCalls = 3
  d1 = d1
  d2 = d2
  Dialogs = {d1, d2}
  Fading = {d2}
  Page = Page
  DocumentBody = DocumentBody
  MaxDelays = 2
  MaxShows = 2
  title1 = title1
  window1 = window1
  text1 = text1
  bar1 = bar1
  Draggables = {title1, window1}
  Targets = {bar1, text1}
  Chain <- MCChain
  Grips <- MCGrips
  Delayed = {title1}
  Reverting = {window1}
  NoTarget = NoTarget
  MaxTimers = 2
  Places <- MCPlaces
  Drags <- MCDrags
  Axes <- MCAxes
  Boxes <- MCBoxes
  Limits <- MCLimits
  Ratios <- MCRatios
  Steps <- MCSteps
  WidgetNames = {1, 2, 3}
  Levels = {1, 2, 3}
  MaxDefinitions = 3
  MaxFrames = 3
  buttonset1 = buttonset1
  button2 = button2
  Hosts = {buttonset1, button2}
  Other <- MCOther
  MaxInstances = 3
  tick1 = tick1
  radio1 = radio1
  radio2 = radio2
  link1 = link1
  link2 = link2
  Nothing = Nothing
  FormOrder <- MCFormOrder
  Radios <- MCRadios
  Pages <- MCPages
  Disabling <- MCDisabling
  Links <- MCLinks
  MaxResets = 1
INVARIANT MarksTellTheOrder
INVARIANT NobodyMissesTheLastValue
INVARIANT CalledAsOftenAsAdded
INVARIANT AskedIsAnswered
INVARIANT CalledOncePerEvent
INVARIANT CacheIsOwned
INVARIANT ModalityHolds
INVARIANT OnlyDragsSwallowClicks
INVARIANT FitsWithin
 
INVARIANT SuperIsOwn
INVARIANT NoHandlerOutlivesItsWidget
INVARIANT LooksFollowState
CHECK_DEADLOCK FALSE
