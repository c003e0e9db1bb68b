CONSTANTS
  a = a
  b = b
  inner = inner
  outer = outer
  Threads <- TwoThreads
  Groups <- TwoGroups
  Values = {1, 2}
  NoValue = 0
  MaxDepth = 2
  MaxCalls = 4
  HeaderRows = 3
  HeaderColumns = 2
  RowSpans = {1, 2, 3}
  ColumnSpans = {1, 2}
  SizeHints = {1, 3}
  DefaultSize = 2
  LevelSize = 2
  MaxSpans = 2
  MaxResizes = 1
  leftPlace = leftPlace
  rightPlace = rightPlace
  parted = parted
  Unset = Unset
  Observables = {"o1", "o2"}
  Watchers = {"w1", "w2"}
  MaxLoops = 2
  Objects = {"x", "y", "z"}
  IDs = {"i1", "i2"}
  Signals <- MCSignals
  Slots <- MCSlots
  Owner <- MCOwner
  MaxOffers = 2
  Rectangles <- MCRectangles
  Center = leftPlace
  Partings <- MCPartings
  Widgets = {"window", "child"}
  Root = "window"
  OwnSize <- MCOwnSize
  FontSizes = {2, 3}
  MaxEvents = 7
  LastPosition = 2
  Menu <- MCMenu
  Size = 3
  BufferSize = 2
  MaxBlock = 2
  MaxWrites = 2
  MaxValue = 4
  MaxLength = 3
  MaxSide = 8
  Collation = {0, 1}
  MaxWeight = 9
  MaxTasks = 5
  MaxNested = 3
  Workers = {"s", "t", "u"}
  Steps = {70, 71}
  Total = 213
  MaxCount = 284
  Users = {"parser", "validator", "another"}
  FileKeys = {"k", "l"}
  FileGroups = {"g", "h"}
  FileValues = {1, 2}
  Replaced = {"l"}
  FileDepth = 1
  FileCalls = 4
SPECIFICATION PartSpec
INVARIANTS
  PartTypeOK
  HeaderWhole
  BothSidesAgree
  CopiedWhole
  HelpersRight
PROPERTIES
  GroupsOpen
  GuiRestored
  CoversCome
