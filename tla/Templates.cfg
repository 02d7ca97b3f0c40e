CONSTANTS
  Drivers = {Lvm, Array}
  InUse = Array
  Other = Lvm
  Options = {name, option}
  NameOption = name
  Option = option
  Texts = {blank, crName, pair, pairs, number, lvm, hidden}
  Blank = blank
  CrName = crName
  PairTexts = {pair, pairs}
  SeveralTexts = {pairs}
  NumberTexts = {number}
  LvmTexts = {lvm}
  Hidden = hidden
  LvmDrivers = {Lvm}
  None = None
  Missing = Missing
  Unbuilt = Unbuilt
  Label1 = label1
  Label2 = label2
  Entries = {label1, label2}
  Unused = unused
  Inputs <- SomeInputs
  Sections <- SomeSections
  Settings <- SomeSettings
  NotJson = NotJson
  TopologyLists <- SomeTopologies
SPECIFICATION TemplatesSpec
INVARIANTS TransformInv ResultIsMeaning SecondPassChangesNothing MountsBacked LvmAsDriver TopologiesKnown PluginsFit
PROPERTY VisitsRunOut
CHECK_DEADLOCK FALSE
