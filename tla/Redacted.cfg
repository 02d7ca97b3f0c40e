CONSTANTS
  Absent = Absent
  NoKey = NoKey
  NameOnly = nameOnly
  JsonConfigs = {c1, nameOnly}
  TextConfigs = {}
  MultipathConfigs = {c1}
  QuotedConfigs = {}
  Stores = {json}
  TextStores = {}
  SysKeys = {}
  MaxTopologies = 1
  Offers <- MultipathOffers
  Habits = {"create", "amend"}
  Watched = {"StatefulSet", "DaemonSet"}
  Collected = {"StatefulSet", "DaemonSet"}
  Unreadable = {}
  CsiV1 = FALSE
  Registrar = TRUE
  MaxPending = 2
  MaxEdits = 2
  MaxUpsets = 0
SPECIFICATION Spec
INVARIANTS BuiltUnredacted
CHECK_DEADLOCK FALSE
