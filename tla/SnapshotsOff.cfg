CONSTANTS
  Absent = Absent
  NoKey = NoKey
  NameOnly = nameOnly
  JsonConfigs = {nameOnly}
  TextConfigs = {}
  MultipathConfigs = {}
  QuotedConfigs = {}
  Stores = {json}
  TextStores = {}
  SysKeys = {}
  MaxTopologies = 0
  Offers <- SnapshotOffers
  Habits = {"create", "amend"}
  Watched = {"StatefulSet", "DaemonSet"}
  Collected = {"StatefulSet", "DaemonSet"}
  Unreadable = {}
  CsiV1 = TRUE
  Registrar = FALSE
  MaxPending = 2
  MaxEdits = 2
  MaxUpsets = 0
SPECIFICATION FairSpec
PROPERTIES SnapshotClassFollows
CHECK_DEADLOCK FALSE
