CONSTANTS
  Absent = Absent
  NoKey = NoKey
  NameOnly = nameOnly
  JsonConfigs = {nameOnly}
  TextConfigs = {}
  MultipathConfigs = {}
  QuotedConfigs = {}
  Stores = {json}
  TextStores = {}
  SysKeys = {}
  MaxTopologies = 1
  Offers <- AllOffers
  Habits = {"create", "amend"}
  Watched = {"StatefulSet", "DaemonSet"}
  Collected = {"StatefulSet", "DaemonSet"}
  Unreadable = {}
  CsiV1 = TRUE
  Registrar = FALSE
  MaxPending = 2
  MaxEdits = 2
  MaxUpsets = 1
SPECIFICATION FairSpec
INVARIANTS TypeOK DeployInv NoLostWakeup
PROPERTIES EventuallyDeployed
CHECK_DEADLOCK FALSE
