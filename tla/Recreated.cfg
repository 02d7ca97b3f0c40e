CONSTANTS
  Absent = Absent
  NoKey = NoKey
  NameOnly = nameOnly
  JsonConfigs = {nameOnly}
  TextConfigs = {}
  MultipathConfigs = {}
  QuotedConfigs = {}
  Stores = {json}
  TextStores = {}
  SysKeys = {}
  MaxTopologies = 0
  Offers <- SnapshotOffers
  Habits = {"create", "delete"}
  Watched = {"StatefulSet", "DaemonSet"}
  Collected = {"StatefulSet", "DaemonSet"}
  Unreadable = {"VolumeSnapshotClass"}
  CsiV1 = TRUE
  Registrar = TRUE
  MaxPending = 2
  MaxEdits = 3
  MaxUpsets = 0
SPECIFICATION FairSpec
INVARIANTS NoLostWakeup
PROPERTIES CredSpec EventuallyOwned
CHECK_DEADLOCK FALSE
