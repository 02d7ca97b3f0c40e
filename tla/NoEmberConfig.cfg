CONSTANTS
  Absent = Absent
  NoKey = NoKey
  NameOnly = nameOnly
  JsonConfigs = {c1, nameOnly}
  TextConfigs = {}
  MultipathConfigs = {c1}
  QuotedConfigs = {}
  Stores = {json}
  TextStores = {}
  SysKeys = {}
  MaxTopologies = 0
  Offers <- MixedOffers
  Habits = {"create"}
  MaxEdits = 1
  MaxUpsets = 0
SPECIFICATION CredSpec
INVARIANTS EmberConfigOptional
CHECK_DEADLOCK FALSE
