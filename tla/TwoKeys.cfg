CONSTANTS
  Absent = Absent
  NoKey = NoKey
  NameOnly = nameOnly
  JsonConfigs = {nameOnly}
  TextConfigs = {}
  MultipathConfigs = {}
  QuotedConfigs = {}
  Stores = {storeText}
  TextStores = {storeText}
  SysKeys = {k1, k2}
  MaxTopologies = 0
  Offers <- SysOffers
  Habits = {"create"}
  MaxEdits = 1
  MaxUpsets = 0
SPECIFICATION CredFairSpec
PROPERTIES Settles
CHECK_DEADLOCK FALSE
