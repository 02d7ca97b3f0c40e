CONSTANTS
  Absent = Absent
  NoKey = NoKey
  NameOnly = nameOnly
  JsonConfigs = {nameOnly}
  TextConfigs = {text}
  MultipathConfigs = {}
  QuotedConfigs = {}
  Stores = {storeText}
  TextStores = {storeText}
  SysKeys = {}
  MaxTopologies = 0
  Offers <- PlainOffers
  Habits = {"create"}
  MaxEdits = 1
  MaxUpsets = 0
SPECIFICATION CredSpec
INVARIANTS TextForwarded
CHECK_DEADLOCK FALSE
