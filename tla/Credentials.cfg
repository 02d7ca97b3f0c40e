CONSTANTS
  Absent = Absent
  NoKey = NoKey
  NameOnly = nameOnly
  JsonConfigs = {c1, nameOnly}
  TextConfigs = {text}
  MultipathConfigs = {c1}
  QuotedConfigs = {}
  Stores = {json, storeText}
  TextStores = {storeText}
  SysKeys = {k1}
  MaxTopologies = 0
  Offers <- MixedOffers
  Habits = {"create", "replace", "amend", "retype", "delete"}
  MaxEdits = 3
  MaxUpsets = 1
SPECIFICATION CredFairSpec
INVARIANTS CredTypeOK IInv RedactedIsSaved NothingLost
PROPERTIES EditsSurvive KeepsVault EventuallyRedacted Settles
CHECK_DEADLOCK FALSE
