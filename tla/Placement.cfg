CONSTANTS
  Absent = Absent
  NoLabel = NoLabel
  zone = zone
  Nodes = {n1, n2}
  Keys = {zone}
  Values = {1, 2}
  Offers <- SingleOffers
  MaxTopologies = 2
  MaxEdits = 1
  MaxUpsets = 2
SPECIFICATION FairSpec
INVARIANTS TypeOK DefaultApart NoNodeForgotten OnePluginWhenSettled
PROPERTIES EventuallyOnePlugin
CHECK_DEADLOCK FALSE
