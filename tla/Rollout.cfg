CONSTANTS
  Pods = {p1, p2}
  NoPod = NoPod
  MaxVersion = 2
  Default = default
  Detected = ocp
  Override = NoSection
  NoSection = NoSection
  Configured = {default}
  MaxFailures = 0
SPECIFICATION StartupFairSpec
PROPERTIES UpgradeCompletes
CHECK_DEADLOCK FALSE
