CONSTANTS
  Pods = {p1, p2, p3, p4}
  NoPod = NoPod
  MaxVersion = 2
  Default = default
  Detected = ocp
  Override = NoSection
  NoSection = NoSection
  Configured = {default}
  MaxFailures = 2
SPECIFICATION StartupFairSpec
INVARIANTS LockInv OneManager NobodyWaitsForItself
PROPERTIES EventuallyManaged
CHECK_DEADLOCK FALSE
