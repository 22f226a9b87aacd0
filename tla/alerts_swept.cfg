\* Every probe and an operator who closes incidents; the clock runs far enough for the sweep.
SPECIFICATION FairSpec
CONSTANTS
  w1 = w1  w2 = w2  sensor = sensor  prtg1 = prtg1  prtg2 = prtg2  stray = stray  s1 = s1  s2 = s2
  Workers <- OneWorker
  Collectors <- OneWorker
  Probes <- WithStray
  Sensors <- SensorOnly
  Located <- EveryProbe
  SignatureOf <- SharedSignature
  Availability <- EveryProbe
  Severities <- OneSeverity
  Targets <- ClosedOnly
  Window = 0
  StaleAfter = 0
  MaxTime = 1
  MaxAlerts = 2
  MaxIncidents = 1
INVARIANTS SuppressedByEarlier
PROPERTY StaleIsEnded
