\* Two pollers, a sensor and two sources of one signal; operators work on the alerts.
SPECIFICATION Spec
CONSTANTS
  w1 = w1  w2 = w2  sensor = sensor  prtg1 = prtg1  prtg2 = prtg2  stray = stray  s1 = s1  s2 = s2
  Workers <- TwoWorkers
  Collectors <- TwoWorkers
  Probes <- EveryProbe
  Sensors <- SensorOnly
  Located <- EveryProbe
  SignatureOf <- SharedSignature
  Availability <- EveryProbe
  Severities <- OneSeverity
  Targets <- NoState
  Window = 0
  StaleAfter = 0
  MaxTime = 0
  MaxAlerts = 2
  MaxIncidents = 2
SYMMETRY SymmetricSignals
INVARIANTS TypeOK OneActiveAlert AnalysedOnce OneOpenIncident
