\* Two requests that record for two tenants, the sealing job, a check and an
\* edited row.
SPECIFICATION FairSpec
CONSTANTS
  t1 = t1  t2 = t2  r1 = r1  r2 = r2  j1 = j1
  Tenants <- TwoTenants
  Events <- ThreeEvents
  Owner <- TwoOwners
  Requests <- TwoRequests
  Sealers <- OneSealer
  Nobody = Nobody
  SealLimit = 1
  RecentLinks = 1
  MaxEdits = 1
INVARIANTS ChainIsWhole NoFalseAlarm EditsAreReported
PROPERTIES EventuallyLinked
