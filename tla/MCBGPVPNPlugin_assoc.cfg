\* Network and router associations: two requests at a time, two projects.
SPECIFICATION Spec
CONSTANTS
  pA = pA  pB = pB  n1 = n1  n2 = n2  r1 = r1  r2 = r2  q1 = q1  q2 = q2
  Worker = {w1, w2}
  Project = {pA, pB}
  Admin = Admin
  BgpvpnId = {b1, b2}
  Network = {n1, n2}
  Router = {r1}
  Port = {}
  Prefix = {}
  Name = {"x"}
  RT = {"1:1"}
  Advertise = {TRUE, FALSE}
  MaxInterfaces = 1
  Owner <- MCOwner
  NetworkOf <- MCNetworkOf
  Default = TRUE  NoRow = NoRow  Idle = Idle  Absent = Absent
SYMMETRY Symmetry
INVARIANTS TypeOK ReferentialIntegrity OneAssocPerPair SameProject RouterAssocsAreL3 ValidationHolds
CONSTRAINT NoBgpvpnUpdate
PROPERTIES TenantIsolation StoreSpec
\* The supply of UUIDs is finite: a deployment that used it up rests.
CHECK_DEADLOCK FALSE
