\* Requests of one kind at a time: for networks and routers, one after the other;
\* for a port, one after the other or two at a time; updates, two at a time.
SPECIFICATION Spec
CONSTANTS
  pA = pA  pB = pB  n1 = n1  n2 = n2  r1 = r1  r2 = r2  q1 = q1  q2 = q2
  Worker = {w1, w2}
  Project = {pA, pB}
  Admin = Admin
  BgpvpnId = {b1, b2}
  Network = {n1, n2}
  Router = {r1}
  Port = {q1}
  Prefix = {}
  Name = {"x", "y"}
  RT = {"1:1", "2:2"}
  Advertise = {TRUE}
  MaxInterfaces = 1
  Owner <- OneOwner
  NetworkOf <- MCNetworkOf
  Default = TRUE  NoRow = NoRow  Idle = Idle  Absent = Absent
SYMMETRY Symmetry
CONSTRAINT OneKind
INVARIANTS NoDoubleL3Binding ReferentialIntegrity OneAssocPerPair RoutesStayInProject ValidationHolds
PROPERTIES NoLostUpdate TenantIsolation StoreSpec
\* The supply of UUIDs is finite: a deployment that used it up rests.
CHECK_DEADLOCK FALSE
