\* One request at a time, a router with two interfaces.
SPECIFICATION Spec
CONSTANTS
  pA = pA  pB = pB  n1 = n1  n2 = n2  r1 = r1  r2 = r2  q1 = q1  q2 = q2
  Worker = {w1}
  Project = {pA}
  Admin = Admin
  BgpvpnId = {b1, b2}
  Network = {n1, n2}
  Router = {r1}
  Port = {}
  Prefix = {}
  Name = {"x"}
  RT = {"1:1"}
  Advertise = {TRUE}
  MaxInterfaces = 2
  Owner <- MCOwner
  NetworkOf <- MCNetworkOf
  Default = TRUE  NoRow = NoRow  Idle = Idle  Absent = Absent
SYMMETRY Symmetry
INVARIANTS NoDoubleL3Binding
CONSTRAINT NoBgpvpnUpdate
\* The supply of UUIDs is finite: a deployment that used it up rests.
CHECK_DEADLOCK FALSE
