\* Two workers and every fault, a port, an external network, deletions by Neutron.
CONSTANTS
  Worker = {w1, w2}
  Bgpvpn = {b1, b2}
  Assoc = {a1, a2}
  Network = {n1, n2}
  Router = {r1}
  Port = {p1}
  External = {n2}
  Mortal = {p1, r1}
  Name = {"blue"}
  RT = {"65000:1", "65000:2"}
  Fault = {"rollback", "crash", "veto", "error"}
  MaxRequests = 4
  MaxPlugged = 1
  a1 = a1
  a2 = a2
  b1 = b1
  b2 = b2
  n1 = n1
  n2 = n2
  p1 = p1
  r1 = r1
  w1 = w1
  w2 = w2
  None = None
  Idle = Idle
  NetworkOf <- OnePort
SPECIFICATION Spec
SYMMETRY Symmetry
CHECK_DEADLOCK FALSE
INVARIANTS
  TypeOK
  AgentsAgree
  NothingInvented
  NoExternalNetwork
  NoRouteDistinguishers
PROPERTIES
  KeepsPromise
