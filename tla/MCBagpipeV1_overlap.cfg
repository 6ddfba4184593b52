\* Two workers, up to two routers on a network, an ordinary port and two that agents
\* are to ignore: requests and events overlap, and hooks raise.
CONSTANTS
  Worker = {w1, w2}
  Bgpvpn = {b1, b2}
  L3 = {b1, b2}
  Network = {n1, n2}
  Router = {r1, r2}
  Port = {p1, p2, p3}
  External = {n2}
  NetworkOwned = {p2}
  RT = {t1, t2}
  MaxRequests = 4
  MaxOnNetwork = 2
  b1 = b1
  b2 = b2
  n1 = n1
  n2 = n2
  p1 = p1
  p2 = p2
  p3 = p3
  r1 = r1
  r2 = r2
  w1 = w1
  w2 = w2
  None = None
  Idle = Idle
  NetworkOf <- Networks
  Addresses <- OneAddress
SPECIFICATION Spec
SYMMETRY Symmetry
CHECK_DEADLOCK FALSE
INVARIANTS
  TypeOK
  PortsHaveTheirVpns
  OtherPortsHaveNothing
