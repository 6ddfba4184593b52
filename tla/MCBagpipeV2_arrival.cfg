\* One worker, two routers on one network, no faults: the refinement, and that
\* changes arrive.
CONSTANTS
  Worker = {w1}
  Bgpvpn = {b1}
  Assoc = {a1, a2}
  Network = {n1}
  Router = {r1, r2}
  Port = {}
  External = {}
  Mortal = {}
  Name = {"blue"}
  RT = {"65000:1", "65000:2"}
  Fault = {}
  MaxRequests = 5
  MaxPlugged = 2
  a1 = a1
  a2 = a2
  b1 = b1
  n1 = n1
  r1 = r1
  r2 = r2
  p1 = p1
  w1 = w1
  w2 = w2
  None = None
  Idle = Idle
  NetworkOf <- NoPort
SPECIFICATION FairSpec
CHECK_DEADLOCK FALSE
PROPERTIES
  KeepsPromise
  ChangesArrive
