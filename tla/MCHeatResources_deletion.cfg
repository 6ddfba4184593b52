\* Stacks that give BGPVPNs by resource or by id, their creation and deletion; the
\* engine may stop, and other clients interfere.
CONSTANTS
  Vpn = {V}
  NetAssoc = {N}
  RouterAssoc = {}
  PortAssoc = {P}
  Id = {i1, i2, i3}
  Name = {"blue"}
  ByName = FALSE
  MaxFaults = 2
  None = None
SPECIFICATION FairSpec
CHECK_DEADLOCK FALSE
INVARIANTS
  NothingLeftBehind
  RoutesAreSentClean
PROPERTIES
  DeletionEnds
