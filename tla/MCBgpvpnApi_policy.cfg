\* Two tenants and an administrator change BGPVPNs and their associations, and list
\* them, by network and router too.
CONSTANTS
  Project = {p1, p2}
  BgpvpnId = {b1, b2}
  Network = {n1, n2}
  Router = {r1}
  Port = {t1}
  Attr = {"name", "import_targets", "export_targets"}
  Rt = {"100:1"}
  NamedValue = {blue, red}
  ByPort = FALSE
  MaxList = 2
  MaxRequests = 4
  Admin = Admin
  NoRow = NoRow
  None = None
SPECIFICATION Spec
SYMMETRY Symmetry
CHECK_DEADLOCK FALSE
INVARIANTS
  TenantsAreNotTold
  StoredAsGiven
  
PROPERTIES
  OnlyTheAdminChooses
