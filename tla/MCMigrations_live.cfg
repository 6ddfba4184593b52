\* Servers insert rows while the branches are upgraded, interrupted and run again.
CONSTANTS
  Id = {x1, x2}
  Written = {"bgpvpns", "routers", "ports"}
  MaxCrashes = 2
  None = None
SPECIFICATION Spec
CHECK_DEADLOCK FALSE
INVARIANTS
  SchemaMatchesModels
  ServersAreServed
  RowsHaveTheirAttribute
  FailsOnlyAfterInterruption
