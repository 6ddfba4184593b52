\* Forms of an administrator and a user, and another client.
CONSTANTS
  User = {a, u}
  Admin = {a}
  BgpvpnId = {b1}
  AssocId = {x1}
  Resource = {n1, r1}
  Router = {r1}
  Name = {"blue", "red"}
  Target = {"100:1"}
  MaxTargets = 2
  WithParameters = TRUE
  None = None
SPECIFICATION Spec
INVARIANTS
  ChosenTargetsStay
