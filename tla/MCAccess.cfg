SPECIFICATION Spec
CONSTANTS
  Handlers = {h1, h2}
  UserNames = {root, eve}
  Bootstrap = root
  RoleNames = {admin, operator, guest}
  Admin = admin
  Operator = operator
  Keys = {manage}
  OperatorKeys = {}
  UsersWrite = manage
  RolesWrite = manage
  Nothing = nothing
  MaxUsers = 2
  MaxRoles = 3
  MaxCalls = 3
SYMMETRY Symmetry
INVARIANTS
  RoleAsAsked
  UserAsAsked
PROPERTIES
  SeedRestores
  BuiltInsStay
CHECK_DEADLOCK FALSE
