SPECIFICATION GatewaySpec
CONSTANTS
  Null = Null
  Absent = Absent
  Callers = {c1}
  Requests <- SmallRequests
  Drafts <- SmallDrafts
  RolePermissions <- SmallRoles
  Tables <- SmallTables
  Scenes <- SmallScenes
  People = {1}
  Invitations = {v1}
  Handlers = {h1, h2}
CHECK_DEADLOCK FALSE
SYMMETRY Symmetry
INVARIANTS NoStaleAuthority NeverNowhere
PROPERTIES TouchesWithinPolicy FullAnswer
