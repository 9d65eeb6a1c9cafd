SPECIFICATION Spec
CONSTANTS
  AccUsers = {u1}
  Addresses = {a1}
  AccHandlers = {h1, h2}
  ResetTokens = {t1}
  MaxAttempts = 2
  AttemptWindow = 1
  LockoutThreshold = 2
  LockoutWindow = 1
  LockoutDuration = 2
  ResetTTL = 1
  MaxNow = 3
  MaxLogins = 4
  RoleIds = {1, 2}
  PermIds = {1, 2, 3}
  UserIds = {1, 2}
  RoleNames = {"Admin", "Viewer"}
  AdminRole = "Admin"
  Codes = {"admin", "view"}
  AdminCode = "admin"
  SeedCodes <- MCSeedCodes
  UserNames = {"first", "second"}
  FirstUser = "first"
  Bearers = {k1}
  Signers = {h1}
  ApiProcesses = {s1, s2}
  JWTExpiry = 1
  MaxClock = 2
  MaxChanges = 2
  Clients = {"c1", "c2"}
  PageSize = 1
  MaxRows = 3
INVARIANTS ApiTypesOK WindowKept LockStops LockEarned TokenOnce StaleNoLonger ListKept
PROPERTIES SeedWhole
CHECK_DEADLOCK FALSE
SYMMETRY Symmetry
