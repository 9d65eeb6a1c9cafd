SPECIFICATION Spec
CONSTANTS
  Users = {u1, u2}
  NoUser = NoUser
  Tokens = {t1, t2, t3}
  NoToken = NoToken
  Handlers = {h1, h2}
  Orderly = TRUE
  Faults = {"revoke", "lookup", "create", "die"}
INVARIANTS TypeOK ExchangedOnce LogoutEndsIdle SessionsGoOn
SYMMETRY MCSymmetry
CHECK_DEADLOCK FALSE
