\* Tokens live for one tick of three.
SPECIFICATION Spec
CONSTANTS
  u1 = u1
  u2 = u2
  t1 = t1
  t2 = t2
  Users = {u1, u2}
  Tokens = {t1, t2}
  Owner <- MCOwner
  NoToken = NoToken
  Ttl = 1
  MaxTime = 3
INVARIANTS OneUse CancelRevokes
PROPERTIES NoStaleUse ImplementsOneUseGrant
CHECK_DEADLOCK FALSE
