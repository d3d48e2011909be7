\* Two users, one of them in two chats, with two commands over two projects; two Lark
\* users, two authorizations of which one may be pending, two calls that need a token.
SPECIFICATION JointSpec
CONSTANTS
  a1 = a1
  a2 = a2
  b1 = b1
  u1 = u1
  u2 = u2
  p1 = p1
  p2 = p2
  k1 = k1
  k2 = k2
  c1 = c1
  c2 = c2
  v1 = v1
  v2 = v2
  Places <- MCPlaces
  UserOf <- MCUserOf
  Projects <- MCProjects
  Default = p1
  Commands <- MCCommands
  NRecords = 2
  MaxSwitches = 1
  MaxRestarts = 1
  LarkUsers <- MCLarkUsers
  NStates = 2
  Calls <- MCCalls
  TTL = 1
  Skew = 1
  MaxHeld = 1
  Lives <- MCLives
  MaxTime = 2
SYMMETRY Symmetric
INVARIANT DeletesOwnRecords
PROPERTY AccessIsOwn
CHECK_DEADLOCK FALSE
