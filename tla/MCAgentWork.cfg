\* One single write, two patterns and two aged ones, with two failures,
\* of which each may roll back, or crashes.  Two turns, with the compression of what
\* lies before the last entry and one failing call; three providers, two calls and two
\* ticks; a command and a job it leaves behind.
SPECIFICATION FairJointSpec
CONSTANTS
  w1 = w1
  p1 = p1
  p2 = p2
  a1 = a1
  a2 = a2
  u1 = u1
  u2 = u2
  ana = ana
  ben = ben
  m1 = m1
  m2 = m2
  m3 = m3
  c1 = c1
  c2 = c2
  Writes <- MCWrites
  Patterns <- MCPatterns
  RowIds <- MCRowIds
  Stored <- MCStored
  MaxFaults = 2
  Turns = {u1, u2}
  Users = {ana, ben}
  MaxActive = 1
  TailCount = 1
  Settings <- MCSettings
  MaxMishaps = 1
  Order <- MCOrder
  Invocations = {c1, c2}
  Retries = 1
  Threshold = 2
  Cooldown = 1
  QuotaCooldown = 2
  MaxTime = 2
  Output = 3
  JobOutput = 4
  Room = 4
  Limit = 5
INVARIANTS AckedIsDurable SearchMatches TurnsAgree FailoverIsComplete ShellIsHonest
PROPERTY TurnsEnd
CHECK_DEADLOCK FALSE
