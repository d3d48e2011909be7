\* One operation, two chats, two targets of which one supports it, two selections and one
\* restart; a plain message, a risky one and a confirmation, one tick and one restart.
SPECIFICATION FairJointSpec
CONSTANTS
  r1 = r1
  c1 = c1
  c2 = c2
  t1 = t1
  t2 = t2
  plain = plain
  risky = risky
  confirm = confirm
  NoTarget = NoTarget
  Nobody = Nobody
  Targets <- MCTargets
  Requests <- MCRequests
  Chats <- MCChats
  Default = t1
  Supported <- MCFirst
  Bound <- MCTargets
  MaxSelections = 2
  MaxRestarts = 1
  Messages <- MCMessages
  Risky = {risky}
  Confirming = {confirm}
  Copies <- MCCopies
  Ttl = 0
  MaxSize = 2
  MaxTime = 1
INVARIANTS ReceiptTellsTheEffect AnswerIsTrue RunsAsConfirmed
PROPERTY RequestsEnd
CHECK_DEADLOCK FALSE
